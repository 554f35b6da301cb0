------------------------- MODULE MeasureFundProofs -------------------------
(***************************************************************************)
(* The safety properties of MeasureFund, for every ordinance, table of     *)
(* figures, set of periods and number of requests.                         *)
(*                                                                         *)
(* The arithmetic is a matter of sums and of folds in ascending order, so  *)
(* the module begins with induction over finite sets: its hypothesis is    *)
(* the set of the parts for which the claim holds, and the recursion is    *)
(* given its step as a function.                                           *)
(***************************************************************************)
EXTENDS MeasureFund, FiniteSetTheorems, WellFoundedInduction, TLAPS

-----------------------------------------------------------------------------
(***************************************************************************)
(* Induction over sets of numbers and over finite sets.  The hypothesis is *)
(* a set, the members for which the claim holds, so that the provers can   *)
(* instantiate it; it comes from the well-foundedness of the numbers.      *)
(***************************************************************************)
LEMMA Counting ==
  ASSUME NEW T, 0 \in T, \A n \in Nat : n \in T => n + 1 \in T
  PROVE  Nat \subseteq T
<1> DEFINE R == OpToRel(<, Nat)
<1>1. IsWellFoundedOn(R, Nat)
  BY NatLessThanWellFounded
<1>2. \A x, y \in Nat : x < y => <<x, y>> \in R
  BY DEF OpToRel
<1> HIDE DEF R
<1> SUFFICES ASSUME Nat \ T # {}
             PROVE  FALSE
  OBVIOUS
<1>3. Nat \ T \subseteq Nat
  OBVIOUS
<1>4. PICK x \in Nat \ T : \A y \in Nat \ T : ~(<<y, x>> \in R)
  BY <1>1, <1>3, WFMin
<1>5. x # 0 /\ x - 1 \in Nat /\ <<x - 1, x>> \in R
  BY <1>2
<1>6. x - 1 \in T
  BY <1>4, <1>5
<1>7. x \in T
  BY <1>5, <1>6
<1>8. QED
  BY <1>7

\* Of the parts of a finite set: what holds of a part when it holds of that part less any
\* member holds of every part.
LEMMA CountingDown ==
  ASSUME NEW S, IsFiniteSet(S), NEW T,
         \A s \in SUBSET S : (\A x \in s : s \ {x} \in T) => s \in T
  PROVE  \A s \in SUBSET S : s \in T
<1> DEFINE Sized == {n \in Nat : \A s \in SUBSET S : Cardinality(s) = n => s \in T}
<1>1. 0 \in Sized
  <2> SUFFICES ASSUME NEW s \in SUBSET S, Cardinality(s) = 0
               PROVE  s \in T
    OBVIOUS
  <2>1. s = {}
    BY FS_Subset, FS_EmptySet
  <2>2. QED
    BY <2>1
<1>2. ASSUME NEW n \in Nat, n \in Sized
      PROVE  n + 1 \in Sized
  <2> SUFFICES ASSUME NEW s \in SUBSET S, Cardinality(s) = n + 1
               PROVE  s \in T
    OBVIOUS
  <2>1. IsFiniteSet(s)
    BY FS_Subset
  <2>2. ASSUME NEW x \in s PROVE s \ {x} \in T
    <3>1. Cardinality(s \ {x}) = n
      BY <1>2, <2>1, <2>2, FS_RemoveElement
    <3>2. QED
      BY <3>1, <1>2, s \ {x} \in SUBSET S
  <2>3. QED
    BY <2>2
<1>3. Nat \subseteq Sized
  <2> HIDE DEF Sized
  <2>1. QED
    BY <1>1, <1>2, Counting
<1>4. QED
  <2> SUFFICES ASSUME NEW s \in SUBSET S PROVE s \in T
    OBVIOUS
  <2>1. Cardinality(s) \in Nat
    BY FS_Subset, FS_CardinalityType
  <2>2. QED
    BY <2>1, <1>3

(***************************************************************************)
(* Recursion: for a step given as a function there is a function that      *)
(* satisfies the equation of a fold.                                       *)
(***************************************************************************)
Follows(it, S, start, step, pick) ==
    \A s \in SUBSET S : it[s] = IF s = {} THEN start ELSE step[<<s, it[s \ {pick[s]}]>>]

\* The function a fold iterates exists.
LEMMA Recursion ==
  ASSUME NEW S, IsFiniteSet(S), NEW D, NEW start \in D,
         NEW step \in [(SUBSET S) \X D -> D],
         NEW pick, \A s \in SUBSET S : s # {} => pick[s] \in s
  PROVE  \E it \in [SUBSET S -> D] : Follows(it, S, start, step, pick)
<1> DEFINE Small(n) == {s \in SUBSET S : Cardinality(s) <= n}
           Good(n, g) == /\ g \in [Small(n) -> D]
                         /\ \A s \in Small(n) : g[s] = IF s = {} THEN start
                                                       ELSE step[<<s, g[s \ {pick[s]}]>>]
           Reached == {n \in Nat : \E g : Good(n, g)}
<1>1. 0 \in Reached
  <2>1. \A s \in Small(0) : s = {}
    BY FS_Subset, FS_EmptySet, FS_CardinalityType
  <2>2. Good(0, [s \in Small(0) |-> start])
    BY <2>1
  <2>3. QED
    BY <2>2
<1>2. ASSUME NEW n \in Nat, n \in Reached
      PROVE  n + 1 \in Reached
  <2>1. PICK g : Good(n, g)
    BY <1>2
  <2> DEFINE h == [s \in Small(n + 1) |-> IF s = {} THEN start ELSE step[<<s, g[s \ {pick[s]}]>>]]
  <2>2. ASSUME NEW s \in Small(n + 1), s # {}
        PROVE  s \ {pick[s]} \in Small(n)
    <3>1. IsFiniteSet(s) /\ pick[s] \in s
      BY <2>2, FS_Subset
    <3>2. Cardinality(s \ {pick[s]}) = Cardinality(s) - 1 /\ Cardinality(s) \in Nat
      BY <3>1, FS_RemoveElement, FS_CardinalityType
    <3>3. QED
      BY <3>2
  <2>3. ASSUME NEW s \in Small(n)
        PROVE  s \in Small(n + 1) /\ h[s] = g[s]
    <3>1. s \in Small(n + 1)
      BY FS_Subset, FS_CardinalityType
    <3>2. QED
      BY <2>1, <3>1
  <2>4. h \in [Small(n + 1) -> D]
    BY <2>1, <2>2
  <2>5. \A s \in Small(n + 1) : h[s] = IF s = {} THEN start ELSE step[<<s, h[s \ {pick[s]}]>>]
    BY <2>2, <2>3
  <2>6. Good(n + 1, h)
    BY <2>4, <2>5
  <2> HIDE DEF Good, h
  <2>7. QED
    BY <2>6
<1>3. Nat \subseteq Reached
  <2> HIDE DEF Reached
  <2>1. QED
    BY <1>1, <1>2, Counting
<1>4. PICK g : Good(Cardinality(S), g)
  BY <1>3, FS_CardinalityType
<1>5. Small(Cardinality(S)) = SUBSET S
  BY FS_Subset
<1>6. QED
  BY <1>4, <1>5 DEF Follows

(***************************************************************************)
(* The greatest of finitely many numbers.                                  *)
(***************************************************************************)
Ids(S) == IsFiniteSet(S) /\ S \subseteq Nat

\* Finitely many numbers have a greatest.
LEMMA Greatest ==
  ASSUME NEW S, Ids(S), S # {}
  PROVE  Max(S) \in S /\ \A y \in S : Max(S) >= y
<1> DEFINE T == {s \in SUBSET S : s # {} => \E x \in s : \A y \in s : x >= y}
<1>1. ASSUME NEW s \in SUBSET S, \A x \in s : s \ {x} \in T
      PROVE  s \in T
  <2> SUFFICES ASSUME s # {} PROVE \E x \in s : \A y \in s : x >= y
    OBVIOUS
  <2>1. PICK a \in s : TRUE
    OBVIOUS
  <2>2. CASE s \ {a} = {}
    <3>1. \A y \in s : y = a /\ y \in Nat
      BY <2>2 DEF Ids
    <3>2. QED
      BY <2>1, <3>1
  <2>3. CASE s \ {a} # {}
    <3>1. s \ {a} \in T
      BY <1>1, <2>1
    <3>2. PICK b \in s \ {a} : \A y \in s \ {a} : b >= y
      BY <2>3, <3>1
    <3>3. a \in Nat /\ b \in Nat /\ \A y \in s : y \in Nat
      BY <2>1, <3>2 DEF Ids
    <3>4. CASE a >= b
      BY <2>1, <3>2, <3>3, <3>4
    <3>5. CASE b >= a
      BY <2>1, <3>2, <3>3, <3>5
    <3>6. QED
      BY <3>3, <3>4, <3>5
  <2>4. QED
    BY <2>2, <2>3
<1>2. S \in T
  <2> HIDE DEF T
  <2>1. \A s \in SUBSET S : s \in T
    BY <1>1, CountingDown DEF Ids
  <2>2. QED
    BY <2>1
<1>3. \E x \in S : \A y \in S : x >= y
  BY <1>2
<1>4. QED
  BY <1>3 DEF Max

\* So have those of a part.
LEMMA GreatestOfPart ==
  ASSUME NEW S, Ids(S), NEW s \in SUBSET S, s # {}
  PROVE  Max(s) \in s /\ Max(s) \in S /\ \A y \in s : Max(s) >= y
<1>1. Ids(s)
  BY FS_Subset DEF Ids
<1>2. QED
  BY <1>1, Greatest

(***************************************************************************)
(* Sums.  Sum(f, S) is the library's SumFunctionOnSet(f, S): the sum of    *)
(* f[x] over the members x of S, in the order of some choice.              *)
(***************************************************************************)
Any(s) == CHOOSE x \in s : TRUE

\* Functions from the members of S to integers.
Summable(f, S) == IsFiniteSet(S) /\ \A x \in S : f[x] \in Int

\* The equation of the library's sum.
Summing(it, f, S) ==
    it = [s \in SUBSET S |-> IF s = {} THEN 0 ELSE f[Any(s)] + it[s \ {Any(s)}]]

\* The library's sum is the value of a function that satisfies the equation.
LEMMA SumIterates ==
  ASSUME NEW f, NEW S, Summable(f, S)
  PROVE  \E it \in [SUBSET S -> Int] : Summing(it, f, S) /\ SumFunctionOnSet(f, S) = it[S]
<1> DEFINE pick == [s \in SUBSET S |-> Any(s)]
           step == [a \in (SUBSET S) \X Int |-> IF a[1] = {} THEN 0 ELSE f[Any(a[1])] + a[2]]
<1>1. \A s \in SUBSET S : s # {} => Any(s) \in s
  BY DEF Any
<1>2. step \in [(SUBSET S) \X Int -> Int]
  BY <1>1 DEF Summable
<1>3. PICK it \in [SUBSET S -> Int] : Follows(it, S, 0, step, pick)
  <2>1. \A s \in SUBSET S : s # {} => pick[s] \in s
    BY <1>1
  <2>2. IsFiniteSet(S) /\ 0 \in Int
    BY DEF Summable
  <2> HIDE DEF pick, step
  <2>3. \E it \in [SUBSET S -> Int] : Follows(it, S, 0, step, pick)
    BY <1>2, <2>1, <2>2, Recursion, Zenon
  <2>4. QED
    BY <2>3
<1>4. ASSUME NEW s \in SUBSET S
      PROVE  it[s] = IF s = {} THEN 0 ELSE f[Any(s)] + it[s \ {Any(s)}]
  <2>1. it[s] = IF s = {} THEN 0 ELSE step[<<s, it[s \ {pick[s]}]>>]
    BY <1>3 DEF Follows
  <2>2. CASE s = {}
    BY <2>1, <2>2
  <2>3. CASE s # {}
    <3>1. it[s \ {Any(s)}] \in Int
      BY <1>3
    <3>2. QED
      BY <2>1, <2>3, <3>1
  <2>4. QED
    BY <2>2, <2>3
<1>5. Summing(it, f, S)
  BY <1>3, <1>4 DEF Summing
<1>6. SumFunctionOnSet(f, S) = (CHOOSE i : Summing(i, f, S))[S]
  BY DEF SumFunctionOnSet, FoldFunctionOnSet, MapThenFoldSet, Summing, Any
<1> DEFINE best == CHOOSE i : Summing(i, f, S)
<1>7. Summing(best, f, S)
  BY <1>5
<1>8. \A s \in SUBSET S : best[s] = it[s]
  <2> DEFINE T == {s \in SUBSET S : best[s] = it[s]}
  <2> HIDE DEF best
  <2>1. ASSUME NEW s \in SUBSET S, \A x \in s : s \ {x} \in T
        PROVE  s \in T
    <3>1. best[s] = IF s = {} THEN 0 ELSE f[Any(s)] + best[s \ {Any(s)}]
      BY <1>7 DEF Summing
    <3>2. QED
      BY <1>1, <1>4, <2>1, <3>1
  <2> HIDE DEF T
  <2>2. \A s \in SUBSET S : s \in T
    BY <2>1, CountingDown DEF Summable
  <2>3. QED
    BY <2>2 DEF T
<1>9. QED
  BY <1>3, <1>5, <1>6, <1>8

\* Nothing adds up to nothing.
LEMMA SumEmpty ==
  ASSUME NEW f
  PROVE  SumFunctionOnSet(f, {}) = 0
<1>1. Summable(f, {})
  BY FS_EmptySet DEF Summable
<1>2. PICK it \in [SUBSET {} -> Int] : Summing(it, f, {}) /\ SumFunctionOnSet(f, {}) = it[{}]
  BY <1>1, SumIterates
<1>3. QED
  BY <1>2 DEF Summing

\* Integers add up to an integer.
LEMMA SumIsInt ==
  ASSUME NEW f, NEW S, Summable(f, S)
  PROVE  SumFunctionOnSet(f, S) \in Int
<1>1. PICK it \in [SUBSET S -> Int] : Summing(it, f, S) /\ SumFunctionOnSet(f, S) = it[S]
  BY SumIterates
<1>2. QED
  BY <1>1

\* Sums take one member after the other out.
LEMMA SumChosen ==
  ASSUME NEW f, NEW S, Summable(f, S), S # {}
  PROVE  SumFunctionOnSet(f, S) = f[Any(S)] + SumFunctionOnSet(f, S \ {Any(S)})
<1> DEFINE R == S \ {Any(S)}
<1>0. Any(S) \in S
  BY DEF Any
<1>1. Summable(f, R)
  BY FS_Subset DEF Summable
<1>2. PICK i \in [SUBSET S -> Int] : Summing(i, f, S) /\ SumFunctionOnSet(f, S) = i[S]
  BY SumIterates
<1>3. PICK j \in [SUBSET R -> Int] : Summing(j, f, R) /\ SumFunctionOnSet(f, R) = j[R]
  <2> HIDE DEF R
  <2>1. QED
    BY <1>1, SumIterates
<1>4. i[S] = f[Any(S)] + i[R]
  BY <1>2 DEF Summing
<1>5. i[R] = j[R]
  <2> DEFINE T == {s \in SUBSET R : i[s] = j[s]}
  <2>1. ASSUME NEW s \in SUBSET R, \A x \in s : s \ {x} \in T
        PROVE  s \in T
    <3>1. i[s] = IF s = {} THEN 0 ELSE f[Any(s)] + i[s \ {Any(s)}]
      BY <1>2 DEF Summing
    <3>2. j[s] = IF s = {} THEN 0 ELSE f[Any(s)] + j[s \ {Any(s)}]
      BY <1>3 DEF Summing
    <3>3. s # {} => Any(s) \in s
      BY DEF Any
    <3>4. QED
      BY <2>1, <3>1, <3>2, <3>3
  <2> HIDE DEF T
  <2>2. IsFiniteSet(R)
    BY <1>1 DEF Summable
  <2>3. \A s \in SUBSET R : s \in T
    <3> HIDE DEF R
    <3>1. QED
      BY <2>1, <2>2, CountingDown
  <2>4. QED
    BY <2>3 DEF T
<1>6. QED
  BY <1>2, <1>3, <1>4, <1>5

\* Any member may be taken out first: the choice does not matter.
LEMMA SumSplit ==
  ASSUME NEW f, NEW S, Summable(f, S), NEW a \in S
  PROVE  SumFunctionOnSet(f, S) = f[a] + SumFunctionOnSet(f, S \ {a})
<1> DEFINE T == {s \in SUBSET S : \A x \in s :
                    SumFunctionOnSet(f, s) = f[x] + SumFunctionOnSet(f, s \ {x})}
<1>1. ASSUME NEW s \in SUBSET S, \A x \in s : s \ {x} \in T
      PROVE  s \in T
  <2> SUFFICES ASSUME NEW x \in s
               PROVE  SumFunctionOnSet(f, s) = f[x] + SumFunctionOnSet(f, s \ {x})
    OBVIOUS
  <2> DEFINE c == Any(s)
  <2>1. c \in s
    BY DEF Any
  <2>2. Summable(f, s) /\ Summable(f, (s \ {x}) \ {c})
    BY FS_Subset DEF Summable
  <2>3. SumFunctionOnSet(f, s) = f[c] + SumFunctionOnSet(f, s \ {c})
    BY <2>1, <2>2, SumChosen
  <2>4. CASE x = c
    BY <2>3, <2>4
  <2>5. CASE x # c
    <3>1. (s \ {c}) \ {x} = (s \ {x}) \ {c}
      OBVIOUS
    <3>2. SumFunctionOnSet(f, s \ {c}) = f[x] + SumFunctionOnSet(f, (s \ {x}) \ {c})
      BY <1>1, <2>1, <2>5, <3>1
    <3>3. SumFunctionOnSet(f, s \ {x}) = f[c] + SumFunctionOnSet(f, (s \ {x}) \ {c})
      BY <1>1, <2>1, <2>5
    <3>4. f[c] \in Int /\ f[x] \in Int /\ SumFunctionOnSet(f, (s \ {x}) \ {c}) \in Int
      BY <2>1, <2>2, SumIsInt DEF Summable
    <3> HIDE DEF c
    <3>5. QED
      BY <2>3, <3>2, <3>3, <3>4
  <2>6. QED
    BY <2>4, <2>5
<1>2. S \in T
  <2> HIDE DEF T
  <2>1. \A s \in SUBSET S : s \in T
    BY <1>1, CountingDown DEF Summable
  <2>2. QED
    BY <2>1
<1>3. QED
  BY <1>2

\* The parts of a summable function are summable.
LEMMA SummablePart ==
  ASSUME NEW f, NEW S, Summable(f, S), NEW s \in SUBSET S
  PROVE  Summable(f, s) /\ SumFunctionOnSet(f, s) \in Int
<1>1. Summable(f, s)
  BY FS_Subset DEF Summable
<1>2. QED
  BY <1>1, SumIsInt

\* Two functions that add up to a third.
LEMMA SumAdd ==
  ASSUME NEW S, NEW f, Summable(f, S), NEW g, Summable(g, S),
         NEW h, \A x \in S : h[x] = f[x] + g[x]
  PROVE  /\ Summable(h, S)
         /\ SumFunctionOnSet(h, S) = SumFunctionOnSet(f, S) + SumFunctionOnSet(g, S)
<1>0. Summable(h, S)
  BY DEF Summable
<1> DEFINE T == {s \in SUBSET S : SumFunctionOnSet(h, s)
                                    = SumFunctionOnSet(f, s) + SumFunctionOnSet(g, s)}
<1>1. ASSUME NEW s \in SUBSET S, \A x \in s : s \ {x} \in T
      PROVE  s \in T
  <2>1. CASE s = {}
    BY <2>1, SumEmpty
  <2>2. CASE s # {}
    <3>1. PICK a \in s : TRUE
      BY <2>2
    <3> DEFINE r == s \ {a}
    <3>2. SumFunctionOnSet(f, s) = f[a] + SumFunctionOnSet(f, r)
      BY <3>1, SummablePart, SumSplit
    <3>3. SumFunctionOnSet(g, s) = g[a] + SumFunctionOnSet(g, r)
      BY <3>1, SummablePart, SumSplit
    <3>4. SumFunctionOnSet(h, s) = h[a] + SumFunctionOnSet(h, r)
      BY <1>0, <3>1, SummablePart, SumSplit
    <3>5. SumFunctionOnSet(h, r) = SumFunctionOnSet(f, r) + SumFunctionOnSet(g, r)
      BY <1>1, <3>1
    <3>6. SumFunctionOnSet(f, r) \in Int /\ SumFunctionOnSet(g, r) \in Int
      BY SummablePart
    <3>7. f[a] \in Int /\ g[a] \in Int /\ h[a] = f[a] + g[a]
      BY <3>1 DEF Summable
    <3> HIDE DEF r
    <3>8. QED
      BY <3>2, <3>3, <3>4, <3>5, <3>6, <3>7
  <2>3. QED
    BY <2>1, <2>2
<1>2. S \in T
  <2> HIDE DEF T
  <2>1. \A s \in SUBSET S : s \in T
    BY <1>1, CountingDown DEF Summable
  <2>2. QED
    BY <2>1
<1>3. QED
  BY <1>0, <1>2

\* What is nowhere negative does not add up to less than nothing.
LEMMA SumOfNats ==
  ASSUME NEW S, IsFiniteSet(S), NEW f, \A x \in S : f[x] \in Nat
  PROVE  SumFunctionOnSet(f, S) \in Nat
<1>0. Summable(f, S)
  BY DEF Summable
<1> DEFINE T == {s \in SUBSET S : SumFunctionOnSet(f, s) \in Nat}
<1>1. ASSUME NEW s \in SUBSET S, \A x \in s : s \ {x} \in T
      PROVE  s \in T
  <2>1. CASE s = {}
    BY <2>1, SumEmpty
  <2>2. CASE s # {}
    <3>1. PICK a \in s : TRUE
      BY <2>2
    <3>2. SumFunctionOnSet(f, s) = f[a] + SumFunctionOnSet(f, s \ {a})
      BY <1>0, <3>1, SummablePart, SumSplit
    <3>3. SumFunctionOnSet(f, s \ {a}) \in Nat /\ f[a] \in Nat
      BY <1>1, <3>1
    <3>4. QED
      BY <3>2, <3>3
  <2>3. QED
    BY <2>1, <2>2
<1>2. S \in T
  <2> HIDE DEF T
  <2>1. \A s \in SUBSET S : s \in T
    BY <1>1, CountingDown
  <2>2. QED
    BY <2>1
<1>3. QED
  BY <1>2

\* The same value for every member.
LEMMA SumOfSame ==
  ASSUME NEW S, IsFiniteSet(S), NEW k \in Int, NEW f, \A x \in S : f[x] = k
  PROVE  SumFunctionOnSet(f, S) = k * Cardinality(S)
<1>0. Summable(f, S)
  BY DEF Summable
<1> DEFINE T == {s \in SUBSET S : SumFunctionOnSet(f, s) = k * Cardinality(s)}
<1>1. ASSUME NEW s \in SUBSET S, \A x \in s : s \ {x} \in T
      PROVE  s \in T
  <2>1. CASE s = {}
    BY <2>1, SumEmpty, FS_EmptySet
  <2>2. CASE s # {}
    <3>1. PICK a \in s : TRUE
      BY <2>2
    <3>2. SumFunctionOnSet(f, s) = f[a] + SumFunctionOnSet(f, s \ {a})
      BY <1>0, <3>1, SummablePart, SumSplit
    <3>3. SumFunctionOnSet(f, s \ {a}) = k * Cardinality(s \ {a}) /\ f[a] = k
      BY <1>1, <3>1
    <3>4. Cardinality(s) \in Nat /\ Cardinality(s \ {a}) = Cardinality(s) - 1
      BY <3>1, FS_Subset, FS_RemoveElement, FS_CardinalityType
    <3>5. k + k * (Cardinality(s) - 1) = k * Cardinality(s)
      BY <3>4
    <3>6. QED
      BY <3>2, <3>3, <3>4, <3>5
  <2>3. QED
    BY <2>1, <2>2
<1>2. S \in T
  <2> HIDE DEF T
  <2>1. \A s \in SUBSET S : s \in T
    BY <1>1, CountingDown
  <2>2. QED
    BY <2>1
<1>3. QED
  BY <1>2

\* What follows needs no induction of its own.
LEMMA SumEqual ==
  ASSUME NEW S, NEW f, Summable(f, S), NEW g, \A x \in S : g[x] = f[x]
  PROVE  Summable(g, S) /\ SumFunctionOnSet(g, S) = SumFunctionOnSet(f, S)
<1> DEFINE none == [x \in S |-> 0]
<1>1. Summable(none, S) /\ \A x \in S : g[x] = f[x] + none[x]
  BY DEF Summable
<1>2. SumFunctionOnSet(none, S) = 0
  <2>1. IsFiniteSet(S) /\ \A x \in S : none[x] = 0
    BY DEF Summable
  <2>2. Cardinality(S) \in Nat
    BY <2>1, FS_CardinalityType
  <2> HIDE DEF none
  <2>3. SumFunctionOnSet(none, S) = 0 * Cardinality(S)
    BY <2>1, SumOfSame
  <2>4. QED
    BY <2>2, <2>3
<1> HIDE DEF none
<1>3. Summable(g, S) /\ SumFunctionOnSet(g, S) = SumFunctionOnSet(f, S) + SumFunctionOnSet(none, S)
  BY <1>1, SumAdd
<1>4. QED
  BY <1>2, <1>3, SumIsInt

\* Zeros add up to zero.
LEMMA SumOfZeros ==
  ASSUME NEW S, IsFiniteSet(S), NEW f, \A x \in S : f[x] = 0
  PROVE  SumFunctionOnSet(f, S) = 0
<1>1. SumFunctionOnSet(f, S) = 0 * Cardinality(S)
  BY SumOfSame
<1>2. QED
  BY <1>1, FS_CardinalityType

\* Smaller values have a smaller sum.
LEMMA SumAtMost ==
  ASSUME NEW S, NEW f, Summable(f, S), NEW g, Summable(g, S), \A x \in S : f[x] <= g[x]
  PROVE  SumFunctionOnSet(f, S) <= SumFunctionOnSet(g, S)
<1> DEFINE gap == [x \in S |-> g[x] - f[x]]
<1>1. \A x \in S : gap[x] \in Nat /\ g[x] = f[x] + gap[x]
  BY DEF Summable
<1> HIDE DEF gap
<1>2. IsFiniteSet(S) /\ Summable(gap, S)
  BY <1>1 DEF Summable
<1>3. SumFunctionOnSet(g, S) = SumFunctionOnSet(f, S) + SumFunctionOnSet(gap, S)
  BY <1>1, <1>2, SumAdd
<1>4. SumFunctionOnSet(gap, S) \in Nat
  BY <1>1, <1>2, SumOfNats
<1>5. QED
  BY <1>3, <1>4, SumIsInt

\* The difference of two functions.
LEMMA SumDifference ==
  ASSUME NEW S, NEW f, Summable(f, S), NEW g, Summable(g, S),
         NEW h, \A x \in S : h[x] = f[x] - g[x]
  PROVE  /\ Summable(h, S)
         /\ SumFunctionOnSet(h, S) = SumFunctionOnSet(f, S) - SumFunctionOnSet(g, S)
<1>1. Summable(h, S) /\ \A x \in S : f[x] = h[x] + g[x]
  BY DEF Summable
<1>2. SumFunctionOnSet(f, S) = SumFunctionOnSet(h, S) + SumFunctionOnSet(g, S)
  BY <1>1, SumAdd
<1>3. QED
  BY <1>1, <1>2, SumIsInt

\* A member does not exceed the sum of what is nowhere negative.
LEMMA SumCovers ==
  ASSUME NEW S, IsFiniteSet(S), NEW f, \A x \in S : f[x] \in Nat, NEW a \in S
  PROVE  f[a] <= SumFunctionOnSet(f, S)
<1>1. Summable(f, S)
  BY DEF Summable
<1>2. SumFunctionOnSet(f, S) = f[a] + SumFunctionOnSet(f, S \ {a})
  BY <1>1, SumSplit
<1>3. SumFunctionOnSet(f, S \ {a}) \in Nat
  BY FS_Subset, SumOfNats
<1>4. QED
  BY <1>2, <1>3

\* The members with nothing do not count.
LEMMA SumOfPart ==
  ASSUME NEW S, NEW f, Summable(f, S), NEW U \in SUBSET S, \A x \in S \ U : f[x] = 0
  PROVE  SumFunctionOnSet(f, S) = SumFunctionOnSet(f, U)
<1> DEFINE T == {s \in SUBSET S : SumFunctionOnSet(f, s) = SumFunctionOnSet(f, s \cap U)}
<1>1. ASSUME NEW s \in SUBSET S, \A x \in s : s \ {x} \in T
      PROVE  s \in T
  <2>1. CASE s \subseteq U
    <3>1. s \cap U = s
      BY <2>1
    <3>2. QED
      BY <3>1
  <2>2. CASE ~(s \subseteq U)
    <3>1. PICK a \in s : a \notin U
      BY <2>2
    <3>2. SumFunctionOnSet(f, s) = f[a] + SumFunctionOnSet(f, s \ {a})
      BY <3>1, SummablePart, SumSplit
    <3>3. f[a] = 0 /\ SumFunctionOnSet(f, s \ {a}) \in Int
      BY <3>1, SummablePart
    <3>4. (s \ {a}) \cap U = s \cap U
      BY <3>1
    <3>5. SumFunctionOnSet(f, s \ {a}) = SumFunctionOnSet(f, s \cap U)
      BY <1>1, <3>1, <3>4
    <3>6. QED
      BY <3>2, <3>3, <3>5
  <2>3. QED
    BY <2>1, <2>2
<1>2. S \in T
  <2> HIDE DEF T
  <2>1. \A s \in SUBSET S : s \in T
    BY <1>1, CountingDown DEF Summable
  <2>2. QED
    BY <2>1
<1>3. S \cap U = U
  OBVIOUS
<1>4. QED
  BY <1>2, <1>3

\* One value replaced.
LEMMA SumReplaced ==
  ASSUME NEW S, NEW f, Summable(f, S), NEW a \in S, NEW g, Summable(g, S),
         \A x \in S \ {a} : g[x] = f[x]
  PROVE  SumFunctionOnSet(g, S) = SumFunctionOnSet(f, S) + g[a] - f[a]
<1>1. SumFunctionOnSet(f, S) = f[a] + SumFunctionOnSet(f, S \ {a})
  BY SumSplit
<1>2. SumFunctionOnSet(g, S) = g[a] + SumFunctionOnSet(g, S \ {a})
  BY SumSplit
<1>3. SumFunctionOnSet(g, S \ {a}) = SumFunctionOnSet(f, S \ {a})
  BY SummablePart, SumEqual
<1>4. SumFunctionOnSet(f, S \ {a}) \in Int /\ f[a] \in Int /\ g[a] \in Int
  BY SummablePart DEF Summable
<1>5. QED
  BY <1>1, <1>2, <1>3, <1>4

(***************************************************************************)
(* Steps in ascending order.                                               *)
(***************************************************************************)
\* Steps taken from the least member of S to the greatest.
Ascends(it, S, start, step) ==
    \A s \in SUBSET S : it[s] = IF s = {} THEN start ELSE step[<<it[s \ {Max(s)}], Max(s)>>]

LEMMA OrderedSteps ==
  ASSUME NEW S, Ids(S),
         NEW D, NEW start \in D, NEW step \in [D \X S -> D]
  PROVE  \E it \in [SUBSET S -> D] : Ascends(it, S, start, step)
<1> DEFINE pick == [s \in SUBSET S |-> Max(s)]
           next == [a \in (SUBSET S) \X D |-> IF a[1] = {} THEN start ELSE step[<<a[2], Max(a[1])>>]]
<1>1. \A s \in SUBSET S : s # {} => Max(s) \in s
  BY GreatestOfPart
<1>2. next \in [(SUBSET S) \X D -> D]
  BY <1>1
<1>3. PICK it \in [SUBSET S -> D] : Follows(it, S, start, next, pick)
  <2>1. \A s \in SUBSET S : s # {} => pick[s] \in s
    BY <1>1
  <2> HIDE DEF pick, next
  <2>2. \E it \in [SUBSET S -> D] : Follows(it, S, start, next, pick)
    BY <1>2, <2>1, Recursion, Zenon DEF Ids
  <2>3. QED
    BY <2>2
<1>4. ASSUME NEW s \in SUBSET S
      PROVE  it[s] = IF s = {} THEN start ELSE step[<<it[s \ {Max(s)}], Max(s)>>]
  <2>1. it[s] = IF s = {} THEN start ELSE next[<<s, it[s \ {pick[s]}]>>]
    BY <1>3 DEF Follows
  <2>2. it[s \ {Max(s)}] \in D
    BY <1>3
  <2>3. QED
    BY <2>1, <2>2
<1>5. QED
  BY <1>3, <1>4 DEF Ascends

-----------------------------------------------------------------------------
(***************************************************************************)
(* Takes and reserves: each in its turn, out of what is left.              *)
(***************************************************************************)
GrantStart(asked, pot) == [to |-> [i \in DOMAIN asked |-> 0], left |-> pot]
\* The equation of the fold of InTurn.
Granting(it, asked, pot) ==
    it = [s \in SUBSET DOMAIN asked |->
             IF s = {} THEN GrantStart(asked, pot)
             ELSE Grant(it[s \ {Max(s)}], asked, Max(s))]

\* Nobody gets more than was asked for, and what was given and what is left make the pot.
LEMMA InTurnFits ==
  ASSUME NEW A, Ids(A), NEW asked \in [A -> Nat], NEW pot \in Nat
  PROVE  /\ InTurn(asked, pot) \in [A -> Nat]
         /\ \A i \in A : InTurn(asked, pot)[i] <= asked[i]
         /\ SumFunction(InTurn(asked, pot)) \in Nat
         /\ SumFunction(InTurn(asked, pot)) <= pot
<1> DEFINE D == [to : [A -> Nat], left : Nat]
           start == GrantStart(asked, pot)
           step == [a \in D \X A |-> Grant(a[1], asked, a[2])]
<1>0. ASSUME NEW d \in D, NEW i \in A
      PROVE  /\ Grant(d, asked, i) \in D
             /\ Grant(d, asked, i).to[i] <= asked[i]
             /\ Grant(d, asked, i).to[i] + Grant(d, asked, i).left = d.left
             /\ \A j \in A \ {i} : Grant(d, asked, i).to[j] = d.to[j]
  <2> DEFINE part == AtMost(asked[i], d.left)
  <2>1. part \in Nat /\ part <= asked[i] /\ d.left - part \in Nat /\ d.left \in Nat
    BY DEF AtMost
  <2>2. Grant(d, asked, i) = [to |-> [d.to EXCEPT ![i] = part], left |-> d.left - part]
    BY DEF Grant
  <2> HIDE DEF part
  <2>3. QED
    BY <2>1, <2>2
<1>1. PICK it \in [SUBSET A -> D] : Ascends(it, A, start, step)
  <2>1. start \in D
    BY DEF GrantStart
  <2>2. step \in [D \X A -> D]
    BY <1>0
  <2> HIDE DEF D, start, step
  <2>3. \E it \in [SUBSET A -> D] : Ascends(it, A, start, step)
    BY <2>1, <2>2, OrderedSteps, Zenon
  <2>4. QED
    BY <2>3, Zenon
<1>2. Granting(it, asked, pot)
  <2>1. ASSUME NEW s \in SUBSET A
        PROVE  it[s] = IF s = {} THEN start ELSE Grant(it[s \ {Max(s)}], asked, Max(s))
    <3>1. s # {} => Max(s) \in A
      BY GreatestOfPart
    <3>2. it[s \ {Max(s)}] \in D
      BY <1>1
    <3>3. QED
      BY <1>1, <3>1, <3>2 DEF Ascends
  <2> HIDE DEF D, step
  <2>2. QED
    BY <1>1, <2>1 DEF Granting
<1> DEFINE best == CHOOSE g : Granting(g, asked, pot)
<1>3. Granting(best, asked, pot)
  BY <1>2
<1>4. InTurn(asked, pot) = best[A].to
  BY DEF InTurn, InOrder, MapThenFoldSet, Granting, GrantStart
<1> HIDE DEF best
<1> DEFINE Kept(s, d) == /\ d \in D
                         /\ \A i \in A : d.to[i] <= asked[i]
                         /\ \A i \in A \ s : d.to[i] = 0
                         /\ SumFunctionOnSet(d.to, A) + d.left = pot
           T == {s \in SUBSET A : Kept(s, best[s])}
<1>5. ASSUME NEW s \in SUBSET A, \A x \in s : s \ {x} \in T
      PROVE  s \in T
  <2>0. best[s] = IF s = {} THEN start ELSE Grant(best[s \ {Max(s)}], asked, Max(s))
    BY <1>3 DEF Granting
  <2>1. CASE s = {}
    <3>1. best[s] = start
      BY <2>0, <2>1
    <3>2. SumFunctionOnSet(start.to, A) = 0
      BY SumOfZeros DEF GrantStart, Ids
    <3>3. Kept(s, start)
      BY <3>2 DEF GrantStart
    <3>4. QED
      BY <3>1, <3>3
  <2>2. CASE s # {}
    <3> DEFINE m == Max(s)
               d == best[s \ {m}]
               e == Grant(d, asked, m)
    <3>1. m \in s /\ m \in A
      BY <2>2, GreatestOfPart
    <3>2. Kept(s \ {m}, d)
      BY <1>5, <3>1
    <3>3. best[s] = e
      BY <2>0, <2>2
    <3> HIDE DEF m, d, e
    <3>4. /\ e \in D /\ e.to[m] <= asked[m] /\ e.to[m] + e.left = d.left
          /\ \A j \in A \ {m} : e.to[j] = d.to[j]
      BY <1>0, <3>1, <3>2 DEF e
    <3>5. Summable(e.to, A) /\ Summable(d.to, A) /\ d.to[m] = 0
      BY <3>1, <3>2, <3>4 DEF Summable, Ids
    <3>6. SumFunctionOnSet(e.to, A) = SumFunctionOnSet(d.to, A) + e.to[m] - d.to[m]
      BY <3>1, <3>4, <3>5, SumReplaced
    <3>7. SumFunctionOnSet(e.to, A) + e.left = pot
      BY <3>1, <3>2, <3>4, <3>5, <3>6, SumIsInt
    <3>8. \A i \in A : e.to[i] <= asked[i]
      BY <3>2, <3>4
    <3>9. \A i \in A \ s : e.to[i] = 0
      BY <3>1, <3>2, <3>4
    <3>10. Kept(s, e)
      BY <3>4, <3>7, <3>8, <3>9
    <3>11. QED
      BY <3>3, <3>10
  <2>3. QED
    BY <2>1, <2>2
<1>6. Kept(A, best[A])
  <2> HIDE DEF T
  <2>1. \A s \in SUBSET A : s \in T
    BY <1>5, CountingDown DEF Ids
  <2>2. QED
    BY <2>1 DEF T
<1>7. SumFunctionOnSet(best[A].to, A) \in Nat
  BY <1>6, SumOfNats DEF Ids
<1>8. DOMAIN best[A].to = A
  BY <1>6
<1>9. QED
  BY <1>4, <1>6, <1>7, <1>8 DEF SumFunction

-----------------------------------------------------------------------------
(***************************************************************************)
(* The residual of the categories.                                         *)
(***************************************************************************)
Placing(it, start, S) ==
    it = [s \in SUBSET S |-> IF s = {} THEN start ELSE Place(it[s \ {Max(s)}], Max(s))]

\* The categories after the residual is placed, as CategoryAmounts has it.
Cleared(naive, residual, total) ==
    InOrder(Place, Place([amounts |-> naive, left |-> total - SumFunction(naive)], residual),
            DOMAIN naive \ {residual}).amounts

\* What is owed is placed in full: a clawback that one category cannot absorb goes on
\* to the next, and together they absorb any that leaves something to allocate.
LEMMA PlacedInFull ==
  ASSUME NEW C, Ids(C), NEW naive \in [C -> Nat], NEW residual \in C, NEW total \in Nat
  PROVE  /\ Cleared(naive, residual, total) \in [C -> Nat]
         /\ SumFunctionOnSet(Cleared(naive, residual, total), C) = total
<1> DEFINE begin == [amounts |-> naive, left |-> total - SumFunction(naive)]
           first == Place(begin, residual)
           amounts == Cleared(naive, residual, total)
           D == [amounts : [C -> Nat], left : Int]
           S == DOMAIN naive \ {residual}
           Closes(d) == SumFunctionOnSet(d.amounts, C) + d.left = total
           step == [a \in D \X S |-> Place(a[1], a[2])]
<1> HIDE DEF first, amounts
<1>0. ASSUME NEW d \in D, NEW c \in C
      PROVE  /\ Place(d, c) \in D
             /\ Place(d, c).left <= 0
             /\ Place(d, c).amounts[c] + Place(d, c).left = d.amounts[c] + d.left
             /\ \A j \in C \ {c} : Place(d, c).amounts[j] = d.amounts[j]
             /\ Place(d, c).left < 0 => Place(d, c).amounts[c] = 0 /\ d.left < 0
  <2> DEFINE next == d.amounts[c] + d.left
  <2>1. d.amounts[c] \in Nat /\ d.left \in Int
    OBVIOUS
  <2>2. next \in Int
    BY <2>1
  <2>3. CASE d.left = 0
    <3>1. Place(d, c) = d
      BY <2>3 DEF Place
    <3>2. QED
      BY <2>1, <2>3, <3>1
  <2>4. CASE d.left # 0 /\ next >= 0
    <3>1. Place(d, c) = [amounts |-> [d.amounts EXCEPT ![c] = next], left |-> 0]
      BY <2>4 DEF Place
    <3>2. next \in Nat
      BY <2>2, <2>4
    <3>3. QED
      BY <2>1, <3>1, <3>2
  <2>5. CASE d.left # 0 /\ ~(next >= 0)
    <3>1. Place(d, c) = [amounts |-> [d.amounts EXCEPT ![c] = 0], left |-> next]
      BY <2>5 DEF Place
    <3>2. next < 0 /\ d.left < 0
      BY <2>1, <2>5
    <3>3. next = d.amounts[c] + d.left
      OBVIOUS
    <3> HIDE DEF next
    <3>4. QED
      BY <2>1, <2>2, <3>1, <3>2, <3>3
  <2>6. QED
    BY <2>3, <2>4, <2>5
<1>a. ASSUME NEW d \in D, NEW c \in C, Closes(d)
      PROVE  Closes(Place(d, c))
  <2> DEFINE e == Place(d, c)
             was == d.amounts
             now == e.amounts
  <2>1. /\ e \in D /\ now[c] + e.left = was[c] + d.left
        /\ \A j \in C \ {c} : now[j] = was[j]
    BY <1>0
  <2> HIDE DEF e
  <2>2. Summable(was, C) /\ Summable(now, C)
    BY <2>1 DEF Summable, Ids
  <2>3. SumFunctionOnSet(was, C) + d.left = total
    BY <1>a
  <2>4. was[c] \in Int /\ now[c] \in Int /\ e.left \in Int /\ d.left \in Int
    BY <2>1
  <2> HIDE DEF was, now
  <2>5. SumFunctionOnSet(now, C) = SumFunctionOnSet(was, C) + now[c] - was[c]
    BY <2>1, <2>2, SumReplaced
  <2>6. SumFunctionOnSet(was, C) \in Int
    BY <2>2, SumIsInt
  <2>7. SumFunctionOnSet(now, C) + e.left = total
    BY <2>1, <2>3, <2>4, <2>5, <2>6
  <2>8. QED
    BY <2>7 DEF e, now
<1>b. Ids(S)
  BY FS_Subset DEF Ids
<1>c. /\ first \in D /\ Closes(first) /\ first.left <= 0
      /\ first.left < 0 => first.amounts[residual] = 0
  <2>1. SumFunctionOnSet(naive, C) \in Nat /\ SumFunction(naive) = SumFunctionOnSet(naive, C)
    BY SumOfNats DEF Ids, SumFunction
  <2>2. begin \in D /\ Closes(begin)
    BY <2>1
  <2> HIDE DEF begin
  <2>3. first = Place(begin, residual)
    BY DEF first
  <2> HIDE DEF D, Closes
  <2>4. QED
    BY <1>0, <1>a, <2>2, <2>3
<1>1. PICK it \in [SUBSET S -> D] : Ascends(it, S, first, step)
  <2>1. step \in [D \X S -> D]
    BY <1>0
  <2> HIDE DEF D, S, step
  <2>2. \E it \in [SUBSET S -> D] : Ascends(it, S, first, step)
    BY <1>b, <1>c, <2>1, OrderedSteps, Zenon
  <2>3. QED
    BY <2>2, Zenon
<1>2. Placing(it, first, S)
  <2>1. ASSUME NEW s \in SUBSET S
        PROVE  it[s] = IF s = {} THEN first ELSE Place(it[s \ {Max(s)}], Max(s))
    <3>1. s # {} => Max(s) \in S
      BY <1>b, GreatestOfPart
    <3>2. it[s \ {Max(s)}] \in D
      BY <1>1
    <3> HIDE DEF D, S
    <3>3. QED
      BY <1>1, <3>1, <3>2 DEF Ascends
  <2> HIDE DEF D, step, S
  <2>2. QED
    BY <1>1, <2>1 DEF Placing
<1> DEFINE best == CHOOSE g : Placing(g, first, S)
<1>3. Placing(best, first, S)
  BY <1>2
<1>4. amounts = best[S].amounts
  BY DEF amounts, Cleared, InOrder, MapThenFoldSet, Placing, first
<1> HIDE DEF best
<1> DEFINE Kept(s, d) == /\ d \in D /\ Closes(d) /\ d.left <= 0
                         /\ d.left < 0 => \A c \in s \cup {residual} : d.amounts[c] = 0
           T == {s \in SUBSET S : Kept(s, best[s])}
<1>5. ASSUME NEW s \in SUBSET S, \A x \in s : s \ {x} \in T
      PROVE  s \in T
  <2>0. best[s] = IF s = {} THEN first ELSE Place(best[s \ {Max(s)}], Max(s))
    BY <1>3 DEF Placing
  <2>1. CASE s = {}
    BY <1>c, <2>0, <2>1
  <2>2. CASE s # {}
    <3> DEFINE m == Max(s)
               d == best[s \ {m}]
               e == Place(d, m)
    <3>1. m \in s /\ m \in C
      BY <1>b, <2>2, GreatestOfPart
    <3>2. Kept(s \ {m}, d)
      BY <1>5, <3>1
    <3>3. best[s] = e
      BY <2>0, <2>2
    <3>4. Closes(e)
      <4> HIDE DEF m, d, D, Closes
      <4>1. QED
        BY <1>a, <3>1, <3>2
    <3> HIDE DEF m, d, e, Closes
    <3>5. /\ e \in D /\ e.left <= 0
          /\ \A j \in C \ {m} : e.amounts[j] = d.amounts[j]
          /\ e.left < 0 => e.amounts[m] = 0 /\ d.left < 0
      BY <1>0, <3>1, <3>2 DEF e
    <3>6. ASSUME e.left < 0, NEW c \in s \cup {residual}
          PROVE  e.amounts[c] = 0
      BY <3>1, <3>2, <3>5, <3>6
    <3>7. Kept(s, e)
      BY <3>4, <3>5, <3>6
    <3>8. QED
      BY <3>3, <3>7
  <2>3. QED
    BY <2>1, <2>2
<1>6. Kept(S, best[S])
  <2> HIDE DEF T
  <2>1. \A s \in SUBSET S : s \in T
    <3> HIDE DEF S
    <3>1. QED
      BY <1>5, <1>b, CountingDown DEF Ids
  <2>2. QED
    BY <2>1 DEF T
<1> DEFINE left == best[S].left
<1>7. /\ amounts \in [C -> Nat] /\ left \in Int /\ left <= 0
      /\ SumFunctionOnSet(amounts, C) + left = total
      /\ left < 0 => \A c \in C : amounts[c] = 0
  BY <1>4, <1>6
<1> HIDE DEF left
<1>8. SumFunctionOnSet(amounts, C) \in Nat
  BY <1>7, SumOfNats DEF Ids
<1>9. left < 0 => SumFunctionOnSet(amounts, C) = 0
  BY <1>7, SumOfZeros DEF Ids
<1>10. left = 0
  <2>1. left \in Int /\ left <= 0 /\ SumFunctionOnSet(amounts, C) + left = total /\ total \in Nat
    BY <1>7
  <2>2. QED
    BY <1>8, <1>9, <2>1
<1>11. SumFunctionOnSet(amounts, C) = total
  BY <1>7, <1>8, <1>10
<1>12. QED
  BY <1>7, <1>11 DEF amounts

-----------------------------------------------------------------------------
(***************************************************************************)
(* What the donors pay for the floor.                                      *)
(***************************************************************************)
Gathered(headroom, prorata, shortfall, R) ==
    InOrder(LAMBDA given, r : Give(given, headroom, r),
            [by |-> prorata, left |-> shortfall - SumFunction(prorata)], R).by

\* The equation of the fold of Gathered.
Giving(it, headroom, start, R) ==
    it = [s \in SUBSET R |->
             IF s = {} THEN start ELSE Give(it[s \ {Max(s)}], headroom, Max(s))]

\* Donors that together have room for the shortfall pay it to the cent, and none pays
\* more than its room or less than nothing.
LEMMA GatheredInFull ==
  ASSUME NEW R, Ids(R), NEW headroom \in [R -> Nat], NEW prorata \in [R -> Nat],
         \A r \in R : prorata[r] <= headroom[r],
         NEW shortfall \in Nat, shortfall <= SumFunctionOnSet(headroom, R)
  PROVE  /\ Gathered(headroom, prorata, shortfall, R) \in [R -> Nat]
         /\ \A r \in R : Gathered(headroom, prorata, shortfall, R)[r] <= headroom[r]
         /\ SumFunctionOnSet(Gathered(headroom, prorata, shortfall, R), R) = shortfall
<1> DEFINE start == [by |-> prorata, left |-> shortfall - SumFunction(prorata)]
           by == Gathered(headroom, prorata, shortfall, R)
           Within == {f \in [R -> Nat] : \A r \in R : f[r] <= headroom[r]}
           D == [by : Within, left : Int]
           Closes(d) == SumFunctionOnSet(d.by, R) + d.left = shortfall
           step == [a \in D \X R |-> Give(a[1], headroom, a[2])]
<1> HIDE DEF by
<1>0. ASSUME NEW d \in D, NEW r \in R
      PROVE  /\ Give(d, headroom, r) \in D
             /\ Give(d, headroom, r).by[r] + Give(d, headroom, r).left = d.by[r] + d.left
             /\ \A j \in R \ {r} : Give(d, headroom, r).by[j] = d.by[j]
             /\ Give(d, headroom, r).left > 0 => Give(d, headroom, r).by[r] = headroom[r] /\ d.left > 0
             /\ Give(d, headroom, r).left < 0 => Give(d, headroom, r).by[r] = 0 /\ d.left < 0
  <2> DEFINE room == IF d.left > 0 THEN headroom[r] - d.by[r] ELSE d.by[r]
             part == IF d.left > 0 THEN AtMost(d.left, room) ELSE -AtMost(-d.left, room)
             e == [by |-> [d.by EXCEPT ![r] = @ + part], left |-> d.left - part]
  <2>1. /\ d.by[r] \in Nat /\ d.left \in Int /\ headroom[r] \in Nat /\ d.by[r] <= headroom[r]
        /\ d.by \in [R -> Nat]
    OBVIOUS
  <2>2. /\ part \in Int /\ d.by[r] + part \in Nat /\ d.by[r] + part <= headroom[r]
        /\ d.left - part > 0 => d.by[r] + part = headroom[r] /\ d.left > 0
        /\ d.left - part < 0 => d.by[r] + part = 0 /\ d.left < 0
    BY <2>1 DEF AtMost
  <2>3. Give(d, headroom, r) = e
    BY DEF Give
  <2> HIDE DEF part
  <2>4. e.by[r] = d.by[r] + part /\ e.left = d.left - part /\ \A j \in R \ {r} : e.by[j] = d.by[j]
    BY <2>1
  <2>5. e.by \in Within
    <3>1. e.by \in [R -> Nat]
      BY <2>1, <2>2
    <3>2. \A j \in R : e.by[j] <= headroom[j]
      BY <2>2, <2>4
    <3>3. QED
      BY <3>1, <3>2
  <2>6. e \in D
    BY <2>1, <2>2, <2>5
  <2> HIDE DEF e
  <2>7. e.by[r] + e.left = d.by[r] + d.left
    BY <2>1, <2>2, <2>4
  <2>8. QED
    BY <2>2, <2>3, <2>4, <2>6, <2>7
<1>a. ASSUME NEW d \in D, NEW r \in R, Closes(d)
      PROVE  Closes(Give(d, headroom, r))
  <2> DEFINE e == Give(d, headroom, r)
             was == d.by
             now == e.by
  <2>1. /\ e \in D /\ now[r] + e.left = was[r] + d.left
        /\ \A j \in R \ {r} : now[j] = was[j]
    BY <1>0
  <2> HIDE DEF e
  <2>2. Summable(was, R) /\ Summable(now, R)
    BY <2>1 DEF Summable, Ids
  <2>3. SumFunctionOnSet(was, R) + d.left = shortfall
    BY <1>a
  <2>4. was[r] \in Int /\ now[r] \in Int /\ e.left \in Int /\ d.left \in Int
    BY <2>1
  <2> HIDE DEF was, now
  <2>5. SumFunctionOnSet(now, R) = SumFunctionOnSet(was, R) + now[r] - was[r]
    BY <2>1, <2>2, SumReplaced
  <2>6. SumFunctionOnSet(was, R) \in Int
    BY <2>2, SumIsInt
  <2>7. SumFunctionOnSet(now, R) + e.left = shortfall
    BY <2>1, <2>3, <2>4, <2>5, <2>6
  <2>8. QED
    BY <2>7 DEF e, now
<1>c. start \in D /\ Closes(start)
  <2>1. SumFunctionOnSet(prorata, R) \in Nat /\ SumFunction(prorata) = SumFunctionOnSet(prorata, R)
    BY SumOfNats DEF Ids, SumFunction
  <2>2. QED
    BY <2>1
<1> HIDE DEF start
<1>1. PICK it \in [SUBSET R -> D] : Ascends(it, R, start, step)
  <2>1. step \in [D \X R -> D]
    BY <1>0
  <2> HIDE DEF D, step
  <2>2. \E it \in [SUBSET R -> D] : Ascends(it, R, start, step)
    BY <1>c, <2>1, OrderedSteps, Zenon
  <2>3. QED
    BY <2>2, Zenon
<1>2. Giving(it, headroom, start, R)
  <2>1. ASSUME NEW s \in SUBSET R
        PROVE  it[s] = IF s = {} THEN start ELSE Give(it[s \ {Max(s)}], headroom, Max(s))
    <3>1. s # {} => Max(s) \in R
      BY GreatestOfPart
    <3>2. it[s \ {Max(s)}] \in D
      BY <1>1
    <3> HIDE DEF D
    <3>3. QED
      BY <1>1, <3>1, <3>2 DEF Ascends
  <2> HIDE DEF D, step
  <2>2. QED
    BY <1>1, <2>1 DEF Giving
<1> DEFINE best == CHOOSE g : Giving(g, headroom, start, R)
<1>3. Giving(best, headroom, start, R)
  BY <1>2
<1>4. by = best[R].by
  BY DEF by, Gathered, InOrder, MapThenFoldSet, Giving, start
<1> HIDE DEF best
<1> DEFINE Kept(s, d) == /\ d \in D /\ Closes(d)
                         /\ d.left > 0 => \A r \in s : d.by[r] = headroom[r]
                         /\ d.left < 0 => \A r \in s : d.by[r] = 0
           T == {s \in SUBSET R : Kept(s, best[s])}
<1>5. ASSUME NEW s \in SUBSET R, \A x \in s : s \ {x} \in T
      PROVE  s \in T
  <2>0. best[s] = IF s = {} THEN start ELSE Give(best[s \ {Max(s)}], headroom, Max(s))
    BY <1>3 DEF Giving
  <2>1. CASE s = {}
    BY <1>c, <2>0, <2>1
  <2>2. CASE s # {}
    <3> DEFINE m == Max(s)
               d == best[s \ {m}]
               e == Give(d, headroom, m)
    <3>1. m \in s /\ m \in R
      BY <2>2, GreatestOfPart
    <3>2. Kept(s \ {m}, d)
      BY <1>5, <3>1
    <3>3. best[s] = e
      BY <2>0, <2>2
    <3>4. Closes(e)
      <4> HIDE DEF m, d, D, Closes
      <4>1. QED
        BY <1>a, <3>1, <3>2
    <3> HIDE DEF m, d, e, Closes
    <3>5. /\ e \in D
          /\ \A j \in R \ {m} : e.by[j] = d.by[j]
          /\ e.left > 0 => e.by[m] = headroom[m] /\ d.left > 0
          /\ e.left < 0 => e.by[m] = 0 /\ d.left < 0
      BY <1>0, <3>1, <3>2 DEF e
    <3>6. ASSUME e.left > 0, NEW r \in s
          PROVE  e.by[r] = headroom[r]
      BY <3>1, <3>2, <3>5, <3>6
    <3>7. ASSUME e.left < 0, NEW r \in s
          PROVE  e.by[r] = 0
      BY <3>1, <3>2, <3>5, <3>7
    <3>8. Kept(s, e)
      BY <3>4, <3>5, <3>6, <3>7
    <3>9. QED
      BY <3>3, <3>8
  <2>3. QED
    BY <2>1, <2>2
<1>6. Kept(R, best[R])
  <2> HIDE DEF T
  <2>1. \A s \in SUBSET R : s \in T
    BY <1>5, CountingDown DEF Ids
  <2>2. QED
    BY <2>1 DEF T
<1> DEFINE left == best[R].left
<1>7. /\ by \in Within /\ left \in Int /\ SumFunctionOnSet(by, R) + left = shortfall
      /\ left > 0 => \A r \in R : by[r] = headroom[r]
      /\ left < 0 => \A r \in R : by[r] = 0
  BY <1>4, <1>6
<1> HIDE DEF left
<1>8. SumFunctionOnSet(by, R) \in Nat
  BY <1>7, SumOfNats DEF Ids
<1>9. left < 0 => SumFunctionOnSet(by, R) = 0
  BY <1>7, SumOfZeros DEF Ids
<1>10. left > 0 => SumFunctionOnSet(by, R) = SumFunctionOnSet(headroom, R)
  <2>1. Summable(headroom, R)
    BY DEF Summable, Ids
  <2>2. QED
    BY <1>7, <2>1, SumEqual
<1>11. SumFunctionOnSet(headroom, R) \in Nat
  BY SumOfNats DEF Ids
<1>12. left = 0
  BY <1>7, <1>8, <1>9, <1>10, <1>11
<1>13. SumFunctionOnSet(by, R) = shortfall
  BY <1>7, <1>8, <1>12
<1>14. QED
  BY <1>7, <1>13 DEF by

-----------------------------------------------------------------------------
(***************************************************************************)
(* Rounding.                                                               *)
(***************************************************************************)
\* Division by a positive number, with its remainder.
LEMMA Dividing ==
  ASSUME NEW n \in Nat, NEW d \in Nat \ {0}
  PROVE  /\ n \div d \in Nat /\ n % d \in Nat
         /\ n % d < d /\ n = d * (n \div d) + (n % d)
  OBVIOUS

\* A common factor does not decide which of two numbers is the smaller.
LEMMA ProductsInOrder ==
  ASSUME NEW d \in Nat \ {0}, NEW a \in Int, NEW b \in Int, d * a < d * b
  PROVE  a < b
<1> SUFFICES ASSUME b <= a PROVE FALSE
  OBVIOUS
<1>1. PICK k \in Nat : a = b + k
  <2>1. a - b \in Nat /\ a = b + (a - b)
    OBVIOUS
  <2>2. QED
    BY <2>1
<1>2. d * a = d * b + d * k
  BY <1>1
<1>3. d * k \in Nat /\ d * b \in Int
  OBVIOUS
<1>4. QED
  BY <1>2, <1>3

\* Rounding does not make a negative.
LEMMA HalfUpIsNat ==
  ASSUME NEW n \in Nat, NEW d \in Nat \ {0}
  PROVE  HalfUp(n, d) \in Nat
<1>1. n \div d \in Nat
  BY Dividing
<1>2. QED
  BY <1>1 DEF HalfUp

\* A part of h that is at most the whole of it rounds to at most h.
LEMMA HalfUpWithin ==
  ASSUME NEW s \in Nat, NEW t \in Nat \ {0}, s <= t, NEW h \in Nat
  PROVE  HalfUp(s * h, t) \in Nat /\ HalfUp(s * h, t) <= h
<1> DEFINE n == s * h
           q == n \div t
           r == n % t
<1>1. n \in Nat /\ n <= t * h
  <2>1. PICK k \in Nat : t = s + k
    <3>1. t - s \in Nat /\ t = s + (t - s)
      OBVIOUS
    <3>2. QED
      BY <3>1
  <2>2. t * h = s * h + k * h /\ s * h \in Nat /\ k * h \in Nat
    BY <2>1
  <2>3. QED
    BY <2>2
<1> HIDE DEF n
<1>2. q \in Nat /\ r \in Nat /\ r < t /\ n = t * q + r
  BY <1>1, Dividing
<1>3. HalfUp(n, t) = IF 2 * r >= t THEN q + 1 ELSE q
  BY DEF HalfUp
<1> HIDE DEF q, r
<1>4. t * q \in Nat /\ t * h \in Nat /\ t * (h + 1) = t * h + t /\ t * (q + 1) = t * q + t
  BY <1>2
<1>5. q < h + 1
  <2>1. t * q < t * (h + 1)
    BY <1>1, <1>2, <1>4
  <2>2. QED
    BY <1>2, <2>1, ProductsInOrder
<1>6. r # 0 => q < h
  <2>1. r # 0 => t * q < t * h
    BY <1>1, <1>2, <1>4
  <2>2. QED
    BY <1>2, <2>1, ProductsInOrder
<1>7. HalfUp(n, t) \in Nat /\ HalfUp(n, t) <= h
  BY <1>2, <1>3, <1>5, <1>6
<1>8. QED
  BY <1>7 DEF n

\* A percentage of some money is some money.
LEMMA PercentOfIsNat ==
  ASSUME NEW cents \in Nat, NEW percent \in Nat
  PROVE  PercentOf(cents, percent) \in Nat
<1>1. cents * percent \in Nat
  OBVIOUS
<1>2. QED
  BY <1>1, HalfUpIsNat, WholeAssumption DEF PercentOf

\* A capped clause asks for no less than nothing and, with what it took from the other
\* periods, for no more than its annual cap.
LEMMA CappedIsNat ==
  ASSUME NEW clause \in ClauseType, NEW cents \in Nat, NEW prior \in Nat
  PROVE  /\ Capped(clause, cents, prior) \in Nat
         /\ clause.capBasis = "fiscal_year" =>
               \/ Capped(clause, cents, prior) = 0
               \/ Capped(clause, cents, prior) + prior <= clause.cap
<1>1. Uncapped(clause, cents) \in Nat /\ clause.cap \in Nat
  BY PercentOfIsNat DEF Uncapped, ClauseType
<1>2. clause.capBasis \in {"none", "per_period", "fiscal_year"}
  BY DEF ClauseType
<1> DEFINE u == Uncapped(clause, cents)
           cap == clause.cap
<1>3. CASE clause.capBasis = "none"
  BY <1>1, <1>3 DEF Capped
<1>4. CASE clause.capBasis = "per_period"
  BY <1>1, <1>4 DEF Capped, AtMost
<1>5. CASE clause.capBasis = "fiscal_year"
  <2>1. Capped(clause, cents, prior) = AtMost(u, IF cap > prior THEN cap - prior ELSE 0)
    BY <1>5 DEF Capped
  <2> HIDE DEF u, cap
  <2>2. /\ AtMost(u, IF cap > prior THEN cap - prior ELSE 0) \in Nat
        /\ \/ AtMost(u, IF cap > prior THEN cap - prior ELSE 0) = 0
           \/ AtMost(u, IF cap > prior THEN cap - prior ELSE 0) + prior <= cap
    BY <1>1 DEF AtMost, u, cap
  <2>3. QED
    BY <2>1, <2>2 DEF cap
<1>6. QED
  BY <1>2, <1>3, <1>4, <1>5

-----------------------------------------------------------------------------
(***************************************************************************)
(* Return to source.                                                       *)
(***************************************************************************)
\* The recipients have ids to order them by.
LEMMA RecipientsAreIds == Ids(Recipients)
  BY RecipientsAssumption DEF Ids

\* So have the members of a sequence.
LEMMA IndicesAreIds ==
  ASSUME NEW X, NEW s \in Seq(X)
  PROVE  Ids(DOMAIN s) /\ \A i \in DOMAIN s : s[i] \in X
<1>1. DOMAIN s = 1..Len(s) /\ Len(s) \in Nat
  OBVIOUS
<1>2. Ids(DOMAIN s)
  BY <1>1, FS_Interval DEF Ids
<1>3. \A i \in DOMAIN s : s[i] \in X
  OBVIOUS
<1>4. QED
  BY <1>2, <1>3

\* The equation of the fold of the product.
Multiplying(it, f, S) ==
    it = [s \in SUBSET S |-> IF s = {} THEN 1 ELSE f[Any(s)] * it[s \ {Any(s)}]]

\* A product of divisors is a divisor.
LEMMA ProductIsPositive ==
  ASSUME NEW S, IsFiniteSet(S), NEW f \in [S -> Nat \ {0}]
  PROVE  FoldFunction(LAMBDA x, y : x * y, 1, f) \in Nat \ {0}
<1> DEFINE D == Nat \ {0}
           pick == [s \in SUBSET S |-> Any(s)]
           step == [a \in (SUBSET S) \X D |-> IF a[1] = {} THEN 1 ELSE f[Any(a[1])] * a[2]]
<1>0. \A x, y \in D : x * y \in D
  OBVIOUS
<1>1. \A s \in SUBSET S : s # {} => Any(s) \in s
  BY DEF Any
<1>2. step \in [(SUBSET S) \X D -> D]
  <2>1. \A a \in (SUBSET S) \X D : a[1] # {} => f[Any(a[1])] \in D
    BY <1>1
  <2>2. 1 \in D
    OBVIOUS
  <2> HIDE DEF D
  <2>3. QED
    BY <1>0, <2>1, <2>2
<1>3. PICK it \in [SUBSET S -> D] : Follows(it, S, 1, step, pick)
  <2>1. \A s \in SUBSET S : s # {} => pick[s] \in s
    BY <1>1
  <2>2. 1 \in D
    OBVIOUS
  <2> HIDE DEF pick, step, D
  <2>3. \E it \in [SUBSET S -> D] : Follows(it, S, 1, step, pick)
    BY <1>2, <2>1, <2>2, Recursion, Zenon
  <2>4. QED
    BY <2>3
<1>4. Multiplying(it, f, S)
  <2>1. ASSUME NEW s \in SUBSET S
        PROVE  it[s] = IF s = {} THEN 1 ELSE f[Any(s)] * it[s \ {Any(s)}]
    <3>1. it[s] = IF s = {} THEN 1 ELSE step[<<s, it[s \ {pick[s]}]>>]
      BY <1>3 DEF Follows
    <3>2. it[s \ {Any(s)}] \in D
      BY <1>3
    <3> HIDE DEF D
    <3>3. QED
      BY <3>1, <3>2
  <2> HIDE DEF D, step, pick
  <2>2. QED
    BY <1>3, <2>1 DEF Multiplying
<1> DEFINE best == CHOOSE g : Multiplying(g, f, S)
<1>5. Multiplying(best, f, S)
  BY <1>4
<1>6. FoldFunction(LAMBDA x, y : x * y, 1, f) = best[S]
  <2>1. DOMAIN f = S
    OBVIOUS
  <2>2. FoldFunction(LAMBDA x, y : x * y, 1, f) = (CHOOSE g : Multiplying(g, f, DOMAIN f))[DOMAIN f]
    BY DEF FoldFunction, FoldFunctionOnSet, MapThenFoldSet, Multiplying, Any
  <2>3. QED
    BY <2>1, <2>2
<1> HIDE DEF best
<1> DEFINE T == {s \in SUBSET S : best[s] \in D}
<1>7. ASSUME NEW s \in SUBSET S, \A x \in s : s \ {x} \in T
      PROVE  s \in T
  <2>1. best[s] = IF s = {} THEN 1 ELSE f[Any(s)] * best[s \ {Any(s)}]
    BY <1>5 DEF Multiplying
  <2>2. CASE s = {}
    BY <2>1, <2>2
  <2>3. CASE s # {}
    <3>1. best[s] = f[Any(s)] * best[s \ {Any(s)}]
      BY <2>1, <2>3
    <3>2. f[Any(s)] \in D /\ best[s \ {Any(s)}] \in D
      BY <1>1, <1>7, <2>3
    <3> HIDE DEF D
    <3>3. QED
      BY <1>0, <3>1, <3>2
  <2>4. QED
    BY <2>2, <2>3
<1>8. best[S] \in D
  <2> HIDE DEF T
  <2>1. \A s \in SUBSET S : s \in T
    BY <1>7, CountingDown
  <2>2. QED
    BY <2>1 DEF T
<1>9. QED
  BY <1>6, <1>8

\* A category that may be distributed: what is known of its figures.
Distributable(category, figs, pool) ==
    /\ category \in CategoryType
    /\ pool \in Nat
    /\ \A i \in DOMAIN category.factors :
          figs[category.factors[i].basis] \in [Recipients -> Nat \cup {NotStated}]
    /\ ~Undistributed(category, figs, pool)

\* The formula gives the pool away, to the cent.
LEMMA FormulaGivesThePool ==
  ASSUME NEW category, NEW figs, NEW pool, Distributable(category, figs, pool)
  PROVE  /\ FormulaShares(category, figs, pool) \in [Recipients -> Int]
         /\ SumFunctionOnSet(FormulaShares(category, figs, pool), Recipients) = pool
<1> DEFINE factors == category.factors
           F == DOMAIN factors
           totals == [i \in F |-> BasisTotal(figs, factors[i].basis)]
           product == FoldFunction(LAMBDA x, y : x * y, 1, totals)
           Part(i, r) == factors[i].weight * figs[factors[i].basis][r] * (product \div totals[i])
           Numerator(r) == SumFunction([i \in F |-> Part(i, r)])
           naive == [r \in Recipients |-> HalfUp(pool * Numerator(r), Whole * product)]
           residual == pool - SumFunction(naive)
           last == Max(Recipients)
           shares == [naive EXCEPT ![last] = @ + residual]
<1>1. /\ category \in CategoryType /\ pool \in Nat /\ Recipients # {}
      /\ \A i \in F : /\ figs[factors[i].basis] \in [Recipients -> Nat]
                      /\ BasisTotal(figs, factors[i].basis) # 0
  BY DEF Distributable, Undistributed
<1>2. factors \in Seq([basis : Nat, weight : Nat]) /\ pool \in Nat
  BY <1>1 DEF CategoryType
<1>3. IsFiniteSet(F) /\ \A i \in F : factors[i].weight \in Nat
  <2>1. Ids(F) /\ \A i \in F : factors[i] \in [basis : Nat, weight : Nat]
    BY <1>2, IndicesAreIds
  <2>2. QED
    BY <2>1 DEF Ids
<1>4. totals \in [F -> Nat \ {0}]
  <2> SUFFICES ASSUME NEW i \in F PROVE BasisTotal(figs, factors[i].basis) \in Nat \ {0}
    OBVIOUS
  <2> DEFINE fig == figs[factors[i].basis]
  <2>1. fig \in [Recipients -> Nat]
    BY <1>1
  <2> HIDE DEF fig
  <2>2. SumFunctionOnSet(fig, Recipients) \in Nat
    BY <2>1, SumOfNats, RecipientsAreIds DEF Ids
  <2>3. QED
    BY <1>1, <2>2 DEF BasisTotal, fig
<1>5. product \in Nat \ {0}
  <2> HIDE DEF totals, F
  <2>1. QED
    BY <1>3, <1>4, ProductIsPositive
<1>6. ASSUME NEW r \in Recipients, NEW i \in F
      PROVE  Part(i, r) \in Nat
  <2>1. factors[i].weight \in Nat /\ figs[factors[i].basis][r] \in Nat /\ totals[i] \in Nat \ {0}
    BY <1>1, <1>3, <1>4
  <2> HIDE DEF totals, product
  <2>2. product \div totals[i] \in Nat
    BY <1>5, <2>1, Dividing
  <2>3. \A x, y, z \in Nat : x * y * z \in Nat
    OBVIOUS
  <2>4. QED
    BY <2>1, <2>2, <2>3
<1> HIDE DEF Part, product
<1>7. ASSUME NEW r \in Recipients
      PROVE  HalfUp(pool * Numerator(r), Whole * product) \in Nat
  <2> DEFINE parts == [i \in F |-> Part(i, r)]
  <2>1. \A i \in F : parts[i] \in Nat
    BY <1>6
  <2>2. SumFunction(parts) = SumFunctionOnSet(parts, F)
    BY DEF SumFunction
  <2> HIDE DEF parts, F
  <2>3. SumFunction(parts) \in Nat
    BY <1>3, <2>1, <2>2, SumOfNats
  <2>4. Numerator(r) \in Nat
    BY <2>3 DEF parts
  <2> HIDE DEF Numerator
  <2>5. pool * Numerator(r) \in Nat
    BY <1>2, <2>4
  <2>6. Whole * product \in Nat \ {0}
    BY <1>5, WholeAssumption
  <2>7. QED
    BY <2>5, <2>6, HalfUpIsNat
<1> HIDE DEF Numerator
<1>8. naive \in [Recipients -> Nat]
  BY <1>7
<1>9. FormulaShares(category, figs, pool) = shares
  BY DEF FormulaShares, shares, naive, residual, last, Numerator, Part, product
<1>10. last \in Recipients
  BY <1>1, Greatest, RecipientsAreIds
<1>11. Summable(naive, Recipients) /\ SumFunction(naive) = SumFunctionOnSet(naive, Recipients)
  <2>1. DOMAIN naive = Recipients
    OBVIOUS
  <2> HIDE DEF naive
  <2>2. QED
    BY <1>8, <2>1, RecipientsAreIds DEF Summable, SumFunction, Ids
<1> HIDE DEF naive, last
<1>12. residual \in Int
  BY <1>2, <1>11, SumIsInt
<1>13. /\ shares \in [Recipients -> Int] /\ shares[last] = naive[last] + residual
       /\ \A r \in Recipients \ {last} : shares[r] = naive[r]
       /\ naive[last] \in Int
  BY <1>8, <1>10, <1>12
<1> HIDE DEF shares, residual
<1>14. Summable(shares, Recipients)
  BY <1>13, RecipientsAreIds DEF Summable, Ids
<1>15. SumFunctionOnSet(shares, Recipients)
         = SumFunctionOnSet(naive, Recipients) + shares[last] - naive[last]
  BY <1>10, <1>11, <1>13, <1>14, SumReplaced
<1>16. SumFunctionOnSet(naive, Recipients) \in Int
  BY <1>11, SumIsInt
<1>17. SumFunctionOnSet(shares, Recipients) = pool
  BY <1>2, <1>11, <1>12, <1>13, <1>15, <1>16 DEF residual
<1>18. QED
  BY <1>9, <1>13, <1>17

\* Who is below the floor and by how much, who is above it and by how much.
Deficient(shares, floor) == {r \in Recipients : shares[r] < floor}
Donors(shares, floor) == {r \in Recipients : shares[r] > floor}
Shortfall(shares, floor) == [r \in Deficient(shares, floor) |-> floor - shares[r]]
Headroom(shares, floor) == [r \in Donors(shares, floor) |-> shares[r] - floor]

\* When the floors fit in the pool, the donors have room for what the others lack.
LEMMA FloorsFit ==
  ASSUME NEW floor \in Nat, NEW shares \in [Recipients -> Int],
         floor * Cardinality(Recipients) <= SumFunctionOnSet(shares, Recipients)
  PROVE  SumFunction(Shortfall(shares, floor)) <= SumFunction(Headroom(shares, floor))
<1> DEFINE donors == Donors(shares, floor)
           deficient == Deficient(shares, floor)
           head == Headroom(shares, floor)
           short == Shortfall(shares, floor)
           up == [r \in Recipients |-> IF r \in donors THEN shares[r] - floor ELSE 0]
           down == [r \in Recipients |-> IF r \in deficient THEN floor - shares[r] ELSE 0]
           diff == [r \in Recipients |-> shares[r] - floor]
           flat == [r \in Recipients |-> floor]
<1>1. IsFiniteSet(Recipients) /\ Cardinality(Recipients) \in Nat
  BY RecipientsAssumption, FS_CardinalityType
<1>2. donors \in SUBSET Recipients /\ deficient \in SUBSET Recipients
  BY DEF Donors, Deficient
<1>3. \A r \in Recipients : /\ up[r] \in Int /\ down[r] \in Int /\ diff[r] \in Int
                            /\ up[r] = diff[r] + down[r]
                            /\ diff[r] = shares[r] - flat[r]
                            /\ flat[r] = floor
                            /\ shares[r] \in Int
  BY DEF Donors, Deficient
<1>4. /\ \A r \in donors : head[r] = up[r]
      /\ \A r \in Recipients \ donors : up[r] = 0
      /\ \A r \in deficient : short[r] = down[r]
      /\ \A r \in Recipients \ deficient : down[r] = 0
      /\ DOMAIN head = donors /\ DOMAIN short = deficient
  BY <1>2 DEF Headroom, Shortfall
<1> HIDE DEF donors, deficient, up, down, diff, flat, head, short
<1>5. /\ Summable(up, Recipients) /\ Summable(down, Recipients) /\ Summable(diff, Recipients)
      /\ Summable(flat, Recipients) /\ Summable(shares, Recipients)
  BY <1>1, <1>3 DEF Summable
<1>6. SumFunctionOnSet(up, Recipients)
        = SumFunctionOnSet(diff, Recipients) + SumFunctionOnSet(down, Recipients)
  BY <1>3, <1>5, SumAdd
<1>7. SumFunctionOnSet(diff, Recipients)
        = SumFunctionOnSet(shares, Recipients) - SumFunctionOnSet(flat, Recipients)
  BY <1>3, <1>5, SumDifference
<1>8. SumFunctionOnSet(flat, Recipients) = floor * Cardinality(Recipients)
  BY <1>1, <1>3, SumOfSame
<1>9. SumFunction(head) = SumFunctionOnSet(up, Recipients)
  <2>1. SumFunctionOnSet(up, Recipients) = SumFunctionOnSet(up, donors)
    BY <1>2, <1>4, <1>5, SumOfPart
  <2>2. SumFunctionOnSet(head, donors) = SumFunctionOnSet(up, donors)
    BY <1>2, <1>4, <1>5, SummablePart, SumEqual
  <2>3. QED
    BY <1>4, <2>1, <2>2 DEF SumFunction
<1>10. SumFunction(short) = SumFunctionOnSet(down, Recipients)
  <2>1. SumFunctionOnSet(down, Recipients) = SumFunctionOnSet(down, deficient)
    BY <1>2, <1>4, <1>5, SumOfPart
  <2>2. SumFunctionOnSet(short, deficient) = SumFunctionOnSet(down, deficient)
    BY <1>2, <1>4, <1>5, SummablePart, SumEqual
  <2>3. QED
    BY <1>4, <2>1, <2>2 DEF SumFunction
<1>11. /\ SumFunctionOnSet(up, Recipients) \in Int /\ SumFunctionOnSet(down, Recipients) \in Int
       /\ SumFunctionOnSet(shares, Recipients) \in Int /\ floor * Cardinality(Recipients) \in Int
  BY <1>1, <1>5, SumIsInt
<1>12. SumFunctionOnSet(down, Recipients) <= SumFunctionOnSet(up, Recipients)
  BY <1>6, <1>7, <1>8, <1>11
<1>13. QED
  BY <1>9, <1>10, <1>12 DEF head, short

\* The donors pay the shortfall to the cent, and stay at the floor.
LEMMA DonorsPay ==
  ASSUME NEW floor \in Nat, NEW shares \in [Recipients -> Int],
         floor * Cardinality(Recipients) <= SumFunctionOnSet(shares, Recipients),
         \E r \in Recipients : shares[r] < floor
  PROVE  /\ Contributions(shares, floor) \in [Donors(shares, floor) -> Nat]
         /\ \A r \in Donors(shares, floor) :
               Contributions(shares, floor)[r] <= shares[r] - floor
         /\ SumFunctionOnSet(Contributions(shares, floor), Donors(shares, floor))
              = SumFunctionOnSet(Shortfall(shares, floor), Deficient(shares, floor))
<1> DEFINE donors == Donors(shares, floor)
           deficient == Deficient(shares, floor)
           head == Headroom(shares, floor)
           short == Shortfall(shares, floor)
           owed == SumFunction(short)
           room == SumFunction(head)
           prorata == [r \in donors |-> HalfUp(owed * head[r], room)]
<1>1. Contributions(shares, floor) = Gathered(head, prorata, owed, donors)
  BY DEF Contributions, Gathered, Headroom, Shortfall, Donors, Deficient
<1>2. Ids(donors) /\ IsFiniteSet(deficient)
  <2>1. donors \in SUBSET Recipients /\ deficient \in SUBSET Recipients
    BY DEF Donors, Deficient
  <2> HIDE DEF donors, deficient
  <2>2. IsFiniteSet(donors) /\ IsFiniteSet(deficient)
    BY <2>1, RecipientsAssumption, FS_Subset
  <2>3. donors \subseteq Nat
    BY <2>1, RecipientsAssumption
  <2>4. QED
    BY <2>2, <2>3 DEF Ids
<1>3. head \in [donors -> Nat] /\ \A r \in donors : head[r] = shares[r] - floor
  BY DEF Headroom, Donors
<1>4. short \in [deficient -> Nat \ {0}]
  BY DEF Shortfall, Deficient
<1>5. PICK poor \in deficient : TRUE
  BY DEF Deficient
<1> HIDE DEF donors, deficient, head, short
<1>6. owed = SumFunctionOnSet(short, deficient) /\ room = SumFunctionOnSet(head, donors)
  BY <1>3, <1>4 DEF SumFunction
<1>7. owed \in Nat \ {0}
  <2>1. \A r \in deficient : short[r] \in Nat
    BY <1>4
  <2>2. SumFunctionOnSet(short, deficient) \in Nat
    BY <1>2, <2>1, SumOfNats
  <2>3. short[poor] <= SumFunctionOnSet(short, deficient) /\ short[poor] \in Nat \ {0}
    BY <1>2, <1>4, <1>5, <2>1, SumCovers
  <2>4. QED
    BY <1>6, <2>2, <2>3
<1>8. room \in Nat
  BY <1>2, <1>3, <1>6, SumOfNats DEF Ids
<1>9. owed <= room
  BY FloorsFit DEF head, short
<1> HIDE DEF owed, room
<1>10. room \in Nat \ {0}
  BY <1>7, <1>8, <1>9
<1>11. prorata \in [donors -> Nat] /\ \A r \in donors : prorata[r] <= head[r]
  <2> SUFFICES ASSUME NEW r \in donors
               PROVE  HalfUp(owed * head[r], room) \in Nat /\ HalfUp(owed * head[r], room) <= head[r]
    OBVIOUS
  <2>1. head[r] \in Nat
    BY <1>3
  <2>2. QED
    BY <1>7, <1>9, <1>10, <2>1, HalfUpWithin
<1> HIDE DEF prorata
<1>12. /\ Gathered(head, prorata, owed, donors) \in [donors -> Nat]
       /\ \A r \in donors : Gathered(head, prorata, owed, donors)[r] <= head[r]
       /\ SumFunctionOnSet(Gathered(head, prorata, owed, donors), donors) = owed
  BY <1>2, <1>3, <1>6, <1>7, <1>9, <1>11, GatheredInFull
<1>13. QED
  BY <1>1, <1>3, <1>6, <1>12 DEF donors, deficient, short

\* The shares of a category that is distributed add up to what it has, to the cent,
\* whatever was rounded, and meet its floor: the check allocateMeasureReceipt ends a
\* category with, which throws when they do not, never throws.
THEOREM SharesGiveThePool ==
  ASSUME NEW category, NEW figs, NEW pool, Distributable(category, figs, pool)
  PROVE  /\ Shares(category, figs, pool) \in [Recipients -> Int]
         /\ SumFunctionOnSet(Shares(category, figs, pool), Recipients) = pool
         /\ category.floor # NotStated =>
               \A r \in Recipients : Shares(category, figs, pool)[r] >= category.floor
<1> DEFINE shares == FormulaShares(category, figs, pool)
           floor == category.floor
           given == Contributions(shares, floor)
           donors == Donors(shares, floor)
           deficient == Deficient(shares, floor)
           short == Shortfall(shares, floor)
           final == [r \in Recipients |-> CASE shares[r] < floor -> floor
                                            [] shares[r] > floor -> shares[r] - given[r]
                                            [] OTHER             -> floor]
<1>1. shares \in [Recipients -> Int] /\ SumFunctionOnSet(shares, Recipients) = pool
  BY FormulaGivesThePool
<1>2. /\ Shares(category, figs, pool)
           = IF floor = NotStated \/ \A r \in Recipients : shares[r] >= floor THEN shares ELSE final
      /\ floor \in Nat \cup {NotStated}
      /\ pool \in Nat
      /\ floor # NotStated => ~(floor * Cardinality(Recipients) > pool)
  BY DEF Shares, Distributable, Undistributed, CategoryType
<1>3. Cardinality(Recipients) \in Nat /\ IsFiniteSet(Recipients)
  BY RecipientsAssumption, FS_CardinalityType
<1> HIDE DEF shares, floor
<1>4. CASE floor = NotStated \/ \A r \in Recipients : shares[r] >= floor
  BY <1>1, <1>2, <1>4 DEF floor
<1>5. CASE ~(floor = NotStated \/ \A r \in Recipients : shares[r] >= floor)
  <2>1. floor \in Nat /\ \E r \in Recipients : shares[r] < floor
    BY <1>1, <1>2, <1>5
  <2>2. floor * Cardinality(Recipients) <= SumFunctionOnSet(shares, Recipients)
    <3>1. floor * Cardinality(Recipients) \in Nat
      BY <1>3, <2>1
    <3>2. QED
      BY <1>1, <1>2, <2>1, <3>1, <1>5
  <2>3. /\ given \in [donors -> Nat]
        /\ \A r \in donors : given[r] <= shares[r] - floor
        /\ SumFunctionOnSet(given, donors) = SumFunctionOnSet(short, deficient)
    BY <1>1, <2>1, <2>2, DonorsPay
  <2> DEFINE paid == [r \in Recipients |-> IF r \in donors THEN given[r] ELSE 0]
             got == [r \in Recipients |-> IF r \in deficient THEN short[r] ELSE 0]
             raised == [r \in Recipients |-> shares[r] + got[r]]
  <2>4. /\ donors = {r \in Recipients : shares[r] > floor}
        /\ deficient = {r \in Recipients : shares[r] < floor}
        /\ short = [r \in deficient |-> floor - shares[r]]
    BY DEF Donors, Deficient, Shortfall
  <2> HIDE DEF donors, deficient, short, given
  <2>5. ASSUME NEW r \in Recipients
        PROVE  /\ final[r] \in Int /\ final[r] >= floor
               /\ paid[r] \in Int /\ got[r] \in Int /\ shares[r] \in Int
               /\ raised[r] = shares[r] + got[r]
               /\ final[r] = raised[r] - paid[r]
    <3>1. shares[r] \in Int
      BY <1>1
    <3>2. CASE shares[r] < floor
      BY <2>1, <2>4, <3>1, <3>2
    <3>3. CASE shares[r] > floor
      BY <2>1, <2>3, <2>4, <3>1, <3>3
    <3>4. CASE shares[r] = floor
      BY <2>1, <2>4, <3>1, <3>4
    <3>5. QED
      BY <2>1, <3>1, <3>2, <3>3, <3>4
  <2>6. /\ \A r \in donors : paid[r] = given[r]
        /\ \A r \in Recipients \ donors : paid[r] = 0
        /\ \A r \in deficient : got[r] = short[r]
        /\ \A r \in Recipients \ deficient : got[r] = 0
        /\ donors \in SUBSET Recipients /\ deficient \in SUBSET Recipients
    BY <2>4
  <2>7. final \in [Recipients -> Int]
    <3>1. final = [r \in Recipients |-> final[r]]
      OBVIOUS
    <3> HIDE DEF final
    <3>2. QED
      BY <2>5, <3>1
  <2> HIDE DEF final, paid, got, raised
  <2>8. Summable(shares, Recipients) /\ Summable(got, Recipients) /\ Summable(paid, Recipients)
    BY <1>3, <2>5 DEF Summable
  <2>9. /\ Summable(raised, Recipients)
        /\ SumFunctionOnSet(raised, Recipients)
             = SumFunctionOnSet(shares, Recipients) + SumFunctionOnSet(got, Recipients)
    BY <2>5, <2>8, SumAdd
  <2>10. SumFunctionOnSet(final, Recipients)
           = SumFunctionOnSet(raised, Recipients) - SumFunctionOnSet(paid, Recipients)
    BY <2>5, <2>8, <2>9, SumDifference
  <2>11. SumFunctionOnSet(paid, Recipients) = SumFunctionOnSet(given, donors)
    <3>1. SumFunctionOnSet(paid, Recipients) = SumFunctionOnSet(paid, donors)
      BY <2>6, <2>8, SumOfPart
    <3>2. Summable(paid, donors)
      BY <2>6, <2>8, SummablePart
    <3>3. SumFunctionOnSet(given, donors) = SumFunctionOnSet(paid, donors)
      BY <2>6, <3>2, SumEqual
    <3>4. QED
      BY <3>1, <3>3
  <2>12. SumFunctionOnSet(got, Recipients) = SumFunctionOnSet(short, deficient)
    <3>1. SumFunctionOnSet(got, Recipients) = SumFunctionOnSet(got, deficient)
      BY <2>6, <2>8, SumOfPart
    <3>2. Summable(got, deficient)
      BY <2>6, <2>8, SummablePart
    <3>3. SumFunctionOnSet(short, deficient) = SumFunctionOnSet(got, deficient)
      BY <2>6, <3>2, SumEqual
    <3>4. QED
      BY <3>1, <3>3
  <2>13. SumFunctionOnSet(paid, Recipients) \in Int /\ SumFunctionOnSet(shares, Recipients) \in Int
    BY <2>8, SumIsInt
  <2>14. SumFunctionOnSet(final, Recipients) = pool
    BY <1>1, <2>3, <2>9, <2>10, <2>11, <2>12, <2>13
  <2>15. Shares(category, figs, pool) = final
    BY <1>2, <1>5
  <2>16. QED
    BY <2>5, <2>7, <2>14, <2>15 DEF floor
<1>6. QED
  BY <1>4, <1>5

-----------------------------------------------------------------------------
(***************************************************************************)
(* The steps of an allocation under an ordinance.                          *)
(***************************************************************************)
LEMMA OrdinanceParts ==
  ASSUME NEW law, IsOrdinance(law)
  PROVE  /\ Ids(DOMAIN law.offTheTop)
         /\ \A i \in DOMAIN law.offTheTop : law.offTheTop[i] \in ClauseType
         /\ Ids(DOMAIN law.reserves)
         /\ \A i \in DOMAIN law.reserves : law.reserves[i] \in ReserveType
         /\ Ids(DOMAIN law.categories) /\ law.residual \in DOMAIN law.categories
         /\ \A c \in DOMAIN law.categories : law.categories[c] \in CategoryType
<1>1. /\ law.offTheTop \in Seq(ClauseType) /\ law.reserves \in Seq(ReserveType)
      /\ law.categories \in Seq(CategoryType) /\ law.residual \in DOMAIN law.categories
  BY DEF IsOrdinance
<1>2. Ids(DOMAIN law.offTheTop) /\ \A i \in DOMAIN law.offTheTop : law.offTheTop[i] \in ClauseType
  BY <1>1, IndicesAreIds, Zenon
<1>3. Ids(DOMAIN law.reserves) /\ \A i \in DOMAIN law.reserves : law.reserves[i] \in ReserveType
  BY <1>1, IndicesAreIds, Zenon
<1>4. Ids(DOMAIN law.categories) /\ \A c \in DOMAIN law.categories : law.categories[c] \in CategoryType
  BY <1>1, IndicesAreIds, Zenon
<1>5. QED
  BY <1>1, <1>2, <1>3, <1>4

\* The takes come out of the receipt, each within its cap.
LEMMA TakesFit ==
  ASSUME NEW law, IsOrdinance(law), NEW cents \in Nat, NEW prior \in [DOMAIN law.offTheTop -> Nat]
  PROVE  /\ Takes(law, cents, prior) \in [DOMAIN law.offTheTop -> Nat]
         /\ SumFunction(Takes(law, cents, prior)) \in Nat
         /\ SumFunction(Takes(law, cents, prior)) <= cents
         /\ \A i \in DOMAIN law.offTheTop : law.offTheTop[i].capBasis = "fiscal_year" =>
               \/ Takes(law, cents, prior)[i] = 0
               \/ Takes(law, cents, prior)[i] + prior[i] <= law.offTheTop[i].cap
<1> DEFINE A == DOMAIN law.offTheTop
           asked == [i \in A |-> Capped(law.offTheTop[i], cents, prior[i])]
           takes == Takes(law, cents, prior)
<1>1. Ids(A) /\ \A i \in A : law.offTheTop[i] \in ClauseType
  BY OrdinanceParts
<1>2. ASSUME NEW i \in A
      PROVE  /\ asked[i] \in Nat
             /\ law.offTheTop[i].capBasis = "fiscal_year" =>
                   asked[i] = 0 \/ asked[i] + prior[i] <= law.offTheTop[i].cap
  <2>1. law.offTheTop[i] \in ClauseType /\ prior[i] \in Nat
    BY <1>1
  <2>2. QED
    BY <2>1, CappedIsNat
<1>3. asked \in [A -> Nat]
  BY <1>2
<1>4. takes = InTurn(asked, cents)
  BY DEF Takes
<1> HIDE DEF A, asked, takes
<1>5. /\ takes \in [A -> Nat] /\ \A i \in A : takes[i] <= asked[i]
      /\ SumFunction(takes) \in Nat /\ SumFunction(takes) <= cents
  BY <1>1, <1>3, <1>4, InTurnFits
<1>6. ASSUME NEW i \in A, law.offTheTop[i].capBasis = "fiscal_year"
      PROVE  takes[i] = 0 \/ takes[i] + prior[i] <= law.offTheTop[i].cap
  <2>1. takes[i] \in Nat /\ asked[i] \in Nat /\ takes[i] <= asked[i] /\ prior[i] \in Nat
    BY <1>2, <1>5 DEF A
  <2>2. law.offTheTop[i].cap \in Nat
    BY <1>1 DEF ClauseType
  <2>3. QED
    BY <1>2, <1>6, <2>1, <2>2
<1>7. QED
  BY <1>5, <1>6 DEF A, takes

\* Reserves come out of what is left.
LEMMA PoolReservesFit ==
  ASSUME NEW law, IsOrdinance(law), NEW cents \in Nat, NEW left \in Nat
  PROVE  SumFunction(PoolReserves(law, cents, left)) \in 0..left
<1> DEFINE onPool == {i \in DOMAIN law.reserves : law.reserves[i].basis # "category"}
           BasisOf(i) == IF law.reserves[i].basis = "gross" THEN cents ELSE left
           asked == [i \in onPool |-> PercentOf(BasisOf(i), law.reserves[i].percent)]
<1>1. Ids(onPool) /\ \A i \in onPool : law.reserves[i] \in ReserveType
  BY OrdinanceParts, FS_Subset DEF Ids
<1>2. asked \in [onPool -> Nat]
  <2> SUFFICES ASSUME NEW i \in onPool
               PROVE  PercentOf(BasisOf(i), law.reserves[i].percent) \in Nat
    OBVIOUS
  <2>1. law.reserves[i].percent \in Nat
    BY <1>1 DEF ReserveType
  <2>2. BasisOf(i) \in Nat
    OBVIOUS
  <2>3. QED
    BY <2>1, <2>2, PercentOfIsNat
<1>3. PoolReserves(law, cents, left) = InTurn(asked, left)
  BY DEF PoolReserves
<1> HIDE DEF onPool, asked
<1>4. SumFunction(InTurn(asked, left)) \in Nat /\ SumFunction(InTurn(asked, left)) <= left
  BY <1>1, <1>2, InTurnFits
<1>5. QED
  BY <1>3, <1>4

\* Reserves on a category come out of what it has.
LEMMA CategoryReservesFit ==
  ASSUME NEW law, IsOrdinance(law), NEW c, NEW amount \in Nat
  PROVE  SumFunction(CategoryReserves(law, c, amount)) \in 0..amount
<1> DEFINE onIt == {i \in DOMAIN law.reserves : /\ law.reserves[i].basis = "category"
                                               /\ law.reserves[i].category = c}
           asked == [i \in onIt |-> PercentOf(amount, law.reserves[i].percent)]
<1>1. Ids(onIt) /\ \A i \in onIt : law.reserves[i] \in ReserveType
  BY OrdinanceParts, FS_Subset DEF Ids
<1>2. asked \in [onIt -> Nat]
  BY <1>1, PercentOfIsNat DEF ReserveType
<1>3. CategoryReserves(law, c, amount) = InTurn(asked, amount)
  BY DEF CategoryReserves
<1> HIDE DEF onIt, asked
<1>4. SumFunction(InTurn(asked, amount)) \in Nat /\ SumFunction(InTurn(asked, amount)) <= amount
  BY <1>1, <1>2, InTurnFits
<1>5. QED
  BY <1>3, <1>4

\* The categories share exactly what there is to allocate, and none is left below zero:
\* the residual of the rounding is placed in full, in one pass over the categories.
THEOREM CategoriesShareAll ==
  ASSUME NEW law, IsOrdinance(law), NEW allocable \in Nat
  PROVE  /\ CategoryAmounts(law, allocable) \in [DOMAIN law.categories -> Nat]
         /\ SumFunctionOnSet(CategoryAmounts(law, allocable), DOMAIN law.categories) = allocable
<1> DEFINE C == DOMAIN law.categories
           naive == [c \in C |-> PercentOf(allocable, law.categories[c].percent)]
<1>1. Ids(C) /\ law.residual \in C /\ \A c \in C : law.categories[c] \in CategoryType
  BY OrdinanceParts
<1>2. naive \in [C -> Nat]
  BY <1>1, PercentOfIsNat DEF CategoryType
<1>3. CategoryAmounts(law, allocable) = Cleared(naive, law.residual, allocable)
  BY DEF CategoryAmounts, Cleared
<1> HIDE DEF C, naive
<1>4. /\ Cleared(naive, law.residual, allocable) \in [C -> Nat]
      /\ SumFunctionOnSet(Cleared(naive, law.residual, allocable), C) = allocable
  BY <1>1, <1>2, PlacedInFull
<1>5. QED
  BY <1>3, <1>4 DEF C

\* Pooled and returned, what is programmable is given away.
LEMMA GivenSplits ==
  ASSUME NEW C, Ids(C), NEW programmable \in [C -> Nat], NEW R \in SUBSET C,
         NEW pooled \in [C -> Nat], \A c \in C : pooled[c] = IF c \in R THEN 0 ELSE programmable[c],
         NEW sums, DOMAIN sums = R, \A c \in R : sums[c] = programmable[c]
  PROVE  SumFunction(pooled) + SumFunction(sums) = SumFunctionOnSet(programmable, C)
<1> DEFINE back == [c \in C |-> IF c \in R THEN programmable[c] ELSE 0]
<1>1. \A c \in C : /\ programmable[c] \in Int /\ pooled[c] \in Int /\ back[c] \in Int
                   /\ programmable[c] = pooled[c] + back[c]
  OBVIOUS
<1>2. (\A c \in C \ R : back[c] = 0) /\ (\A c \in R : sums[c] = back[c])
  OBVIOUS
<1> HIDE DEF back
<1>3. Summable(programmable, C) /\ Summable(pooled, C) /\ Summable(back, C)
  BY <1>1 DEF Summable, Ids
<1>4. SumFunctionOnSet(programmable, C) = SumFunctionOnSet(pooled, C) + SumFunctionOnSet(back, C)
  BY <1>1, <1>3, SumAdd
<1>5. SumFunctionOnSet(back, C) = SumFunctionOnSet(back, R)
  BY <1>2, <1>3, SumOfPart
<1>6. Summable(back, R)
  BY <1>3, SummablePart
<1>7. SumFunctionOnSet(sums, R) = SumFunctionOnSet(back, R)
  BY <1>2, <1>6, SumEqual
<1>8. DOMAIN pooled = C
  OBVIOUS
<1>9. QED
  BY <1>4, <1>5, <1>7, <1>8 DEF SumFunction

\* What an allocation returns: nothing below zero but perhaps a share, every floor met,
\* every take within its cap, and not a cent of the receipt unaccounted for.
Sound(law, prior, cents, out) ==
    /\ out.takes \in [DOMAIN law.offTheTop -> Nat]
    /\ out.reserves \in Nat
    /\ out.pooled \in [DOMAIN law.categories -> Nat]
    /\ DOMAIN out.shares \in SUBSET DOMAIN law.categories
    /\ out.shares \in [DOMAIN out.shares -> [Recipients -> Int]]
    /\ \A c \in DOMAIN out.shares :
          /\ SumFunction(out.shares[c]) \in Nat
          /\ law.categories[c].floor # NotStated =>
                \A r \in Recipients : out.shares[c][r] >= law.categories[c].floor
    /\ cents - SumFunction(out.takes) - out.reserves = Given(out)
    /\ \A i \in DOMAIN law.offTheTop : law.offTheTop[i].capBasis = "fiscal_year" =>
          out.takes[i] = 0 \/ out.takes[i] + prior[i] <= law.offTheTop[i].cap

\* Under every ordinance that parses, whatever the figures, the receipt and the takes of
\* the year, an allocation is sound.
THEOREM AllocationIsSound ==
  ASSUME NEW law, IsOrdinance(law), NEW figs, IsTable(figs, law), NEW cents \in Nat,
         NEW prior \in [DOMAIN law.offTheTop -> Nat]
  PROVE  Sound(law, prior, cents, Allocation(law, figs, cents, prior))
<1> DEFINE takes == Takes(law, cents, prior)
           afterOffTheTop == cents - SumFunction(takes)
           pool == PoolReserves(law, cents, afterOffTheTop)
           amounts == CategoryAmounts(law, afterOffTheTop - SumFunction(pool))
           held == [c \in DOMAIN amounts |-> SumFunction(CategoryReserves(law, c, amounts[c]))]
           programmable == [c \in DOMAIN amounts |-> amounts[c] - held[c]]
           Returned(c) == /\ law.categories[c].factors # <<>>
                          /\ ~Undistributed(law.categories[c], figs, programmable[c])
           pooled == [c \in DOMAIN amounts |-> IF Returned(c) THEN 0 ELSE programmable[c]]
           R == {c \in DOMAIN amounts : Returned(c)}
           shares == [c \in R |-> Shares(law.categories[c], figs, programmable[c])]
           sums == [c \in R |-> SumFunction(shares[c])]
           out == Allocation(law, figs, cents, prior)
           C == DOMAIN law.categories
<1>0. out = [takes |-> takes, reserves |-> SumFunction(pool) + SumFunction(held),
             pooled |-> pooled, shares |-> shares]
  BY DEF Allocation
<1> HIDE DEF takes, out
<1>1. /\ takes \in [DOMAIN law.offTheTop -> Nat]
      /\ SumFunction(takes) \in Nat /\ SumFunction(takes) <= cents
      /\ \A i \in DOMAIN law.offTheTop : law.offTheTop[i].capBasis = "fiscal_year" =>
            takes[i] = 0 \/ takes[i] + prior[i] <= law.offTheTop[i].cap
  BY TakesFit DEF takes
<1>2. afterOffTheTop \in Nat
  BY <1>1
<1> HIDE DEF afterOffTheTop
<1>3. SumFunction(pool) \in 0..afterOffTheTop
  BY <1>2, PoolReservesFit
<1> HIDE DEF pool
<1>4. amounts \in [C -> Nat] /\ SumFunctionOnSet(amounts, C) = afterOffTheTop - SumFunction(pool)
  <2>1. afterOffTheTop - SumFunction(pool) \in Nat
    BY <1>2, <1>3
  <2>2. QED
    BY <2>1, CategoriesShareAll
<1>5. Ids(C) /\ \A c \in C : law.categories[c] \in CategoryType
  BY OrdinanceParts
<1> HIDE DEF amounts, C
<1>6. ASSUME NEW c \in C
      PROVE  held[c] \in Nat /\ programmable[c] \in Nat /\ programmable[c] = amounts[c] - held[c]
  <2>1. amounts[c] \in Nat /\ c \in DOMAIN amounts
    BY <1>4
  <2>2. SumFunction(CategoryReserves(law, c, amounts[c])) \in 0..amounts[c]
    BY <2>1, CategoryReservesFit
  <2>3. held[c] \in 0..amounts[c] /\ programmable[c] = amounts[c] - held[c]
    BY <2>1, <2>2
  <2> HIDE DEF held, programmable
  <2>4. QED
    BY <2>1, <2>3
<1>7. DOMAIN amounts = C /\ DOMAIN held = C /\ DOMAIN programmable = C
  BY <1>4
<1>8. programmable \in [C -> Nat]
  BY <1>6, <1>7
<1> HIDE DEF held, programmable, Returned
<1>9. R \in SUBSET C /\ DOMAIN shares = R /\ DOMAIN sums = R
  BY <1>7
<1>10. pooled \in [C -> Nat] /\ \A c \in C : pooled[c] = IF c \in R THEN 0 ELSE programmable[c]
  BY <1>7, <1>8
<1>11. ASSUME NEW c \in R
       PROVE  /\ shares[c] \in [Recipients -> Int]
              /\ SumFunction(shares[c]) = programmable[c]
              /\ law.categories[c].floor # NotStated =>
                    \A r \in Recipients : shares[c][r] >= law.categories[c].floor
  <2> DEFINE category == law.categories[c]
             S == Shares(category, figs, programmable[c])
  <2>1. c \in C /\ Returned(c)
    BY <1>9
  <2>2. category \in CategoryType /\ programmable[c] \in Nat
    BY <1>5, <1>6, <2>1
  <2>3. \A i \in DOMAIN category.factors :
           figs[category.factors[i].basis] \in [Recipients -> Nat \cup {NotStated}]
    BY <2>1 DEF IsTable, C
  <2>4. ~Undistributed(category, figs, programmable[c])
    BY <2>1 DEF Returned
  <2> HIDE DEF category
  <2>5. Distributable(category, figs, programmable[c])
    BY <2>2, <2>3, <2>4 DEF Distributable
  <2>6. /\ S \in [Recipients -> Int]
        /\ SumFunctionOnSet(S, Recipients) = programmable[c]
        /\ category.floor # NotStated => \A r \in Recipients : S[r] >= category.floor
    BY <2>5, SharesGiveThePool
  <2>7. shares[c] = S
    BY DEF category
  <2> HIDE DEF S
  <2>8. DOMAIN S = Recipients
    BY <2>6
  <2>9. QED
    BY <2>6, <2>7, <2>8 DEF SumFunction, category
<1> HIDE DEF R, shares, pooled
<1>12. SumFunction(pooled) + SumFunction(sums) = SumFunctionOnSet(programmable, C)
  <2>1. \A c \in R : sums[c] = programmable[c]
    BY <1>11
  <2> HIDE DEF sums
  <2>2. QED
    BY <1>5, <1>8, <1>9, <1>10, <2>1, GivenSplits
<1>13. SumFunctionOnSet(programmable, C) = SumFunctionOnSet(amounts, C) - SumFunctionOnSet(held, C)
  <2>1. Summable(amounts, C) /\ Summable(held, C)
    BY <1>4, <1>5, <1>6 DEF Summable, Ids
  <2>2. QED
    BY <1>6, <2>1, SumDifference
<1>14. SumFunction(held) = SumFunctionOnSet(held, C) /\ SumFunctionOnSet(held, C) \in Nat
  <2>1. SumFunctionOnSet(held, C) \in Nat
    BY <1>5, <1>6, SumOfNats DEF Ids
  <2>2. QED
    BY <1>7, <2>1 DEF SumFunction
<1>15. Given(out) = SumFunction(pooled) + SumFunction(sums)
  BY <1>0, <1>9 DEF Given
<1> HIDE DEF sums
<1>16. cents - SumFunction(takes) - (SumFunction(pool) + SumFunction(held)) = Given(out)
  <2>1. SumFunction(pool) \in Nat
    BY <1>2, <1>3
  <2>2. SumFunctionOnSet(amounts, C) = cents - SumFunction(takes) - SumFunction(pool)
    BY <1>4 DEF afterOffTheTop
  <2>3. QED
    BY <1>1, <1>12, <1>13, <1>14, <1>15, <2>1, <2>2
<1>17. SumFunction(pool) + SumFunction(held) \in Nat
  BY <1>2, <1>3, <1>14
<1>18. \A c \in R : SumFunction(shares[c]) \in Nat
  BY <1>6, <1>9, <1>11
<1>19. /\ out.takes = takes /\ out.reserves = SumFunction(pool) + SumFunction(held)
       /\ out.pooled = pooled /\ out.shares = shares
  BY <1>0
<1>20. /\ out.takes \in [DOMAIN law.offTheTop -> Nat] /\ out.reserves \in Nat
       /\ \A i \in DOMAIN law.offTheTop : law.offTheTop[i].capBasis = "fiscal_year" =>
             out.takes[i] = 0 \/ out.takes[i] + prior[i] <= law.offTheTop[i].cap
  BY <1>1, <1>17, <1>19
<1>21. out.pooled \in [DOMAIN law.categories -> Nat] /\ DOMAIN out.shares \in SUBSET DOMAIN law.categories
  BY <1>9, <1>10, <1>19 DEF C
<1>22. \A c \in DOMAIN out.shares :
          /\ SumFunction(out.shares[c]) \in Nat
          /\ law.categories[c].floor # NotStated =>
                \A r \in Recipients : out.shares[c][r] >= law.categories[c].floor
  BY <1>9, <1>11, <1>18, <1>19
<1>a. out.shares \in [DOMAIN out.shares -> [Recipients -> Int]]
  <2>1. shares = [c \in R |-> shares[c]]
    BY DEF shares
  <2>2. shares \in [R -> [Recipients -> Int]]
    BY <1>11, <2>1
  <2>3. QED
    BY <1>9, <1>19, <2>2
<1>23. cents - SumFunction(out.takes) - out.reserves = Given(out)
  BY <1>16, <1>19
<1>24. Sound(law, prior, cents, out)
  BY <1>20, <1>21, <1>22, <1>a, <1>23 DEF Sound
<1>25. QED
  BY <1>24 DEF out

-----------------------------------------------------------------------------
(***************************************************************************)
(* The year of the fund.                                                   *)
(***************************************************************************)
\* A request that goes on has read a period.
PeriodsAreRead ==
    \A q \in Requests : request[q].pc \in {"takes", "write"} => request[q].period \in Periods

\* The ordinance and the figures in force are ones that were assumed of.
LEMMA InForce ==
  ASSUME TypeOK
  PROVE  IsOrdinance(rule) /\ IsTable(figures, rule)
  BY SettingsAssumption DEF TypeOK

\* No take is a take of nothing from every clause.
LEMMA NothingTaken == NoTakes \in [Clauses -> Nat]
  BY DEF NoTakes

\* Nothing that came off the top, nothing held back, nothing returned to source.
PooledOnly(b) ==
    /\ b.by \in {"nobody", "hand"} /\ b.receipt = 0 /\ b.reserves = 0 /\ b.takes = NoTakes
    /\ b.pooled \in Seq(Nat) /\ b.shares = <<>>

\* A period that was replaced by hand, or not at all, has the type of one.
LEMMA PooledOnlyIsBooking ==
  ASSUME NEW b, PooledOnly(b)
  PROVE  IsBooking(b, rule)
<1>1. <<>> \in [{} -> [Recipients -> Nat]]
  OBVIOUS
<1>2. {} \in SUBSET DOMAIN rule.categories
  OBVIOUS
<1>3. \E C \in SUBSET DOMAIN rule.categories : b.shares \in [C -> [Recipients -> Nat]]
  BY <1>1, <1>2 DEF PooledOnly
<1>4. b.receipt \in Nat /\ b.reserves \in Nat /\ b.by \in {"nobody", "descriptor", "hand"}
  BY DEF PooledOnly
<1>5. b.takes \in [Clauses -> Nat]
  BY NothingTaken DEF PooledOnly
<1>6. QED
  BY <1>3, <1>4, <1>5 DEF PooledOnly, IsBooking, Clauses

\* What the other periods of the year gave up is money.
LEMMA PriorTakesAreNat ==
  ASSUME TypeOK, NEW p
  PROVE  PriorTakes(p) \in [Clauses -> Nat]
<1> SUFFICES ASSUME NEW i \in Clauses
             PROVE  SumFunction([o \in Periods \ {p} |-> booked[o].takes[i]]) \in Nat
  BY DEF PriorTakes
<1> DEFINE column == [o \in Periods \ {p} |-> booked[o].takes[i]]
<1>1. \A o \in Periods \ {p} : column[o] \in Nat
  BY DEF TypeOK, IsBooking, Clauses
<1>2. SumFunction(column) = SumFunctionOnSet(column, Periods \ {p})
  BY DEF SumFunction
<1>3. IsFiniteSet(Periods \ {p})
  BY PeriodsAssumption, FS_Subset
<1> HIDE DEF column
<1>4. QED
  BY <1>1, <1>2, <1>3, SumOfNats DEF column

\* What a request that is about to write would write.
LEMMA WhatIsWritten ==
  ASSUME TypeOK, NEW q \in Requests
  PROVE  Sound(rule, request[q].prior, request[q].receipt, Computed(q))
<1>1. request[q].receipt \in Nat /\ request[q].prior \in [DOMAIN rule.offTheTop -> Nat]
  BY DEF TypeOK, RequestType
<1>2. QED
  BY <1>1, InForce, AllocationIsSound DEF Computed

\* A replacement the CHECKs accept has the type of what a period holds.
LEMMA WrittenIsBooked ==
  ASSUME TypeOK, NEW q \in Requests, Accepted(Computed(q))
  PROVE  LET out == Computed(q) IN
         IsBooking([by |-> "descriptor", receipt |-> request[q].receipt, takes |-> out.takes,
                    reserves |-> out.reserves, pooled |-> out.pooled, shares |-> out.shares], rule)
<1> DEFINE out == Computed(q)
<1>1. request[q].receipt \in Nat
  BY DEF TypeOK, RequestType
<1>2. Sound(rule, request[q].prior, request[q].receipt, out)
  BY WhatIsWritten
<1>3. rule.categories \in Seq(CategoryType)
  BY InForce DEF IsOrdinance
<1> HIDE DEF out
<1>4. out.pooled \in Seq(Nat)
  <2>1. DOMAIN rule.categories = 1..Len(rule.categories) /\ Len(rule.categories) \in Nat
    <3> DEFINE X == CategoryType
    <3> HIDE DEF X
    <3>1. rule.categories \in Seq(X)
      BY <1>3 DEF X
    <3>2. QED
      BY <3>1
  <2>2. out.pooled \in [1..Len(rule.categories) -> Nat]
    BY <1>2, <2>1 DEF Sound
  <2>3. QED
    BY <2>1, <2>2
<1>5. out.shares \in [DOMAIN out.shares -> [Recipients -> Nat]]
  <2>1. out.shares \in [DOMAIN out.shares -> [Recipients -> Int]]
    BY <1>2 DEF Sound
  <2>2. ASSUME NEW c \in DOMAIN out.shares, NEW r \in Recipients
        PROVE  out.shares[c][r] >= 0
    <3>1. <<c, r>> \in SharesOf(out)
      BY DEF SharesOf
    <3>2. QED
      BY <3>1 DEF Accepted, out
  <2>3. QED
    BY <2>1, <2>2
<1>6. /\ DOMAIN out.shares \in SUBSET DOMAIN rule.categories
      /\ out.takes \in [Clauses -> Nat] /\ out.reserves \in Nat
  BY <1>2 DEF Sound, Clauses
<1>7. QED
  BY <1>1, <1>4, <1>5, <1>6 DEF IsBooking, Clauses, out

\* The type invariant holds at first.
LEMMA TypeStart == Init => TypeOK /\ PeriodsAreRead
<1> SUFFICES ASSUME Init PROVE TypeOK /\ PeriodsAreRead
  OBVIOUS
<1>1. PICK setting \in Settings : rule = setting.rule /\ figures = setting.figures
  BY DEF Init
<1>2. receipt \in [Periods -> Receipts \cup {NotStated}] /\ raced \in BOOLEAN
  BY DEF Init
<1>3. DOMAIN booked = Periods /\ \A p \in Periods : booked[p] = Unallocated
  BY DEF Init
<1>4. IsBooking(Unallocated, rule)
  <2>1. PooledOnly(Unallocated)
    BY DEF Unallocated, PooledOnly
  <2>2. QED
    BY <2>1, PooledOnlyIsBooking
<1>5. request \in [Requests -> RequestType(rule)] /\ \A q \in Requests : request[q].pc = "new"
  BY NothingTaken DEF Init, NewRequest, RequestType, Clauses
<1>6. reports \in 0..MaxReports
  BY MaxReportsAssumption DEF Init
<1>7. TypeOK
  BY <1>1, <1>2, <1>3, <1>4, <1>5, <1>6 DEF TypeOK
<1>8. PeriodsAreRead
  BY <1>5 DEF PeriodsAreRead
<1>9. QED
  BY <1>7, <1>8

\* Every step keeps the types, and a request goes on with a period it has read.
LEMMA TypeStep ==
  ASSUME TypeOK, PeriodsAreRead, [Next]_vars
  PROVE  TypeOK' /\ PeriodsAreRead'
<1> DEFINE Kinds == {"new", "takes", "write", "done", "refused"}
<1>0. /\ \E setting \in Settings : rule = setting.rule /\ figures = setting.figures
      /\ receipt \in [Periods -> Receipts \cup {NotStated}]
      /\ DOMAIN booked = Periods /\ \A p \in Periods : IsBooking(booked[p], rule)
      /\ request \in [Requests -> RequestType(rule)]
      /\ reports \in 0..MaxReports
      /\ raced \in BOOLEAN
  BY DEF TypeOK
<1>a. ASSUME NEW q \in Requests, NEW new \in RequestType(rule),
             request' = [request EXCEPT ![q] = new],
             new.pc \in {"takes", "write"} => new.period \in Periods
      PROVE  request' \in [Requests -> RequestType(rule)] /\ PeriodsAreRead'
  <2>1. request' \in [Requests -> RequestType(rule)]
    BY <1>0, <1>a
  <2>2. \A o \in Requests : request'[o] = IF o = q THEN new ELSE request[o]
    BY <1>0, <1>a
  <2>3. QED
    BY <1>a, <2>1, <2>2 DEF PeriodsAreRead
<1>1. ASSUME NEW p \in Periods, NEW amount \in Receipts \cup {NotStated}, RecordReceipt(p, amount)
      PROVE  TypeOK' /\ PeriodsAreRead'
  <2>1. /\ UNCHANGED <<rule, figures, booked, request, raced>>
        /\ receipt' \in [Periods -> Receipts \cup {NotStated}]
        /\ reports' \in 0..MaxReports
    BY <1>0, <1>1, MaxReportsAssumption DEF RecordReceipt
  <2>2. QED
    BY <1>0, <2>1 DEF TypeOK, PeriodsAreRead
<1>2. ASSUME NEW q \in Requests, NEW p \in Periods, ReadPeriod(q, p)
      PROVE  TypeOK' /\ PeriodsAreRead'
  <2> DEFINE new == [request[q] EXCEPT !.pc = "takes", !.period = p, !.receipt = receipt[p]]
  <2>1. request[q] \in RequestType(rule) /\ receipt[p] \in Nat
    BY <1>0, <1>2, ReceiptsAssumption DEF ReadPeriod
  <2>2. new \in RequestType(rule) /\ new.period = p
    BY <2>1 DEF RequestType
  <2>3. request' = [request EXCEPT ![q] = new]
    BY <1>2 DEF ReadPeriod
  <2>4. request' \in [Requests -> RequestType(rule)] /\ PeriodsAreRead'
    <3> HIDE DEF new
    <3>1. QED
      BY <1>a, <2>2, <2>3
  <2>5. QED
    BY <1>0, <1>2, <2>4 DEF TypeOK, ReadPeriod
<1>3. ASSUME NEW q \in Requests, ReadTakes(q)
      PROVE  TypeOK' /\ PeriodsAreRead'
  <2> DEFINE new == [request[q] EXCEPT !.pc = "write", !.prior = PriorTakes(request[q].period)]
  <2>1. request[q] \in RequestType(rule) /\ request[q].period \in Periods
    BY <1>0, <1>3 DEF ReadTakes, PeriodsAreRead
  <2>2. PriorTakes(request[q].period) \in [DOMAIN rule.offTheTop -> Nat]
    BY PriorTakesAreNat DEF Clauses
  <2>3. new \in RequestType(rule) /\ new.period = request[q].period
    BY <2>1, <2>2 DEF RequestType
  <2>4. request' = [request EXCEPT ![q] = new]
    BY <1>3 DEF ReadTakes
  <2>5. request' \in [Requests -> RequestType(rule)] /\ PeriodsAreRead'
    <3> HIDE DEF new
    <3>1. QED
      BY <1>a, <2>1, <2>3, <2>4
  <2>6. QED
    BY <1>0, <1>3, <2>5 DEF TypeOK, ReadTakes
<1>b. ASSUME NEW q \in Requests, NEW pc \in {"done", "refused"},
             request' = [request EXCEPT ![q].pc = pc]
      PROVE  request' \in [Requests -> RequestType(rule)] /\ PeriodsAreRead'
  <2> DEFINE new == [request[q] EXCEPT !.pc = pc]
  <2>1. request[q] \in RequestType(rule)
    BY <1>0
  <2>2. new \in RequestType(rule) /\ new.pc \notin {"takes", "write"}
    BY <2>1 DEF RequestType
  <2>3. request' = [request EXCEPT ![q] = new]
    BY <1>b
  <2> HIDE DEF new
  <2>4. QED
    BY <1>a, <2>2, <2>3
<1>4. ASSUME NEW q \in Requests, ReadFails(q) \/ ReplaceFails(q)
      PROVE  TypeOK' /\ PeriodsAreRead'
  <2>1. /\ request' = [request EXCEPT ![q].pc = "refused"]
        /\ UNCHANGED <<rule, figures, receipt, booked, reports, raced>>
    BY <1>4 DEF ReadFails, ReplaceFails
  <2>2. request' \in [Requests -> RequestType(rule)] /\ PeriodsAreRead'
    BY <1>b, <2>1
  <2>3. QED
    BY <1>0, <2>1, <2>2 DEF TypeOK
<1>5. ASSUME NEW q \in Requests, Replace(q)
      PROVE  TypeOK' /\ PeriodsAreRead'
  <2> DEFINE out == Computed(q)
             p == request[q].period
             new == [by |-> "descriptor", receipt |-> request[q].receipt, takes |-> out.takes,
                     reserves |-> out.reserves, pooled |-> out.pooled, shares |-> out.shares]
  <2>1. /\ Accepted(out) /\ booked' = [booked EXCEPT ![p] = new]
        /\ request' = [request EXCEPT ![q].pc = "done"]
        /\ raced' \in BOOLEAN
        /\ UNCHANGED <<rule, figures, receipt, reports>>
    BY <1>5 DEF Replace
  <2>2. IsBooking(new, rule)
    BY <2>1, WrittenIsBooked
  <2> HIDE DEF new, p, out
  <2>3. DOMAIN booked' = Periods /\ \A o \in Periods : IsBooking(booked'[o], rule)
    BY <1>0, <2>1, <2>2
  <2>4. request' \in [Requests -> RequestType(rule)] /\ PeriodsAreRead'
    BY <1>b, <2>1
  <2>5. QED
    BY <1>0, <2>1, <2>3, <2>4 DEF TypeOK
<1>6. ASSUME NEW q \in Requests, NEW p \in Periods, NEW amount \in Stated, ReplaceByHand(q, p, amount)
      PROVE  TypeOK' /\ PeriodsAreRead'
  <2> DEFINE new == [Unallocated EXCEPT !.by = "hand", !.pooled = <<amount>>]
  <2>1. /\ booked' = [booked EXCEPT ![p] = new]
        /\ request' = [request EXCEPT ![q].pc = "done"]
        /\ UNCHANGED <<rule, figures, receipt, reports, raced>>
    BY <1>6 DEF ReplaceByHand
  <2>2. <<amount>> \in Seq(Nat)
    BY ReceiptsAssumption
  <2>3. PooledOnly(new)
    BY <2>2 DEF Unallocated, PooledOnly
  <2> HIDE DEF new
  <2>4. IsBooking(new, rule)
    BY <2>3, PooledOnlyIsBooking
  <2>5. DOMAIN booked' = Periods /\ \A o \in Periods : IsBooking(booked'[o], rule)
    BY <1>0, <2>1, <2>4
  <2>6. request' \in [Requests -> RequestType(rule)] /\ PeriodsAreRead'
    BY <1>b, <2>1
  <2>7. QED
    BY <1>0, <2>1, <2>5, <2>6 DEF TypeOK
<1>7. CASE UNCHANGED vars
  BY <1>0, <1>7 DEF TypeOK, PeriodsAreRead, vars
<1>8. QED
  BY <1>1, <1>2, <1>3, <1>4, <1>5, <1>6, <1>7 DEF Next

\* What a step does to what the periods hold: nothing, or one of them is replaced.
LEMMA OnePeriodAtMost ==
  ASSUME [Next]_vars
  PROVE  \/ UNCHANGED <<booked, rule, raced>>
         \/ \E q \in Requests : Replace(q)
         \/ \E q \in Requests, p \in Periods, amount \in Stated : ReplaceByHand(q, p, amount)
<1>1. CASE UNCHANGED vars
  BY <1>1 DEF vars
<1>2. CASE \E p \in Periods, amount \in Receipts \cup {NotStated} : RecordReceipt(p, amount)
  BY <1>2 DEF RecordReceipt
<1>3. CASE \E q \in Requests, p \in Periods : ReadPeriod(q, p)
  BY <1>3 DEF ReadPeriod
<1>4. CASE \E q \in Requests : ReadTakes(q) \/ ReadFails(q) \/ ReplaceFails(q)
  BY <1>4 DEF ReadTakes, ReadFails, ReplaceFails
<1>5. QED
  BY <1>1, <1>2, <1>3, <1>4 DEF Next

\* Nothing is booked at first.
LEMMA BooksStart == Init => BooksClose
  BY DEF Init, BooksClose, Unallocated

\* A replacement closes the books of its period and touches no other.
LEMMA BooksStep ==
  ASSUME TypeOK, PeriodsAreRead, BooksClose, [Next]_vars
  PROVE  BooksClose'
<1> DEFINE Closed(b) == b.by = "descriptor" =>
               b.receipt - SumFunction(b.takes) - b.reserves = Given(b)
<1>0. DOMAIN booked = Periods /\ \A p \in Periods : Closed(booked[p])
  BY DEF TypeOK, BooksClose
<1>1. ASSUME NEW p, NEW new, Closed(new), booked' = [booked EXCEPT ![p] = new]
      PROVE  BooksClose'
  <2>1. \A o \in Periods : booked'[o] = IF o = p THEN new ELSE booked[o]
    BY <1>0, <1>1
  <2>2. \A o \in Periods : Closed(booked'[o])
    <3> HIDE DEF Closed
    <3>1. QED
      BY <1>0, <1>1, <2>1
  <2>3. QED
    BY <2>2 DEF BooksClose
<1>2. CASE UNCHANGED <<booked, rule, raced>>
  BY <1>2 DEF BooksClose
<1>3. ASSUME NEW q \in Requests, Replace(q)
      PROVE  BooksClose'
  <2> DEFINE out == Computed(q)
             p == request[q].period
             new == [by |-> "descriptor", receipt |-> request[q].receipt, takes |-> out.takes,
                     reserves |-> out.reserves, pooled |-> out.pooled, shares |-> out.shares]
  <2>1. booked' = [booked EXCEPT ![p] = new]
    BY <1>3 DEF Replace
  <2>2. request[q].receipt - SumFunction(out.takes) - out.reserves = Given(out)
    BY WhatIsWritten DEF Sound
  <2> HIDE DEF out
  <2>3. Given(new) = Given(out)
    BY DEF Given
  <2>4. Closed(new)
    BY <2>2, <2>3
  <2> HIDE DEF new, p, Closed
  <2>5. QED
    BY <1>1, <2>1, <2>4
<1>4. ASSUME NEW q \in Requests, NEW p \in Periods, NEW amount \in Stated, ReplaceByHand(q, p, amount)
      PROVE  BooksClose'
  <2> DEFINE new == [Unallocated EXCEPT !.by = "hand", !.pooled = <<amount>>]
  <2>1. booked' = [booked EXCEPT ![p] = new]
    BY <1>4 DEF ReplaceByHand
  <2>2. new.by = "hand"
    BY DEF Unallocated
  <2> HIDE DEF new
  <2>3. Closed(new)
    BY <2>2
  <2> HIDE DEF Closed
  <2>4. QED
    BY <1>1, <2>1, <2>3
<1>5. QED
  BY <1>2, <1>3, <1>4, OnePeriodAtMost

-----------------------------------------------------------------------------
\* One period's take replaced: the year's takes are what the others gave up, and it.
LEMMA YearWithOneReplaced ==
  ASSUME NEW P, IsFiniteSet(P), NEW old \in [P -> Nat], NEW new \in [P -> Nat], NEW p \in P,
         \A o \in P \ {p} : new[o] = old[o],
         NEW others, others = [o \in P \ {p} |-> old[o]]
  PROVE  /\ SumFunction(others) \in Nat
         /\ SumFunction(new) = new[p] + SumFunction(others)
         /\ SumFunction(old) = old[p] + SumFunction(others)
<1>1. \A o \in P : old[o] \in Int /\ new[o] \in Int /\ old[o] \in Nat
  OBVIOUS
<1>2. DOMAIN others = P \ {p} /\ \A o \in P \ {p} : others[o] = old[o] /\ others[o] = new[o]
  OBVIOUS
<1>3. DOMAIN old = P /\ DOMAIN new = P
  OBVIOUS
<1>4. Summable(old, P) /\ Summable(new, P)
  BY <1>1 DEF Summable
<1>5. Summable(old, P \ {p}) /\ Summable(new, P \ {p}) /\ IsFiniteSet(P \ {p})
  BY <1>4, SummablePart DEF Summable
<1>6. SumFunctionOnSet(others, P \ {p}) = SumFunctionOnSet(old, P \ {p})
  BY <1>2, <1>5, SumEqual
<1>7. SumFunctionOnSet(others, P \ {p}) = SumFunctionOnSet(new, P \ {p})
  BY <1>2, <1>5, SumEqual
<1>8. SumFunctionOnSet(new, P) = new[p] + SumFunctionOnSet(new, P \ {p})
  BY <1>4, SumSplit
<1>9. SumFunctionOnSet(old, P) = old[p] + SumFunctionOnSet(old, P \ {p})
  BY <1>4, SumSplit
<1>10. SumFunctionOnSet(others, P \ {p}) \in Nat
  BY <1>1, <1>2, <1>5, SumOfNats
<1>11. QED
  BY <1>2, <1>3, <1>6, <1>7, <1>8, <1>9, <1>10 DEF SumFunction

\* What a clause took from each period; a clause with an annual cap.
TakesOf(i) == [p \in Periods |-> booked[p].takes[i]]
Annual(i) == rule.offTheTop[i].capBasis = "fiscal_year"

\* The cap in these terms.
LEMMA CapIs ==
  AnnualCapHolds <=>
      \/ raced
      \/ \A i \in Clauses : Annual(i) => SumFunction(TakesOf(i)) <= rule.offTheTop[i].cap
  BY DEF AnnualCapHolds, TakesOf, Annual

\* Nothing has been taken at first.
LEMMA CapStart == TypeOK /\ Init => AnnualCapHolds
<1> SUFFICES ASSUME TypeOK, Init, NEW i \in Clauses
             PROVE  SumFunction(TakesOf(i)) <= rule.offTheTop[i].cap
  BY CapIs
<1>1. \A p \in Periods : TakesOf(i)[p] = 0
  BY DEF Init, TakesOf, Unallocated, NoTakes
<1>2. DOMAIN TakesOf(i) = Periods
  BY DEF TakesOf
<1>3. SumFunction(TakesOf(i)) = 0
  BY <1>1, <1>2, SumOfZeros, PeriodsAssumption DEF SumFunction
<1>4. rule.offTheTop[i].cap \in Nat
  BY InForce, OrdinanceParts DEF Clauses, ClauseType
<1>5. QED
  BY <1>3, <1>4

\* A take that was computed on what the other periods still hold keeps to the cap.
LEMMA CapStep ==
  ASSUME TypeOK, PeriodsAreRead, AnnualCapHolds, [Next]_vars, TypeOK'
  PROVE  AnnualCapHolds'
<1>1. CASE UNCHANGED <<booked, rule, raced>>
  BY <1>1 DEF AnnualCapHolds, Clauses
<1>2. ASSUME NEW p \in Periods, NEW i \in Clauses,
             rule' = rule, \A o \in Periods \ {p} : booked'[o] = booked[o]
      PROVE  /\ PriorTakes(p)[i] \in Nat /\ booked[p].takes[i] \in Nat /\ booked'[p].takes[i] \in Nat
             /\ SumFunction(TakesOf(i))' = booked'[p].takes[i] + PriorTakes(p)[i]
             /\ SumFunction(TakesOf(i)) = booked[p].takes[i] + PriorTakes(p)[i]
  <2> DEFINE old == [o \in Periods |-> booked[o].takes[i]]
             new == [o \in Periods |-> booked'[o].takes[i]]
             others == [o \in Periods \ {p} |-> booked[o].takes[i]]
  <2>1. \A o \in Periods : booked[o].takes[i] \in Nat /\ booked'[o].takes[i] \in Nat
    BY <1>2 DEF TypeOK, IsBooking, Clauses
  <2>2. old \in [Periods -> Nat] /\ new \in [Periods -> Nat]
    BY <2>1
  <2>3. \A o \in Periods \ {p} : new[o] = old[o]
    BY <1>2
  <2>4. others = [o \in Periods \ {p} |-> old[o]]
    OBVIOUS
  <2>5. old[p] = booked[p].takes[i] /\ new[p] = booked'[p].takes[i]
    OBVIOUS
  <2>6. PriorTakes(p)[i] = SumFunction(others)
    BY DEF PriorTakes
  <2>7. SumFunction(TakesOf(i)) = SumFunction(old) /\ SumFunction(TakesOf(i))' = SumFunction(new)
    BY DEF TakesOf
  <2> HIDE DEF old, new, others
  <2>8. /\ SumFunction(others) \in Nat
        /\ SumFunction(new) = new[p] + SumFunction(others)
        /\ SumFunction(old) = old[p] + SumFunction(others)
    <3>1. IsFiniteSet(Periods) /\ p \in Periods
      BY PeriodsAssumption
    <3>2. QED
      BY <2>2, <2>3, <2>4, <3>1, YearWithOneReplaced
  <2>9. QED
    BY <2>1, <2>5, <2>6, <2>7, <2>8
<1>c. ASSUME NEW i \in Clauses
      PROVE  rule.offTheTop[i].cap \in Nat
  BY <1>c, InForce, OrdinanceParts DEF Clauses, ClauseType
<1>3. ASSUME NEW q \in Requests, Replace(q)
      PROVE  AnnualCapHolds'
  <2> DEFINE out == Computed(q)
             p == request[q].period
             new == [by |-> "descriptor", receipt |-> request[q].receipt, takes |-> out.takes,
                     reserves |-> out.reserves, pooled |-> out.pooled, shares |-> out.shares]
  <2>1. /\ booked' = [booked EXCEPT ![p] = new] /\ rule' = rule
        /\ raced' = (raced \/ PriorTakes(p) # request[q].prior)
    BY <1>3 DEF Replace
  <2>2. p \in Periods
    BY <1>3 DEF Replace, PeriodsAreRead
  <2>3. new.takes = out.takes
    OBVIOUS
  <2>4. \A i \in Clauses : Annual(i) =>
            out.takes[i] = 0 \/ out.takes[i] + request[q].prior[i] <= rule.offTheTop[i].cap
    BY WhatIsWritten DEF Sound, Clauses, Annual
  <2> HIDE DEF new, out, p
  <2>5. booked'[p] = new /\ \A o \in Periods \ {p} : booked'[o] = booked[o]
    BY <2>1, <2>2 DEF TypeOK
  <2>6. SUFFICES ASSUME ~raced, PriorTakes(p) = request[q].prior, NEW i \in Clauses, Annual(i)
                 PROVE  SumFunction(TakesOf(i))' <= rule.offTheTop[i].cap
    <3>1. AnnualCapHolds' <=> raced' \/ \A i \in Clauses : Annual(i) =>
                                   SumFunction(TakesOf(i))' <= rule.offTheTop[i].cap
      BY <2>1 DEF AnnualCapHolds, Clauses, Annual, TakesOf
    <3>2. QED
      BY <2>1, <3>1 DEF TypeOK
  <2>7. /\ PriorTakes(p)[i] \in Nat /\ booked[p].takes[i] \in Nat /\ booked'[p].takes[i] \in Nat
        /\ SumFunction(TakesOf(i))' = booked'[p].takes[i] + PriorTakes(p)[i]
        /\ SumFunction(TakesOf(i)) = booked[p].takes[i] + PriorTakes(p)[i]
    BY <1>2, <2>1, <2>2, <2>5, <2>6
  <2>8. SumFunction(TakesOf(i)) <= rule.offTheTop[i].cap
    BY <2>6, CapIs
  <2>9. rule.offTheTop[i].cap \in Nat
    BY <1>c, <2>6
  <2>10. \/ booked'[p].takes[i] = 0
         \/ booked'[p].takes[i] + PriorTakes(p)[i] <= rule.offTheTop[i].cap
    BY <2>3, <2>4, <2>5, <2>6
  <2>11. QED
    BY <2>7, <2>8, <2>9, <2>10
<1>4. ASSUME NEW q \in Requests, NEW p \in Periods, NEW amount \in Stated, ReplaceByHand(q, p, amount)
      PROVE  AnnualCapHolds'
  <2> DEFINE new == [Unallocated EXCEPT !.by = "hand", !.pooled = <<amount>>]
  <2>1. booked' = [booked EXCEPT ![p] = new] /\ rule' = rule /\ raced' = raced
    BY <1>4 DEF ReplaceByHand
  <2>2. new.takes = NoTakes
    BY DEF Unallocated
  <2> HIDE DEF new
  <2>3. booked'[p] = new /\ \A o \in Periods \ {p} : booked'[o] = booked[o]
    BY <2>1 DEF TypeOK
  <2>4. SUFFICES ASSUME ~raced, NEW i \in Clauses, Annual(i)
                 PROVE  SumFunction(TakesOf(i))' <= rule.offTheTop[i].cap
    BY <2>1 DEF AnnualCapHolds, Clauses, Annual, TakesOf
  <2>5. /\ PriorTakes(p)[i] \in Nat /\ booked[p].takes[i] \in Nat /\ booked'[p].takes[i] \in Nat
        /\ SumFunction(TakesOf(i))' = booked'[p].takes[i] + PriorTakes(p)[i]
        /\ SumFunction(TakesOf(i)) = booked[p].takes[i] + PriorTakes(p)[i]
    BY <1>2, <2>1, <2>3, <2>4
  <2>6. SumFunction(TakesOf(i)) <= rule.offTheTop[i].cap /\ rule.offTheTop[i].cap \in Nat
    BY <1>c, <2>4, CapIs
  <2>7. booked'[p].takes[i] = 0
    BY <2>2, <2>3, <2>4 DEF NoTakes
  <2>8. QED
    BY <2>5, <2>6, <2>7
<1>5. QED
  BY <1>1, <1>3, <1>4, OnePeriodAtMost

-----------------------------------------------------------------------------
\* The inductive invariant: a request computes on ids and amounts of their type, and the
\* cap needs the period it writes to be one of the year.
FundInv == TypeOK /\ PeriodsAreRead /\ BooksClose /\ AnnualCapHolds

\* It holds at first, and every step keeps it.
LEMMA FundInvHolds == Spec => []FundInv
<1>1. Init => FundInv
  BY TypeStart, BooksStart, CapStart DEF FundInv
<1>2. FundInv /\ [Next]_vars => FundInv'
  BY TypeStep, BooksStep, CapStep DEF FundInv
<1>3. QED
  BY <1>1, <1>2, PTL DEF Spec

\* Every variable keeps its type, and whatever was computed, what a period holds is money:
\* a negative share never gets past the CHECK.
THEOREM FundTypeCorrect == Spec => []TypeOK
<1>1. FundInv => TypeOK
  BY DEF FundInv
<1>2. QED
  BY <1>1, FundInvHolds, PTL

\* What a period received, less what came off the top, less what is held back, is what
\* its purposes were given, to the cent, after every history of replacements.
THEOREM BooksAlwaysClose == Spec => []BooksClose
<1>1. FundInv => BooksClose
  BY DEF FundInv
<1>2. QED
  BY <1>1, FundInvHolds, PTL

\* The takes of a year under an annual cap stay within it, in whatever order and however
\* often its periods are allocated, unless a request computed on takes that were replaced
\* before it wrote.
THEOREM CapAlwaysHolds == Spec => []AnnualCapHolds
<1>1. FundInv => AnnualCapHolds
  BY DEF FundInv
<1>2. QED
  BY <1>1, FundInvHolds, PTL

\* No request is about to write a category, a take or a reserve below zero.
THEOREM NothingBelowZero == Spec => []NoCategoryBelowZero
<1>1. TypeOK => NoCategoryBelowZero
  <2> SUFFICES ASSUME TypeOK, NEW q \in Writing
               PROVE  LET out == Computed(q) IN
                      /\ Cents(out.takes) /\ Cents(out.pooled) /\ out.reserves \in Nat
                      /\ \A c \in DOMAIN out.shares : SumFunction(out.shares[c]) >= 0
    BY DEF NoCategoryBelowZero
  <2> DEFINE out == Computed(q)
  <2>1. q \in Requests
    BY DEF Writing
  <2>2. Sound(rule, request[q].prior, request[q].receipt, out)
    BY <2>1, WhatIsWritten
  <2> HIDE DEF out
  <2>3. /\ Cents(out.takes) /\ Cents(out.pooled) /\ out.reserves \in Nat
        /\ \A c \in DOMAIN out.shares : SumFunction(out.shares[c]) >= 0
    BY <2>2 DEF Sound, Cents
  <2>4. QED
    BY <2>3 DEF out
<1>2. QED
  BY <1>1, FundTypeCorrect, PTL

\* No request is about to write a share below the minimum of the ordinance.
THEOREM FloorsAlwaysMet == Spec => []FloorsAreMet
<1>1. TypeOK => FloorsAreMet
  <2> SUFFICES ASSUME TypeOK, NEW q \in Writing
               PROVE  LET out == Computed(q) IN
                      \A c \in DOMAIN out.shares : rule.categories[c].floor # NotStated =>
                          \A r \in Recipients : out.shares[c][r] >= rule.categories[c].floor
    BY DEF FloorsAreMet
  <2>1. q \in Requests
    BY DEF Writing
  <2>2. Sound(rule, request[q].prior, request[q].receipt, Computed(q))
    BY <2>1, WhatIsWritten
  <2>3. QED
    BY <2>2 DEF Sound
<1>2. QED
  BY <1>1, FundTypeCorrect, PTL
=============================================================================
