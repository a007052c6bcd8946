---------------------------- MODULE SumTheorems ----------------------------
(***************************************************************************)
(* Sums over finite sets of what a function gives for their members, as    *)
(* SumFunctionOnSet computes them: the facts the proofs about accounts     *)
(* need.  SumFunctionOnSet takes one member after the other out of the     *)
(* set, whichever CHOOSE picks; the sum does not depend on that.           *)
(*                                                                         *)
(* The induction is over subsets: of the subsets a statement is false for  *)
(* one would be minimal (WFMin of WellFoundedInduction).                   *)
(***************************************************************************)
EXTENDS Integers, FiniteSets, Functions, FiniteSetTheorems, WellFoundedInduction, TLAPS

(* What holds of a subset of S if it holds of all smaller ones holds of S. *)
LEMMA SubsetInduction ==
  ASSUME NEW S, IsFiniteSet(S), NEW G,
         \A T \in SUBSET S : (\A U \in SUBSET T : U # T => U \in G) => T \in G
  PROVE  \A T \in SUBSET S : T \in G
<1> DEFINE Bad == (SUBSET S) \ G
<1> SUFFICES ASSUME Bad # {} PROVE FALSE
  OBVIOUS
<1>1. FiniteSubsetsOf(S) = SUBSET S
  BY FS_FiniteSubsetsOfFinite
<1>2. IsWellFoundedOn(StrictSubsetOrdering(S), FiniteSubsetsOf(S))
  BY FS_StrictSubsetOrderingWellFounded
<1>3. Bad \subseteq FiniteSubsetsOf(S)
  BY <1>1
<1>4. \E T \in Bad : \A U \in Bad : ~ (<<U, T>> \in StrictSubsetOrdering(S))
  <2> HIDE DEF Bad
  <2> QED
    BY <1>2, <1>3, WFMin
<1>5. PICK T \in Bad : \A U \in Bad : ~ (<<U, T>> \in StrictSubsetOrdering(S))
  BY <1>4
<1>6. \A U \in SUBSET T : U # T => U \in G
  BY <1>5 DEF StrictSubsetOrdering
<1> QED
  BY <1>5, <1>6

(* What holds of 0 and of a successor with its number holds of all.        *)
LEMMA NumberInduction ==
  ASSUME NEW G, 0 \in G, \A n \in Nat : n \in G => n + 1 \in G
  PROVE  \A n \in Nat : n \in G
<1> DEFINE Bad == Nat \ G
          R == OpToRel(<, Nat)
<1> SUFFICES ASSUME Bad # {} PROVE FALSE
  OBVIOUS
<1>1. IsWellFoundedOn(R, Nat)
  BY NatLessThanWellFounded, Zenon
<1>2. \A m, n \in Nat : m < n => <<m, n>> \in R
  BY Zenon DEF OpToRel
<1>3. Bad \subseteq Nat
  OBVIOUS
<1>4. \E n \in Bad : \A m \in Bad : ~ (<<m, n>> \in R)
  <2> HIDE DEF Bad, R
  <2> QED
    BY <1>1, <1>3, WFMin
<1>5. PICK n \in Bad : \A m \in Bad : ~ (m < n)
  <2> HIDE DEF R
  <2> QED
    BY <1>2, <1>3, <1>4
<1>6. n # 0 /\ n - 1 \in Nat /\ n - 1 < n
  BY <1>5
<1>7. n - 1 \in G
  BY <1>5, <1>6
<1> QED
  BY <1>5, <1>6, <1>7

-----------------------------------------------------------------------------
(* The function that SumFunctionOnSet defines by recursion exists.         *)

Picked(s) == CHOOSE x \in s : TRUE
Iterates(h, g, D) ==
  h = [s \in D |-> IF s = {} THEN 0 ELSE g[Picked(s)] + h[s \ {Picked(s)}]]
UpTo(S, n) == {s \in SUBSET S : Cardinality(s) <= n}

LEMMA PickedIsMember == \A s : s # {} => Picked(s) \in s
  BY DEF Picked

(* A function on the sets of at most n members extends to those of n + 1.  *)
LEMMA IterateExtends ==
  ASSUME NEW S, IsFiniteSet(S), NEW g, NEW n \in Nat, NEW h, Iterates(h, g, UpTo(S, n))
  PROVE  \E k : Iterates(k, g, UpTo(S, n + 1))
<1> DEFINE k == [s \in UpTo(S, n + 1) |->
                   IF s = {} THEN 0 ELSE g[Picked(s)] + h[s \ {Picked(s)}]]
<1>1. ASSUME NEW s \in UpTo(S, n + 1), s # {}
      PROVE  s \ {Picked(s)} \in UpTo(S, n) /\ s \ {Picked(s)} \in UpTo(S, n + 1)
  <2>1. IsFiniteSet(s) /\ Picked(s) \in s
    BY <1>1, FS_Subset, PickedIsMember DEF UpTo
  <2>2. Cardinality(s) \in Nat /\ Cardinality(s \ {Picked(s)}) = Cardinality(s) - 1
    BY <2>1, FS_CardinalityType, FS_RemoveElement
  <2> QED
    BY <2>2 DEF UpTo
<1>2. \A s \in UpTo(S, n) : k[s] = h[s] /\ s \in UpTo(S, n + 1)
  <2>1. \A s \in UpTo(S, n) : s \in UpTo(S, n + 1)
    <3> SUFFICES ASSUME NEW s \in UpTo(S, n) PROVE Cardinality(s) <= n + 1
      BY DEF UpTo
    <3>1. Cardinality(s) \in Nat
      BY FS_Subset, FS_CardinalityType DEF UpTo
    <3> QED
      BY <3>1 DEF UpTo
  <2>2. h = [s \in UpTo(S, n) |-> IF s = {} THEN 0 ELSE g[Picked(s)] + h[s \ {Picked(s)}]]
    BY DEF Iterates
  <2>3. \A s \in UpTo(S, n) : h[s] = IF s = {} THEN 0 ELSE g[Picked(s)] + h[s \ {Picked(s)}]
    BY ONLY <2>2
  <2> QED
    BY <2>1, <2>3
<1>3. k = [s \in UpTo(S, n + 1) |-> IF s = {} THEN 0 ELSE g[Picked(s)] + k[s \ {Picked(s)}]]
  BY <1>1, <1>2
<1> QED
  BY <1>3 DEF Iterates

LEMMA IterateExists ==
  ASSUME NEW S, IsFiniteSet(S), NEW g
  PROVE  \E h : Iterates(h, g, SUBSET S)
<1> DEFINE Good == {n \in Nat : \E h : Iterates(h, g, UpTo(S, n))}
<1>1. 0 \in Good
  <2>1. UpTo(S, 0) = {{}}
    <3>1. \A s \in SUBSET S : Cardinality(s) <= 0 <=> s = {}
      <4> TAKE s \in SUBSET S
      <4>1. IsFiniteSet(s) /\ Cardinality(s) \in Nat
        BY FS_Subset, FS_CardinalityType
      <4> QED
        BY <4>1, FS_EmptySet
    <3> QED
      BY <3>1 DEF UpTo
  <2>2. Iterates([s \in {{}} |-> 0], g, {{}})
    BY DEF Iterates
  <2> QED
    BY <2>1, <2>2
<1>2. \A n \in Nat : n \in Good => n + 1 \in Good
  BY IterateExtends
<1>3. \A n \in Nat : n \in Good
  <2> HIDE DEF Good
  <2> QED
    BY <1>1, <1>2, NumberInduction
<1>4. Cardinality(S) \in Nat /\ UpTo(S, Cardinality(S)) = SUBSET S
  BY FS_CardinalityType, FS_Subset DEF UpTo
<1> QED
  BY <1>3, <1>4

(* Where two such functions are both defined they agree.                   *)
LEMMA IteratesAgree ==
  ASSUME NEW S, IsFiniteSet(S), NEW A, NEW g,
         NEW h, Iterates(h, g, SUBSET A), NEW k, Iterates(k, g, SUBSET S)
  PROVE  S \subseteq A => h[S] = k[S]
<1> SUFFICES ASSUME S \subseteq A PROVE h[S] = k[S]
  OBVIOUS
<1> DEFINE Same == {T \in SUBSET S : h[T] = k[T]}
<1>1. /\ \A T \in SUBSET A : h[T] = IF T = {} THEN 0 ELSE g[Picked(T)] + h[T \ {Picked(T)}]
      /\ \A T \in SUBSET S : k[T] = IF T = {} THEN 0 ELSE g[Picked(T)] + k[T \ {Picked(T)}]
  BY DEF Iterates
<1>2. ASSUME NEW T \in SUBSET S, \A U \in SUBSET T : U # T => U \in Same
      PROVE  T \in Same
  <2>1. CASE T = {}
    BY <1>1, <2>1
  <2>2. CASE T # {}
    <3>1. Picked(T) \in T
      BY <2>2, PickedIsMember
    <3>2. T \ {Picked(T)} \in Same
      BY <1>2, <3>1
    <3> QED
      BY <1>1, <2>2, <3>2
  <2> QED
    BY <2>1, <2>2
<1>3. \A T \in SUBSET S : T \in Same
  <2> HIDE DEF Same
  <2> QED
    BY <1>2, SubsetInduction
<1> QED
  BY <1>3

Iter(g, S) == CHOOSE h : Iterates(h, g, SUBSET S)

LEMMA SumIsIter == ASSUME NEW g, NEW S PROVE SumFunctionOnSet(g, S) = Iter(g, S)[S]
  BY DEF SumFunctionOnSet, FoldFunctionOnSet, MapThenFoldSet, Iter, Iterates, Picked

LEMMA IterIterates ==
  ASSUME NEW S, IsFiniteSet(S), NEW g PROVE Iterates(Iter(g, S), g, SUBSET S)
  BY IterateExists DEF Iter

(* The sum over S is the sum over S without the member CHOOSE picks, and   *)
(* what g gives for that member.                                           *)
LEMMA SumUnfolds ==
  ASSUME NEW S, IsFiniteSet(S), NEW g
  PROVE  SumFunctionOnSet(g, S) =
           IF S = {} THEN 0
           ELSE g[Picked(S)] + SumFunctionOnSet(g, S \ {Picked(S)})
<1> DEFINE T == S \ {Picked(S)}
<1>1. IsFiniteSet(T)
  BY FS_Subset
<1>2. Iterates(Iter(g, S), g, SUBSET S) /\ Iterates(Iter(g, T), g, SUBSET T)
  BY <1>1, IterIterates
<1>3. Iter(g, S)[T] = Iter(g, T)[T]
  <2> HIDE DEF T
  <2> DEFINE h == Iter(g, S)
            k == Iter(g, T)
  <2>1. T \subseteq S
    BY DEF T
  <2>2. Iterates(h, g, SUBSET S) /\ Iterates(k, g, SUBSET T)
    BY <1>2
  <2> HIDE DEF h, k
  <2>3. h[T] = k[T]
    BY <1>1, <2>1, <2>2, IteratesAgree
  <2> QED
    BY <2>3 DEF h, k
<1>4. Iter(g, S)[S] = IF S = {} THEN 0 ELSE g[Picked(S)] + Iter(g, S)[T]
  BY <1>2 DEF Iterates
<1> QED
  BY <1>3, <1>4, SumIsIter

-----------------------------------------------------------------------------
(* What the sum is, without its order.                                     *)

(* A sum of integers is an integer, and any member can be taken out.       *)
LEMMA SumWithout ==
  ASSUME NEW S, IsFiniteSet(S), NEW g, \A x \in S : g[x] \in Int
  PROVE  /\ SumFunctionOnSet(g, S) \in Int
         /\ \A x \in S : SumFunctionOnSet(g, S) = g[x] + SumFunctionOnSet(g, S \ {x})
<1> DEFINE Sum(T) == SumFunctionOnSet(g, T)
           Fine == {T \in SUBSET S : /\ Sum(T) \in Int
                                     /\ \A x \in T : Sum(T) = g[x] + Sum(T \ {x})}
<1>1. \A T \in SUBSET S :
        Sum(T) = IF T = {} THEN 0 ELSE g[Picked(T)] + Sum(T \ {Picked(T)})
  BY FS_Subset, SumUnfolds
<1>2. ASSUME NEW T \in SUBSET S, \A U \in SUBSET T : U # T => U \in Fine
      PROVE  T \in Fine
  <2> HIDE DEF Sum
  <2>1. CASE T = {}
    BY <1>1, <2>1
  <2>2. CASE T # {}
    <3> DEFINE p == Picked(T)
    <3>1. p \in T
      BY <2>2, PickedIsMember
    <3> HIDE DEF p
    <3>2. Sum(T) = g[p] + Sum(T \ {p}) /\ Sum(T \ {p}) \in Int /\ g[p] \in Int
      <4>1. T \ {p} \in Fine
        BY <1>2, <3>1
      <4> QED
        BY <1>1, <2>2, <3>1, <4>1 DEF p
    <3>3. ASSUME NEW x \in T, x # p PROVE Sum(T) = g[x] + Sum(T \ {x})
      <4>1. T \ {p} \in Fine /\ T \ {x} \in Fine /\ (T \ {p}) \ {x} \in Fine
        BY <1>2, <3>1
      <4>2. Sum((T \ {p}) \ {x}) = Sum((T \ {x}) \ {p})
        <5>1. (T \ {p}) \ {x} = (T \ {x}) \ {p}
          OBVIOUS
        <5> QED
          BY <5>1, Zenon
      <4>3. Sum(T \ {p}) = g[x] + Sum((T \ {p}) \ {x})
        BY <3>3, <4>1
      <4>4. Sum(T \ {x}) = g[p] + Sum((T \ {x}) \ {p})
        BY <3>1, <3>3, <4>1
      <4>5. Sum((T \ {p}) \ {x}) \in Int /\ g[x] \in Int
        BY <4>1
      <4> QED
        BY <3>2, <4>2, <4>3, <4>4, <4>5
    <3>4. Sum(T) \in Int /\ \A x \in T : Sum(T) = g[x] + Sum(T \ {x})
      <4>1. ASSUME NEW x \in T PROVE Sum(T) = g[x] + Sum(T \ {x})
        <5>1. CASE x = p
          BY <3>2, <5>1, Zenon
        <5>2. CASE x # p
          BY <3>3, <5>2
        <5> QED
          BY <5>1, <5>2
      <4>2. Sum(T) \in Int
        BY <3>2
      <4> QED
        BY <4>1, <4>2
    <3> QED
      BY <3>4
  <2> QED
    BY <2>1, <2>2
<1>3. \A T \in SUBSET S : T \in Fine
  <2> HIDE DEF Fine
  <2> QED
    BY <1>2, SubsetInduction
<1> QED
  BY <1>3

LEMMA SumOfNone == ASSUME NEW g PROVE SumFunctionOnSet(g, {}) = 0
  BY FS_EmptySet, SumUnfolds

(* Functions that agree on the set have the same sum.                      *)
LEMMA SumSame ==
  ASSUME NEW S, IsFiniteSet(S), NEW g, NEW h,
         \A x \in S : g[x] \in Int /\ h[x] = g[x]
  PROVE  SumFunctionOnSet(h, S) = SumFunctionOnSet(g, S)
<1> DEFINE Same == {T \in SUBSET S : SumFunctionOnSet(h, T) = SumFunctionOnSet(g, T)}
<1>1. ASSUME NEW T \in SUBSET S, \A U \in SUBSET T : U # T => U \in Same
      PROVE  T \in Same
  <2>1. CASE T = {}
    BY <2>1, SumOfNone
  <2>2. CASE T # {}
    <3>1. PICK x \in T : TRUE
      BY <2>2
    <3>2. IsFiniteSet(T) /\ (\A y \in T : g[y] \in Int) /\ (\A y \in T : h[y] \in Int)
      BY FS_Subset
    <3>3. /\ SumFunctionOnSet(g, T) = g[x] + SumFunctionOnSet(g, T \ {x})
          /\ SumFunctionOnSet(h, T) = h[x] + SumFunctionOnSet(h, T \ {x})
      BY <3>1, <3>2, SumWithout
    <3>4. T \ {x} \in Same /\ h[x] = g[x]
      BY <1>1, <3>1
    <3> QED
      BY <3>3, <3>4
  <2> QED
    BY <2>1, <2>2
<1>2. \A T \in SUBSET S : T \in Same
  <2> HIDE DEF Same
  <2> QED
    BY <1>1, SubsetInduction
<1> QED
  BY <1>2

(* A change at one member changes the sum by as much.                      *)
LEMMA SumChange ==
  ASSUME NEW S, IsFiniteSet(S), NEW g, NEW h, NEW x \in S,
         \A y \in S : g[y] \in Int, h[x] \in Int,
         \A y \in S : y # x => h[y] = g[y]
  PROVE  SumFunctionOnSet(h, S) = SumFunctionOnSet(g, S) - g[x] + h[x]
<1>1. SumFunctionOnSet(g, S) \in Int /\ SumFunctionOnSet(g, S) = g[x] + SumFunctionOnSet(g, S \ {x})
  BY SumWithout
<1>2. \A y \in S : h[y] \in Int
  OBVIOUS
<1>3. SumFunctionOnSet(h, S) \in Int /\ SumFunctionOnSet(h, S) = h[x] + SumFunctionOnSet(h, S \ {x})
  BY <1>2, SumWithout
<1>4. IsFiniteSet(S \ {x}) /\ \A y \in S \ {x} : g[y] \in Int /\ h[y] = g[y]
  BY FS_Subset
<1>5. SumFunctionOnSet(h, S \ {x}) = SumFunctionOnSet(g, S \ {x})
  BY <1>4, SumSame
<1>6. SumFunctionOnSet(g, S \ {x}) \in Int
  BY <1>4, SumWithout
<1> QED
  BY <1>1, <1>3, <1>5, <1>6

(* One more member adds what the function gives for it.                    *)
LEMMA SumWith ==
  ASSUME NEW S, IsFiniteSet(S), NEW g, NEW x, x \notin S,
         \A y \in S \cup {x} : g[y] \in Int
  PROVE  SumFunctionOnSet(g, S \cup {x}) = SumFunctionOnSet(g, S) + g[x]
<1>1. IsFiniteSet(S \cup {x}) /\ (S \cup {x}) \ {x} = S
  BY FS_AddElement
<1>2. SumFunctionOnSet(g, S \cup {x}) = g[x] + SumFunctionOnSet(g, S) /\ SumFunctionOnSet(g, S) \in Int
  BY <1>1, SumWithout
<1> QED
  BY <1>2

(* A sum that is nowhere larger is not larger.                             *)
LEMMA SumOrdered ==
  ASSUME NEW S, IsFiniteSet(S), NEW g, NEW h,
         \A x \in S : g[x] \in Int /\ h[x] \in Int /\ g[x] <= h[x]
  PROVE  SumFunctionOnSet(g, S) <= SumFunctionOnSet(h, S)
<1> DEFINE Below == {T \in SUBSET S : SumFunctionOnSet(g, T) <= SumFunctionOnSet(h, T)}
<1>1. ASSUME NEW T \in SUBSET S, \A U \in SUBSET T : U # T => U \in Below
      PROVE  T \in Below
  <2>1. CASE T = {}
    BY <2>1, SumOfNone
  <2>2. CASE T # {}
    <3>1. PICK x \in T : TRUE
      BY <2>2
    <3>2. /\ IsFiniteSet(T) /\ (\A y \in T : g[y] \in Int) /\ (\A y \in T : h[y] \in Int)
          /\ IsFiniteSet(T \ {x}) /\ (\A y \in T \ {x} : g[y] \in Int) /\ (\A y \in T \ {x} : h[y] \in Int)
      BY FS_Subset
    <3>3. /\ SumFunctionOnSet(g, T) = g[x] + SumFunctionOnSet(g, T \ {x})
          /\ SumFunctionOnSet(h, T) = h[x] + SumFunctionOnSet(h, T \ {x})
          /\ SumFunctionOnSet(g, T \ {x}) \in Int /\ SumFunctionOnSet(h, T \ {x}) \in Int
      BY <3>1, <3>2, SumWithout
    <3>4. T \ {x} \in Below /\ g[x] \in Int /\ h[x] \in Int /\ g[x] <= h[x]
      BY <1>1, <3>1
    <3>5. SumFunctionOnSet(g, T \ {x}) <= SumFunctionOnSet(h, T \ {x})
      BY <3>4
    <3>6. SumFunctionOnSet(g, T) <= SumFunctionOnSet(h, T)
      BY <3>3, <3>4, <3>5
    <3> QED
      BY <3>6
  <2> QED
    BY <2>1, <2>2
<1>2. \A T \in SUBSET S : T \in Below
  <2> HIDE DEF Below
  <2> QED
    BY <1>1, SubsetInduction
<1> QED
  BY <1>2

LEMMA SumOfZeros ==
  ASSUME NEW S, IsFiniteSet(S), NEW g, \A x \in S : g[x] = 0
  PROVE  SumFunctionOnSet(g, S) = 0
<1> DEFINE Zero == {T \in SUBSET S : SumFunctionOnSet(g, T) = 0}
<1>1. ASSUME NEW T \in SUBSET S, \A U \in SUBSET T : U # T => U \in Zero
      PROVE  T \in Zero
  <2>1. CASE T = {}
    BY <2>1, SumOfNone
  <2>2. CASE T # {}
    <3>1. PICK x \in T : TRUE
      BY <2>2
    <3>2. IsFiniteSet(T) /\ \A y \in T : g[y] \in Int
      BY FS_Subset
    <3>3. SumFunctionOnSet(g, T) = g[x] + SumFunctionOnSet(g, T \ {x})
      BY <3>1, <3>2, SumWithout
    <3>4. T \ {x} \in Zero /\ g[x] = 0
      BY <1>1, <3>1
    <3> QED
      BY <3>3, <3>4
  <2> QED
    BY <2>1, <2>2
<1>2. \A T \in SUBSET S : T \in Zero
  <2> HIDE DEF Zero
  <2> QED
    BY <1>1, SubsetInduction
<1> QED
  BY <1>2

(* A sum of natural numbers is one, and no member has more than the sum.   *)
LEMMA SumOfNats ==
  ASSUME NEW S, IsFiniteSet(S), NEW g, \A x \in S : g[x] \in Nat
  PROVE  /\ SumFunctionOnSet(g, S) \in Nat
         /\ \A x \in S : g[x] <= SumFunctionOnSet(g, S)
<1> DEFINE zero == [x \in S |-> 0]
<1>1. ASSUME NEW T \in SUBSET S PROVE SumFunctionOnSet(g, T) \in Nat
  <2>1. IsFiniteSet(T) /\ \A x \in T : g[x] \in Int /\ zero[x] \in Int /\ zero[x] <= g[x] /\ zero[x] = 0
    BY FS_Subset
  <2> HIDE DEF zero
  <2>2. SumFunctionOnSet(zero, T) = 0 /\ SumFunctionOnSet(g, T) \in Int
    BY <2>1, SumOfZeros, SumWithout
  <2>3. SumFunctionOnSet(zero, T) <= SumFunctionOnSet(g, T)
    BY <2>1, SumOrdered
  <2> QED
    BY <2>2, <2>3
<1>2. ASSUME NEW x \in S PROVE g[x] <= SumFunctionOnSet(g, S)
  <2>1. SumFunctionOnSet(g, S) = g[x] + SumFunctionOnSet(g, S \ {x})
    BY SumWithout
  <2> QED
    BY <1>1, <2>1
<1> QED
  BY <1>1, <1>2

(* A part of a set of natural numbers has no larger sum.                   *)
LEMMA SumOfSubset ==
  ASSUME NEW S, IsFiniteSet(S), NEW g, \A x \in S : g[x] \in Nat
  PROVE  \A A \in SUBSET S : SumFunctionOnSet(g, A) <= SumFunctionOnSet(g, S)
<1> DEFINE Sum(T) == SumFunctionOnSet(g, T)
           Bounds == {T \in SUBSET S : \A A \in SUBSET T : Sum(A) <= Sum(T)}
<1>1. ASSUME NEW T \in SUBSET S, \A U \in SUBSET T : U # T => U \in Bounds
      PROVE  T \in Bounds
  <2>1. ASSUME NEW A \in SUBSET T PROVE Sum(A) <= Sum(T)
    <3>1. IsFiniteSet(T) /\ (\A y \in T : g[y] \in Nat) /\ (\A y \in T : g[y] \in Int)
      BY FS_Subset
    <3>2. Sum(T) \in Nat /\ (\A y \in T : Sum(T) = g[y] + Sum(T \ {y}))
      BY ONLY <3>1, SumOfNats, SumWithout
    <3>3. CASE A = T
      BY <3>2, <3>3
    <3>4. CASE A # T
      <4>1. PICK x \in T : x \notin A
        BY <3>4
      <4>2. T \ {x} \in Bounds /\ A \in SUBSET (T \ {x})
        BY <1>1, <4>1
      <4>3. Sum(A) <= Sum(T \ {x})
        BY <4>2
      <4>4. IsFiniteSet(T \ {x}) /\ (\A y \in T \ {x} : g[y] \in Nat) /\ IsFiniteSet(A)
            /\ (\A y \in A : g[y] \in Nat)
        BY <3>1, FS_Subset
      <4>5. Sum(T \ {x}) \in Nat /\ Sum(A) \in Nat /\ g[x] \in Nat /\ Sum(T) = g[x] + Sum(T \ {x})
        BY <3>1, <3>2, <4>1, <4>4, SumOfNats
      <4> QED
        BY ONLY <3>2, <4>3, <4>5
    <3> QED
      BY <3>3, <3>4
  <2> QED
    BY <2>1
<1>2. \A T \in SUBSET S : T \in Bounds
  <2> HIDE DEF Bounds
  <2> QED
    BY <1>1, SubsetInduction
<1> QED
  BY <1>2

\* A function that is the same everywhere is summed by multiplying.
LEMMA SumOfConstant ==
  ASSUME NEW S, IsFiniteSet(S), NEW c \in Int, NEW g, \A x \in S : g[x] = c
  PROVE  SumFunctionOnSet(g, S) = c * Cardinality(S)
<1> DEFINE Fine == {T \in SUBSET S : SumFunctionOnSet(g, T) = c * Cardinality(T)}
<1>1. ASSUME NEW T \in SUBSET S, \A U \in SUBSET T : U # T => U \in Fine
      PROVE  T \in Fine
  <2>1. CASE T = {}
    BY <2>1, SumOfNone, FS_EmptySet
  <2>2. CASE T # {}
    <3>1. PICK x \in T : TRUE
      BY <2>2
    <3>2. IsFiniteSet(T) /\ \A y \in T : g[y] \in Int
      BY FS_Subset
    <3>3. SumFunctionOnSet(g, T) = g[x] + SumFunctionOnSet(g, T \ {x})
      BY <3>1, <3>2, SumWithout
    <3>4. Cardinality(T) \in Nat /\ Cardinality(T \ {x}) = Cardinality(T) - 1
      BY <3>1, <3>2, FS_CardinalityType, FS_RemoveElement
    <3>5. T \ {x} \in Fine /\ g[x] = c
      BY <1>1, <3>1
    <3>6. c + c * (Cardinality(T) - 1) = c * Cardinality(T)
      BY <3>4
    <3> QED
      BY <3>3, <3>4, <3>5, <3>6
  <2> QED
    BY <2>1, <2>2
<1>2. \A T \in SUBSET S : T \in Fine
  <2> HIDE DEF Fine
  <2> QED
    BY <1>1, SubsetInduction
<1> QED
  BY <1>2
=============================================================================
