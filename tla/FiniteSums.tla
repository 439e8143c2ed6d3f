------------------------------ MODULE FiniteSums ------------------------------
(***************************************************************************)
(* Induction over numbers and finite sets, and with it what is needed of   *)
(* sums over finite sets.  The library's induction theorems take an        *)
(* operator; here the numbers or sets for which something holds are a set. *)
(***************************************************************************)
EXTENDS Integers, FiniteSets, Functions, FiniteSetTheorems, WellFoundedInduction, TLAPS

-------------------------------------------------------------------------------
(* Induction                                                               *)

\* A set of natural numbers that is not empty has a least element
LEMMA LeastNat ==
    ASSUME NEW T, T \subseteq Nat, T # {} PROVE \E x \in T : \A y \in T : x <= y
<1> DEFINE below(n) == 0 .. (n - 1)
           B == {below(n) : n \in T}
<1>1. /\ IsWellFoundedOn(StrictSubsetOrdering(Nat), FiniteSubsetsOf(Nat))
    BY FS_StrictSubsetOrderingWellFounded
<1>2. B \subseteq FiniteSubsetsOf(Nat) /\ B # {}
    <2>1. ASSUME NEW n \in T PROVE below(n) \in FiniteSubsetsOf(Nat)
        <3>1. n \in Nat
            OBVIOUS
        <3>2. IsFiniteSet(0 .. (n - 1))
            BY <3>1, FS_Interval
        <3>3. 0 .. (n - 1) \subseteq Nat
            BY <3>1
        <3> QED
            BY <3>2, <3>3 DEF FiniteSubsetsOf
    <2> QED
        BY <2>1
<1>3. \E x \in B : \A y \in B : ~(<<y, x>> \in StrictSubsetOrdering(Nat))
    BY <1>1, <1>2, WFMin
<1>4. PICK n \in T : \A m \in T : ~(<<below(m), below(n)>> \in StrictSubsetOrdering(Nat))
    BY <1>3
<1>5. ASSUME NEW m \in T, m < n PROVE FALSE
    <2>1. m \in Nat /\ n \in Nat
        OBVIOUS
    <2>2. below(m) \subseteq below(n) /\ m \in below(n) /\ m \notin below(m) /\ below(n) \subseteq Nat
        BY <1>5, <2>1
    <2>3. <<below(m), below(n)>> \in StrictSubsetOrdering(Nat)
        BY <2>2 DEF StrictSubsetOrdering
    <2> QED
        BY <1>4, <2>3
<1> QED
    BY <1>5

\* Induction up to n, for the numbers in a set
LEMMA InductionTo ==
    ASSUME NEW n \in Nat, NEW T, 0 \in T, \A i \in T : i \in Nat /\ i < n => i + 1 \in T
    PROVE  0 .. n \subseteq T
<1> DEFINE Out == (0 .. n) \ T
<1>1. SUFFICES ASSUME Out # {} PROVE FALSE
    OBVIOUS
<1>2. Out \subseteq Nat
    OBVIOUS
<1>3. PICK x \in Out : \A y \in Out : x <= y
    BY <1>1, <1>2, LeastNat
<1>4. x \in Nat /\ x # 0 /\ x <= n
    OBVIOUS
<1>5. x - 1 \in Nat /\ x - 1 < n /\ x - 1 \notin Out
    BY <1>3, <1>4
<1>6. x - 1 \in T
    BY <1>4, <1>5
<1>7. (x - 1) + 1 \in T
    BY <1>5, <1>6
<1> QED
    BY <1>4, <1>7

\* A set of finite sets has one that no other is a proper subset of
LEMMA SmallestSet ==
    ASSUME NEW S, IsFiniteSet(S), NEW C, C \subseteq SUBSET S, C # {}
    PROVE  \E T \in C : \A U \in C : U \subseteq T => U = T
<1>1. IsWellFoundedOn(StrictSubsetOrdering(S), FiniteSubsetsOf(S))
    BY FS_StrictSubsetOrderingWellFounded
<1>2. C \subseteq FiniteSubsetsOf(S)
    BY FS_Subset DEF FiniteSubsetsOf
<1>3. PICK T \in C : \A U \in C : ~(<<U, T>> \in StrictSubsetOrdering(S))
    BY <1>1, <1>2, WFMin
<1>4. ASSUME NEW U \in C, U \subseteq T, U # T PROVE FALSE
    <2>1. <<U, T>> \in StrictSubsetOrdering(S)
        BY <1>4 DEF StrictSubsetOrdering
    <2> QED
        BY <1>3, <2>1
<1> QED
    BY <1>4

-------------------------------------------------------------------------------
(* Sums                                                                    *)

Chosen(T) == CHOOSE x \in T : TRUE

\* Chosen(T) is an element of T
LEMMA ChosenIn == ASSUME NEW T, T # {} PROVE Chosen(T) \in T
    BY DEF Chosen

\* g is the sum of f over the subsets of S, as the library defines it
IsSums(g, f, S) ==
    g = [T \in SUBSET S |-> IF T = {} THEN 0 ELSE f[Chosen(T)] + g[T \ {Chosen(T)}]]

\* The sums of f over the subsets of S are those of g
AreSums(g, f, S) == IsSums(g, f, S) /\ \A T \in SUBSET S : SumFunctionOnSet(f, T) = g[T]

\* SumFunctionOnSet is such a g at S
LEMMA SumIs ==
    ASSUME NEW f, NEW S PROVE SumFunctionOnSet(f, S) = (CHOOSE g : IsSums(g, f, S))[S]
BY Zenon DEF SumFunctionOnSet, FoldFunctionOnSet, MapThenFoldSet, IsSums, Chosen

\* There is one, for a finite set
LEMMA SumsExist ==
    ASSUME NEW D, NEW f \in [D -> Int], NEW S \in SUBSET D, IsFiniteSet(S)
    PROVE  \E g \in [SUBSET S -> Int] : IsSums(g, f, S)
<1> DEFINE rhs(g, T) == IF T = {} THEN 0 ELSE f[Chosen(T)] + g[T \ {Chosen(T)}]
           Upto(n, g) == \A T \in SUBSET S : Cardinality(T) <= n => g[T] = rhs(g, T)
           N == {n \in Nat : \E g \in [SUBSET S -> Int] : Upto(n, g)}
<1>0. \A T \in SUBSET S : IsFiniteSet(T) /\ Cardinality(T) \in Nat
    BY FS_Subset, FS_CardinalityType
<1>1. 0 \in N
    <2> DEFINE g == [T \in SUBSET S |-> 0]
    <2>1. g \in [SUBSET S -> Int]
        OBVIOUS
    <2>2. ASSUME NEW T \in SUBSET S, Cardinality(T) <= 0 PROVE g[T] = rhs(g, T)
        <3>1. T = {}
            BY <1>0, <2>2, FS_EmptySet
        <3> QED
            BY <3>1
    <2> QED
        BY <2>1, <2>2
<1>2. ASSUME NEW n \in N PROVE n + 1 \in N
    <2>1. PICK g \in [SUBSET S -> Int] : Upto(n, g)
        OBVIOUS
    <2> DEFINE h == [T \in SUBSET S |-> IF Cardinality(T) = n + 1 THEN rhs(g, T) ELSE g[T]]
    <2>2. ASSUME NEW T \in SUBSET S, T # {}
          PROVE  /\ Chosen(T) \in T /\ T \ {Chosen(T)} \in SUBSET S
                 /\ Cardinality(T \ {Chosen(T)}) = Cardinality(T) - 1
        BY <1>0, <2>2, ChosenIn, FS_RemoveElement
    <2>3. \A T \in SUBSET S : rhs(g, T) \in Int
        <3>1. ASSUME NEW T \in SUBSET S, T # {} PROVE rhs(g, T) \in Int
            <4>1. f[Chosen(T)] \in Int /\ g[T \ {Chosen(T)}] \in Int
                BY <2>2, <3>1
            <4> QED
                BY <3>1, <4>1
        <3> QED
            BY <3>1
    <2>4. h \in [SUBSET S -> Int]
        BY <2>3
    <2>5. ASSUME NEW T \in SUBSET S, Cardinality(T) <= n + 1 PROVE h[T] = rhs(h, T)
        <3>1. CASE T = {}
            <4>1. Cardinality(T) = 0
                BY <3>1, FS_EmptySet
            <4>2. Cardinality(T) # n + 1 /\ Cardinality(T) <= n
                BY <4>1
            <4>3. h[T] = g[T] /\ g[T] = rhs(g, T)
                BY <4>2, <2>1
            <4> QED
                BY <4>3, <3>1
        <3>2. CASE T # {}
            <4>1. /\ Cardinality(T \ {Chosen(T)}) # n + 1 /\ T \ {Chosen(T)} \in SUBSET S
                BY <1>0, <2>2, <2>5, <3>2
            <4>2. h[T \ {Chosen(T)}] = g[T \ {Chosen(T)}]
                BY <4>1
            <4>3. rhs(h, T) = rhs(g, T)
                BY <4>2
            <4>4. h[T] = rhs(g, T)
                <5>1. CASE Cardinality(T) = n + 1
                    BY <5>1
                <5>2. CASE Cardinality(T) # n + 1
                    <6>1. Cardinality(T) <= n
                        BY <1>0, <2>5, <5>2
                    <6>2. g[T] = rhs(g, T)
                        BY <6>1, <2>1
                    <6>3. h[T] = g[T]
                        BY <5>2
                    <6> QED
                        BY <6>2, <6>3
                <5> QED
                    BY <5>1, <5>2
            <4> QED
                BY <4>3, <4>4
        <3> QED
            BY <3>1, <3>2
    <2>6. Upto(n + 1, h)
        BY <2>5
    <2>7. n + 1 \in Nat
        OBVIOUS
    <2> HIDE DEF Upto, h
    <2> QED
        BY <2>4, <2>6, <2>7
<1>3. Cardinality(S) \in N
    <2>1. Cardinality(S) \in Nat
        BY <1>0
    <2> HIDE DEF N
    <2>2. 0 .. Cardinality(S) \subseteq N
        BY <1>1, <1>2, <2>1, InductionTo
    <2> QED
        BY <2>1, <2>2
<1>4. PICK g \in [SUBSET S -> Int] : Upto(Cardinality(S), g)
    BY <1>3
<1>5. ASSUME NEW T \in SUBSET S PROVE g[T] = rhs(g, T)
    <2>1. Cardinality(T) <= Cardinality(S)
        BY FS_Subset
    <2> QED
        BY <1>4, <2>1
<1>6. IsSums(g, f, S)
    <2> HIDE DEF rhs
    <2>1. g = [T \in SUBSET S |-> g[T]]
        OBVIOUS
    <2>2. g = [T \in SUBSET S |-> rhs(g, T)]
        BY <1>5, <2>1
    <2> QED
        BY <2>2 DEF IsSums, rhs
<1> QED
    BY <1>6

\* Two such agree on the sets that both have
LEMMA SumsUnique ==
    ASSUME NEW f, NEW S, NEW R, IsFiniteSet(R), R \subseteq S,
           NEW g, NEW h, IsSums(g, f, S), IsSums(h, f, R)
    PROVE  g[R] = h[R]
<1> DEFINE C == {T \in SUBSET R : g[T] # h[T]}
<1>1. SUFFICES ASSUME C # {} PROVE FALSE
    OBVIOUS
<1>a. C \subseteq SUBSET R
    OBVIOUS
<1>2. PICK T \in C : \A U \in C : U \subseteq T => U = T
    <2> HIDE DEF C
    <2> QED
        BY <1>1, <1>a, SmallestSet
<1>3. T # {}
    BY DEF IsSums
<1>4. Chosen(T) \in T
    BY <1>3, ChosenIn
<1>5. g[T \ {Chosen(T)}] = h[T \ {Chosen(T)}]
    BY <1>2, <1>4
<1>6. T \in SUBSET S /\ T \in SUBSET R
    OBVIOUS
<1>7. g[T] = f[Chosen(T)] + g[T \ {Chosen(T)}]
    BY <1>3, <1>6 DEF IsSums
<1>8. h[T] = f[Chosen(T)] + h[T \ {Chosen(T)}]
    BY <1>3, <1>6 DEF IsSums
<1> QED
    BY <1>5, <1>7, <1>8

\* The sums over the subsets of a finite set are one function
LEMMA SumsOfSubsets ==
    ASSUME NEW D, NEW f \in [D -> Int], NEW S \in SUBSET D, IsFiniteSet(S)
    PROVE  \E g \in [SUBSET S -> Int] : AreSums(g, f, S)
<1>1. PICK g \in [SUBSET S -> Int] : IsSums(g, f, S)
    BY SumsExist
<1>2. ASSUME NEW T \in SUBSET S PROVE SumFunctionOnSet(f, T) = g[T]
    <2>1. IsFiniteSet(T)
        BY FS_Subset
    <2>2. \E h : IsSums(h, f, T)
        BY <2>1, SumsExist
    <2>3. IsSums(CHOOSE h : IsSums(h, f, T), f, T)
        BY <2>2
    <2>4. PICK k : k = (CHOOSE h : IsSums(h, f, T))
        OBVIOUS
    <2>5. IsSums(k, f, T)
        BY <2>3, <2>4
    <2>6. g[T] = k[T]
        BY <1>1, <2>1, <2>5, SumsUnique
    <2> QED
        BY <2>4, <2>6, SumIs
<1> QED
    BY <1>1, <1>2 DEF AreSums

\* The sum over a set, from the sum without one of its elements
LEMMA SumRemove ==
    ASSUME NEW D, NEW f \in [D -> Int], NEW S \in SUBSET D, IsFiniteSet(S)
    PROVE  /\ SumFunctionOnSet(f, S) \in Int
           /\ SumFunctionOnSet(f, {}) = 0
           /\ \A x \in S : SumFunctionOnSet(f, S) = f[x] + SumFunctionOnSet(f, S \ {x})
<1>0. PICK g \in [SUBSET S -> Int] : AreSums(g, f, S)
    BY SumsOfSubsets
<1>1. /\ IsSums(g, f, S)
      /\ \A T \in SUBSET S : SumFunctionOnSet(f, T) = g[T]
    BY <1>0 DEF AreSums
<1>2. g[{}] = 0 /\ S \in SUBSET S /\ {} \in SUBSET S
    BY <1>1 DEF IsSums
<1>3. ASSUME NEW T \in SUBSET S, T # {} PROVE g[T] = f[Chosen(T)] + g[T \ {Chosen(T)}] /\ Chosen(T) \in T
    BY <1>1, <1>3, ChosenIn DEF IsSums
<1> DEFINE C == {T \in SUBSET S : \E x \in T : g[T] # f[x] + g[T \ {x}]}
<1>4. ASSUME C # {} PROVE FALSE
    <2>1. PICK T \in C : \A U \in C : U \subseteq T => U = T
        <3>1. C \subseteq SUBSET S
            OBVIOUS
        <3> HIDE DEF C
        <3> QED
            BY <1>4, <3>1, SmallestSet
    <2>2. PICK x \in T : g[T] # f[x] + g[T \ {x}]
        OBVIOUS
    <2>3. PICK c : c = Chosen(T)
        OBVIOUS
    <2>4. T \in SUBSET S /\ g[T] = f[c] + g[T \ {c}] /\ c \in T /\ c # x
        BY <1>3, <2>2, <2>3
    <2>5. T \ {c} \notin C /\ T \ {x} \notin C
        BY <2>1, <2>4, <2>2
    <2>6. g[T \ {c}] = f[x] + g[(T \ {c}) \ {x}]
        BY <2>4, <2>5
    <2>7. g[T \ {x}] = f[c] + g[(T \ {x}) \ {c}]
        BY <2>4, <2>5
    <2>8. (T \ {c}) \ {x} = (T \ {x}) \ {c} /\ (T \ {c}) \ {x} \in SUBSET S
        BY <2>4
    <2>9. f[c] \in Int /\ f[x] \in Int /\ g[(T \ {c}) \ {x}] \in Int
        BY <2>4, <2>8
    <2>10. PICK r \in Int : r = g[(T \ {c}) \ {x}]
        BY <2>9
    <2>11. g[T] = f[c] + (f[x] + r)
        BY <2>4, <2>6, <2>10
    <2>12. g[T \ {x}] = f[c] + r
        BY <2>7, <2>8, <2>10
    <2> HIDE DEF C
    <2>13. f[c] + (f[x] + r) = f[x] + (f[c] + r)
        BY <2>9
    <2> QED
        BY <2>2, <2>11, <2>12, <2>13
<1>5. ASSUME NEW x \in S PROVE g[S] = f[x] + g[S \ {x}]
    BY <1>2, <1>4
<1> QED
    BY <1>1, <1>2, <1>5

\* Functions that agree on a set have the same sum over it
LEMMA SumSame ==
    ASSUME NEW D, NEW f \in [D -> Int], NEW g \in [D -> Int], NEW S \in SUBSET D, IsFiniteSet(S),
           \A x \in S : f[x] = g[x]
    PROVE  SumFunctionOnSet(f, S) = SumFunctionOnSet(g, S)
<1> DEFINE C == {T \in SUBSET S : SumFunctionOnSet(f, T) # SumFunctionOnSet(g, T)}
<1>1. SUFFICES ASSUME C # {} PROVE FALSE
    OBVIOUS
<1>a. C \subseteq SUBSET S
    OBVIOUS
<1>2. PICK T \in C : \A U \in C : U \subseteq T => U = T
    <2> HIDE DEF C
    <2> QED
        BY <1>1, <1>a, SmallestSet
<1>3. IsFiniteSet(T) /\ T \in SUBSET D
    BY FS_Subset
<1>4. T # {}
    BY <1>3, SumRemove
<1>5. PICK x \in T : TRUE
    BY <1>4
<1>6. T \ {x} \notin C
    BY <1>2
<1>7. SumFunctionOnSet(f, T \ {x}) = SumFunctionOnSet(g, T \ {x})
    BY <1>6
<1>8. SumFunctionOnSet(f, T) = f[x] + SumFunctionOnSet(f, T \ {x})
    BY <1>3, SumRemove
<1>9. SumFunctionOnSet(g, T) = g[x] + SumFunctionOnSet(g, T \ {x})
    BY <1>3, SumRemove
<1> QED
    BY <1>7, <1>8, <1>9

\* One place of the function changes
LEMMA SumChange ==
    ASSUME NEW S, IsFiniteSet(S), NEW f \in [S -> Int], NEW g \in [S -> Int], NEW x \in S,
           \A y \in S \ {x} : g[y] = f[y]
    PROVE  SumFunctionOnSet(g, S) = SumFunctionOnSet(f, S) - f[x] + g[x]
<1>1. IsFiniteSet(S \ {x}) /\ S \ {x} \in SUBSET S /\ S \in SUBSET S
    BY FS_RemoveElement
<1>2. SumFunctionOnSet(f, S \ {x}) = SumFunctionOnSet(g, S \ {x})
    BY <1>1, SumSame
<1>3. SumFunctionOnSet(f, S) = f[x] + SumFunctionOnSet(f, S \ {x})
    BY <1>1, SumRemove
<1>4. SumFunctionOnSet(g, S) = g[x] + SumFunctionOnSet(g, S \ {x})
    BY <1>1, SumRemove
<1>5. SumFunctionOnSet(f, S \ {x}) \in Int
    BY <1>1, SumRemove
<1>6. f[x] \in Int /\ g[x] \in Int
    OBVIOUS
<1> QED
    BY <1>2, <1>3, <1>4, <1>5, <1>6

\* The sum of zeros
LEMMA SumZero ==
    ASSUME NEW S, IsFiniteSet(S), NEW f \in [S -> Int], \A x \in S : f[x] = 0
    PROVE  SumFunctionOnSet(f, S) = 0
<1> DEFINE C == {T \in SUBSET S : SumFunctionOnSet(f, T) # 0}
<1>1. SUFFICES ASSUME C # {} PROVE FALSE
    OBVIOUS
<1>a. C \subseteq SUBSET S
    OBVIOUS
<1>2. PICK T \in C : \A U \in C : U \subseteq T => U = T
    <2> HIDE DEF C
    <2> QED
        BY <1>1, <1>a, SmallestSet
<1>3. IsFiniteSet(T) /\ T \in SUBSET S
    BY FS_Subset
<1>4. T # {}
    BY <1>3, SumRemove
<1>5. PICK x \in T : TRUE
    BY <1>4
<1>6. SumFunctionOnSet(f, T \ {x}) = 0
    BY <1>2
<1>7. SumFunctionOnSet(f, T) = f[x] + SumFunctionOnSet(f, T \ {x})
    BY <1>3, SumRemove
<1> QED
    BY <1>6, <1>7

-------------------------------------------------------------------------------
(* Counting                                                                *)

One(b) == IF b THEN 1 ELSE 0

\* Sets that differ at x only
LEMMA CountChange ==
    ASSUME NEW A, NEW B, NEW x, IsFiniteSet(A), A \ {x} = B \ {x}
    PROVE  /\ IsFiniteSet(B) /\ Cardinality(A) \in Nat /\ Cardinality(B) \in Nat
           /\ Cardinality(B) = Cardinality(A) - One(x \in A) + One(x \in B)
<1>1. IsFiniteSet(A \ {x}) /\ Cardinality(A \ {x}) = Cardinality(A) - One(x \in A)
    BY FS_RemoveElement, FS_CardinalityType DEF One
<1>2. Cardinality(A) \in Nat /\ Cardinality(A \ {x}) \in Nat
    BY <1>1, FS_CardinalityType
<1>3. CASE x \in B
    <2>1. B = (A \ {x}) \cup {x}
        BY <1>3
    <2>2. IsFiniteSet((A \ {x}) \cup {x}) /\ Cardinality((A \ {x}) \cup {x}) = Cardinality(A \ {x}) + 1
        BY <1>1, FS_AddElement
    <2> QED
        BY <1>1, <1>2, <1>3, <2>1, <2>2 DEF One
<1>4. CASE x \notin B
    <2>1. B = A \ {x}
        BY <1>4
    <2> QED
        BY <1>1, <1>2, <1>4, <2>1 DEF One
<1> QED
    BY <1>3, <1>4

\* A set with an element has a positive cardinality
LEMMA CountPositive ==
    ASSUME NEW A, NEW x \in A, IsFiniteSet(A) PROVE Cardinality(A) \in Nat /\ Cardinality(A) >= 1
BY FS_CardinalityType, FS_EmptySet
===============================================================================
