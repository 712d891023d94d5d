------------------------------- MODULE Tally -------------------------------
(***************************************************************************)
(* A counter that is kept equal to the size of a set: what steps keep it   *)
(* so.  The counters of the listeners and of the balancer are proved exact *)
(* by it.  And sums of a function over a finite set: how they follow the   *)
(* function and the set, for the bytes and attempts that are counted by    *)
(* bucket.                                                                 *)
(***************************************************************************)
EXTENDS FiniteSets, FiniteSetsExt, Integers, FiniteSetTheorems, WellFoundedInduction, TLAPS

\* n counts S.
Counts(n, S) == IsFiniteSet(S) /\ n = Cardinality(S)

\* The counter follows the set, one element at a time.
Follows(n, S, m, T) ==
    \/ T = S /\ m = n
    \/ \E x : x \notin S /\ T = S \union {x} /\ m = n + 1
    \/ \E x \in S : T = S \ {x} /\ m = n - 1

\* A counter that counts a set is a natural number, zero for the empty set only.
LEMMA CountIsNatural ==
    ASSUME NEW n, NEW S, Counts(n, S)
    PROVE  n \in Nat /\ (n = 0 <=> S = {}) /\ (S # {} => n - 1 \in Nat)
<1>1. n \in Nat
    BY FS_CardinalityType DEF Counts
<1>2. n = 0 <=> S = {}
    BY FS_EmptySet DEF Counts
<1>. QED  BY <1>1, <1>2

\* A counter that follows its set goes on to count it.
LEMMA FollowingCounts ==
    ASSUME NEW n, NEW S, NEW m, NEW T, Counts(n, S), Follows(n, S, m, T)
    PROVE  Counts(m, T)
<1>1. CASE T = S /\ m = n
    BY <1>1
<1>2. ASSUME NEW x, x \notin S, T = S \union {x}, m = n + 1
      PROVE  Counts(m, T)
    BY <1>2, FS_AddElement DEF Counts
<1>3. ASSUME NEW x \in S, T = S \ {x}, m = n - 1
      PROVE  Counts(m, T)
    BY <1>3, FS_RemoveElement DEF Counts
<1>. QED  BY <1>1, <1>2, <1>3 DEF Follows

-----------------------------------------------------------------------------
(* Sums *)

\* The element the sum takes out first.
AnyOf(s) == CHOOSE x \in s : TRUE

\* The sum of a function over a set, as the community modules define it.
SumOver(f, S) == MapThenSumSet(LAMBDA x : f[x], S)

\* g sums f over the subsets of S.
IsSum(g, f, S) ==
    g = [s \in SUBSET S |-> IF s = {} THEN 0 ELSE f[AnyOf(s)] + g[s \ {AnyOf(s)}]]

\* What a function that sums f must be at s.
Partial(g, f, s) == IF s = {} THEN 0 ELSE f[AnyOf(s)] + g[s \ {AnyOf(s)}]

\* It is the value of the function that sums subset by subset.
LEMMA SumUnfolds ==
    ASSUME NEW f, NEW S
    PROVE  SumOver(f, S) = (CHOOSE g : IsSum(g, f, S))[S]
BY DEF SumOver, MapThenSumSet, MapThenFoldSet, IsSum, AnyOf

\* Of natural numbers there is a least one: what induction rests on here.
LEMMA LeastNumber ==
    ASSUME NEW N \in SUBSET Nat, N # {}
    PROVE  \E n \in N : \A m \in N : n <= m
<1> DEFINE Less == {ss \in Nat \X Nat : ss[1] < ss[2]}
<1>1. IsWellFoundedOn(Less, Nat)
    BY NatLessThanWellFounded DEF OpToRel
<1> HIDE DEF Less
<1>2. PICK n \in N : \A m \in N : <<m, n>> \notin Less
    BY <1>1, WFMin
<1>3. ASSUME NEW m \in N PROVE n <= m
    <2>1. m \in Nat /\ n \in Nat /\ <<m, n>> \notin Less
        BY <1>2
    <2> QED
        BY <2>1 DEF Less
<1> QED
    BY <1>3

\* Of finite sets there is a smallest one: a proof by induction on cardinality
\* looks at a smallest set of which the claim fails.
LEMMA SmallestSet ==
    ASSUME NEW C, C # {}, \A s \in C : IsFiniteSet(s)
    PROVE  \E s \in C : \A t \in C : Cardinality(s) <= Cardinality(t)
<1> DEFINE N == {Cardinality(s) : s \in C}
<1>1. N \in SUBSET Nat /\ N # {}
    BY FS_CardinalityType
<1> HIDE DEF N
<1>2. PICK n \in N : \A m \in N : n <= m
    BY <1>1, LeastNumber
<1> QED
    BY <1>2 DEF N

\* What is chosen from a set that is not empty is in it.
LEMMA AnyIsElement == \A s : s # {} => AnyOf(s) \in s
BY DEF AnyOf

\* Such a function exists, since each subset needs the smaller ones only.
LEMMA SumExists ==
    ASSUME NEW f, NEW S, IsFiniteSet(S)
    PROVE  \E g : IsSum(g, f, S)
<1> DEFINE Good(g, T) == \A s \in SUBSET S :
                            Cardinality(s) <= Cardinality(T) => g[s] = Partial(g, f, s)
<1> DEFINE Bad == {T \in SUBSET S : ~ \E g : Good(g, T)}
<1>0. \A T \in SUBSET S : IsFiniteSet(T) /\ Cardinality(T) \in Nat
    BY FS_Subset, FS_CardinalityType
<1>1. ASSUME Bad # {} PROVE FALSE
    <2>1. PICK T \in Bad : \A U \in Bad : Cardinality(T) <= Cardinality(U)
        BY <1>0, <1>1, SmallestSet
    <2>2. T # {}
        <3>1. Good([s \in SUBSET S |-> 0], {})
            BY <1>0, FS_EmptySet DEF Partial
        <3> QED
            BY <3>1
    <2>3. PICK x \in T : TRUE
        BY <2>2
    <2> DEFINE U == T \ {x}
    <2>4. U \in SUBSET S /\ T \in SUBSET S /\ Cardinality(U) = Cardinality(T) - 1
        BY <1>0, <2>3, FS_RemoveElement
    <2>5. U \notin Bad
        BY <1>0, <2>1, <2>4
    <2>6. PICK g : Good(g, U)
        BY <2>4, <2>5
    <2> DEFINE h == [s \in SUBSET S |->
                        IF Cardinality(s) <= Cardinality(U) THEN g[s] ELSE Partial(g, f, s)]
    <2> HIDE DEF U, Bad
    <2>7. ASSUME NEW s \in SUBSET S, Cardinality(s) <= Cardinality(T)
          PROVE  h[s] = Partial(h, f, s)
        <3>1. CASE s = {}
            <4>1. Cardinality(s) <= Cardinality(U)
                BY <1>0, <2>4, <3>1, FS_EmptySet
            <4> QED
                BY <2>6, <3>1, <4>1 DEF Partial
        <3>2. CASE s # {}
            <4> DEFINE r == s \ {AnyOf(s)}
            <4>1. AnyOf(s) \in s /\ r \in SUBSET S
                BY <3>2, AnyIsElement
            <4>2. Cardinality(r) = Cardinality(s) - 1
                BY <1>0, <4>1, FS_RemoveElement
            <4> HIDE DEF r
            <4>3. Cardinality(r) <= Cardinality(U)
                BY <1>0, <2>4, <2>7, <4>1, <4>2
            <4>4. h[r] = g[r]
                BY <4>1, <4>3
            <4>5. h[s] = Partial(g, f, s)
                BY <2>6
            <4> QED
                BY <3>2, <4>4, <4>5 DEF Partial, r
        <3> QED
            BY <3>1, <3>2
    <2>8. Good(h, T)
        BY <2>7
    <2> QED
        BY <2>1, <2>8 DEF Bad
<1>2. PICK g : Good(g, S)
    BY <1>1
<1> DEFINE h == [s \in SUBSET S |-> g[s]]
<1>3. \A s \in SUBSET S : h[s] = Partial(h, f, s)
    <2> TAKE s \in SUBSET S
    <2>1. Cardinality(s) <= Cardinality(S)
        BY FS_Subset
    <2> QED
        BY <1>2, <2>1, AnyIsElement DEF Partial
<1> QED
    BY <1>3 DEF IsSum, Partial
\* Two functions that sum f agree wherever both are defined.
LEMMA SumsAgree ==
    ASSUME NEW f, NEW S, NEW e, NEW T, NEW g, NEW h,
           IsFiniteSet(S), T \subseteq S, IsSum(g, f, S), IsSum(h, e, T),
           \A x \in T : e[x] = f[x]
    PROVE  h[T] = g[T]
<1> DEFINE Bad == {s \in SUBSET T : h[s] # g[s]}
<1>0. \A s \in SUBSET T : IsFiniteSet(s) /\ Cardinality(s) \in Nat
    BY FS_Subset, FS_CardinalityType
<1>1. \A s \in SUBSET T : g[s] = Partial(g, f, s) /\ h[s] = Partial(h, e, s)
    BY DEF IsSum, Partial
<1>2. ASSUME Bad # {} PROVE FALSE
    <2>1. PICK s \in Bad : \A t \in Bad : Cardinality(s) <= Cardinality(t)
        BY <1>0, <1>2, SmallestSet
    <2>2. s # {}
        BY <1>1, <2>1 DEF Partial
    <2> DEFINE r == s \ {AnyOf(s)}
    <2>3. AnyOf(s) \in s /\ AnyOf(s) \in T /\ r \in SUBSET T
        BY <2>1, <2>2, AnyIsElement
    <2>4. Cardinality(r) < Cardinality(s)
        BY <1>0, <2>1, <2>3, FS_RemoveElement
    <2>5. h[r] = g[r]
        BY <1>0, <2>1, <2>3, <2>4
    <2> QED
        BY <1>1, <2>1, <2>2, <2>3, <2>5 DEF Partial
<1> QED
    BY <1>2

\* The function that SumOver evaluates.
LEMMA SumIs ==
    ASSUME NEW f, NEW S, IsFiniteSet(S), NEW g, IsSum(g, f, S)
    PROVE  \A T \in SUBSET S : SumOver(f, T) = g[T]
<1> TAKE T \in SUBSET S
<1>1. IsFiniteSet(T)
    BY FS_Subset
<1> DEFINE h == CHOOSE h : IsSum(h, f, T)
<1>2. IsSum(h, f, T)
    BY <1>1, SumExists
<1>3. SumOver(f, T) = h[T]
    BY SumUnfolds
<1> HIDE DEF h
<1> QED
    BY <1>2, <1>3, SumsAgree

\* The sum depends on the values over the set only.
LEMMA SumSame ==
    ASSUME NEW f, NEW e, NEW S, IsFiniteSet(S), \A x \in S : e[x] = f[x]
    PROVE  SumOver(e, S) = SumOver(f, S)
<1>1. PICK g : IsSum(g, f, S)
    BY SumExists
<1>2. PICK h : IsSum(h, e, S)
    BY SumExists
<1>3. SumOver(f, S) = g[S] /\ SumOver(e, S) = h[S]
    BY <1>1, <1>2, SumIs
<1> QED
    BY <1>1, <1>2, <1>3, SumsAgree

\* The sum over no elements.
LEMMA SumOfNone == \A f : SumOver(f, {}) = 0
<1> TAKE f
<1>1. PICK g : IsSum(g, f, {})
    BY SumExists, FS_EmptySet
<1>2. SumOver(f, {}) = g[{}]
    BY <1>1, SumIs, FS_EmptySet
<1> QED
    BY <1>1, <1>2 DEF IsSum

\* The sum takes out the element chosen.
LEMMA SumTakesAny ==
    ASSUME NEW f, NEW S, IsFiniteSet(S), S # {}
    PROVE  SumOver(f, S) = f[AnyOf(S)] + SumOver(f, S \ {AnyOf(S)})
<1>1. PICK g : IsSum(g, f, S)
    BY SumExists
<1>2. SumOver(f, S) = g[S] /\ SumOver(f, S \ {AnyOf(S)}) = g[S \ {AnyOf(S)}]
    BY <1>1, SumIs
<1> QED
    BY <1>1, <1>2 DEF IsSum

\* A sum of natural numbers is one.
LEMMA SumIsNatural ==
    ASSUME NEW f, NEW S, IsFiniteSet(S), \A x \in S : f[x] \in Nat
    PROVE  SumOver(f, S) \in Nat
<1> DEFINE Bad == {s \in SUBSET S : SumOver(f, s) \notin Nat}
<1>0. \A s \in SUBSET S : IsFiniteSet(s) /\ Cardinality(s) \in Nat
    BY FS_Subset, FS_CardinalityType
<1>1. ASSUME Bad # {} PROVE FALSE
    <2>1. PICK s \in Bad : \A t \in Bad : Cardinality(s) <= Cardinality(t)
        BY <1>0, <1>1, SmallestSet
    <2>2. s # {}
        BY <2>1, SumOfNone
    <2> DEFINE r == s \ {AnyOf(s)}
    <2>3. AnyOf(s) \in S /\ r \in SUBSET S /\ Cardinality(r) < Cardinality(s)
        BY <1>0, <2>1, <2>2, AnyIsElement, FS_RemoveElement
    <2>4. SumOver(f, r) \in Nat
        BY <1>0, <2>1, <2>3
    <2>5. SumOver(f, s) = f[AnyOf(s)] + SumOver(f, r)
        BY <1>0, <2>1, <2>2, SumTakesAny
    <2> QED
        BY <2>1, <2>3, <2>4, <2>5
<1> QED
    BY <1>1

\* Any element may be taken out first.
LEMMA SumElement ==
    ASSUME NEW f, NEW S, IsFiniteSet(S), \A x \in S : f[x] \in Nat, NEW x \in S
    PROVE  SumOver(f, S) = f[x] + SumOver(f, S \ {x})
<1> DEFINE Bad == {s \in SUBSET S : \E y \in s : SumOver(f, s) # f[y] + SumOver(f, s \ {y})}
<1>0. \A s \in SUBSET S : IsFiniteSet(s) /\ Cardinality(s) \in Nat /\ SumOver(f, s) \in Nat
    BY FS_Subset, FS_CardinalityType, SumIsNatural
<1>1. ASSUME Bad # {} PROVE FALSE
    <2>1. PICK s \in Bad : \A t \in Bad : Cardinality(s) <= Cardinality(t)
        BY <1>0, <1>1, SmallestSet
    <2>2. PICK y \in s : SumOver(f, s) # f[y] + SumOver(f, s \ {y})
        BY <2>1
    <2> DEFINE p == AnyOf(s)
    <2> DEFINE both == s \ {p, y}
    <2>3. s \in SUBSET S /\ p \in s /\ p # y
        BY <1>0, <2>1, <2>2, AnyIsElement, SumTakesAny
    <2>4. SumOver(f, s) = f[p] + SumOver(f, s \ {p})
        BY <1>0, <2>1, <2>2, SumTakesAny
    <2> HIDE DEF p
    <2>5. ASSUME NEW z \in s, NEW u \in s, u # z
          PROVE  SumOver(f, s \ {z}) = f[u] + SumOver(f, s \ {z, u})
        <3>1. Cardinality(s \ {z}) < Cardinality(s) /\ s \ {z} \in SUBSET S
            BY <1>0, <2>3, FS_RemoveElement
        <3>2. s \ {z} \notin Bad
            BY <1>0, <2>1, <2>3, <3>1
        <3>3. u \in s \ {z} /\ (s \ {z}) \ {u} = s \ {z, u}
            BY <2>5
        <3> QED
            BY <3>1, <3>2, <3>3
    <2>6. SumOver(f, s \ {p}) = f[y] + SumOver(f, both)
        BY <2>2, <2>3, <2>5
    <2>7. s \ {p, y} = s \ {y, p}
        OBVIOUS
    <2>8. SumOver(f, s \ {y}) = f[p] + SumOver(f, both)
        BY <2>2, <2>3, <2>5, <2>7
    <2>9. f[p] \in Nat /\ f[y] \in Nat /\ SumOver(f, both) \in Nat
        BY <1>0, <2>2, <2>3
    <2> QED
        BY <2>2, <2>4, <2>6, <2>8, <2>9
<1> QED
    BY <1>1
\* The sum over S in two parts, one of them within A.
Splits(f, S, A) == SumOver(f, S) = SumOver(f, S \intersect A) + SumOver(f, S \ A)

\* A sum may be taken in two parts.
LEMMA SumSplits ==
    ASSUME NEW f, NEW S, IsFiniteSet(S), \A x \in S : f[x] \in Nat
    PROVE  \A A : Splits(f, S, A)
<1> SUFFICES ASSUME NEW A
             PROVE  SumOver(f, S) = SumOver(f, S \intersect A) + SumOver(f, S \ A)
    BY DEF Splits
<1> DEFINE Bad == {s \in SUBSET S :
                        SumOver(f, s) # SumOver(f, s \intersect A) + SumOver(f, s \ A)}
<1>0. \A s \in SUBSET S : IsFiniteSet(s) /\ Cardinality(s) \in Nat /\ SumOver(f, s) \in Nat
    BY FS_Subset, FS_CardinalityType, SumIsNatural
<1>1. ASSUME Bad # {} PROVE FALSE
    <2>1. PICK s \in Bad : \A t \in Bad : Cardinality(s) <= Cardinality(t)
        BY <1>0, <1>1, SmallestSet
    <2>2. s # {}
        <3>1. {} \intersect A = {} /\ {} \ A = {}
            OBVIOUS
        <3> QED
            BY <2>1, <3>1, SumOfNone
    <2>3. PICK x \in s : x \in S /\ f[x] \in Nat
        BY <2>1, <2>2
    <2> DEFINE r == s \ {x}
    <2>4. r \in SUBSET S /\ s \in SUBSET S /\ Cardinality(r) < Cardinality(s)
        <3>1. s \in SUBSET S /\ IsFiniteSet(s)
            BY <1>0, <2>1
        <3> QED
            BY <1>0, <2>3, <3>1, FS_RemoveElement
    <2>5. SumOver(f, r) = SumOver(f, r \intersect A) + SumOver(f, r \ A)
        BY <1>0, <2>1, <2>4
    <2>6. \A t \in SUBSET S : x \in t => SumOver(f, t) = f[x] + SumOver(f, t \ {x})
        BY <1>0, SumElement
    <2>7. SumOver(f, r \intersect A) \in Nat /\ SumOver(f, r \ A) \in Nat
        BY <1>0, <2>4
    <2> DEFINE In(u) == SumOver(f, u \intersect A)
               Out(u) == SumOver(f, u \ A)
    <2>8. SumOver(f, s) # In(s) + Out(s) /\ SumOver(f, s) = f[x] + SumOver(f, r)
        BY <2>1, <2>3, <2>4, <2>6
    <2>9. CASE x \in A
        <3>1. r \intersect A = (s \intersect A) \ {x} /\ r \ A = s \ A
            BY <2>9
        <3>2. SumOver(f, s \intersect A) = f[x] + SumOver(f, r \intersect A)
            BY <2>3, <2>4, <2>6, <2>9, <3>1
        <3>3. Out(r) = Out(s)
            BY <3>1, Zenon
        <3>4. In(s) + Out(s) = f[x] + (In(r) + Out(r))
            BY <2>3, <2>7, <3>2, <3>3
        <3> QED
            BY <2>5, <2>8, <3>4
    <2>10. CASE x \notin A
        <3>1. r \ A = (s \ A) \ {x} /\ r \intersect A = s \intersect A
            BY <2>10
        <3>2. SumOver(f, s \ A) = f[x] + SumOver(f, r \ A)
            BY <2>3, <2>4, <2>6, <2>10, <3>1
        <3>3. In(r) = In(s)
            BY <3>1, Zenon
        <3>4. In(s) + Out(s) = f[x] + (In(r) + Out(r))
            BY <2>3, <2>7, <3>2, <3>3
        <3> QED
            BY <2>5, <2>8, <3>4
    <2> QED
        BY <2>9, <2>10
<1> QED
    BY <1>1

\* A sum over fewer elements is no larger.
LEMMA SumGrows ==
    ASSUME NEW f, NEW S, IsFiniteSet(S), \A x \in S : f[x] \in Nat, NEW T \in SUBSET S
    PROVE  SumOver(f, T) <= SumOver(f, S)
<1>1. SumOver(f, S \intersect T) = SumOver(f, T)
    <2>1. S \intersect T = T
        OBVIOUS
    <2> QED
        BY <2>1, Zenon
<1>2. SumOver(f, T) \in Nat /\ SumOver(f, S \ T) \in Nat
    BY FS_Subset, SumIsNatural
<1>3. SumOver(f, S) = SumOver(f, S \intersect T) + SumOver(f, S \ T)
    <2>1. Splits(f, S, T)
        BY SumSplits
    <2> QED
        BY <2>1 DEF Splits
<1> QED
    BY <1>1, <1>2, <1>3

\* A sum of zeros is zero.
LEMMA SumOfZeros ==
    ASSUME NEW f, NEW S, IsFiniteSet(S), \A x \in S : f[x] = 0
    PROVE  SumOver(f, S) = 0
<1> DEFINE Bad == {s \in SUBSET S : SumOver(f, s) # 0}
<1>0. \A s \in SUBSET S : IsFiniteSet(s) /\ Cardinality(s) \in Nat
    BY FS_Subset, FS_CardinalityType
<1>1. ASSUME Bad # {} PROVE FALSE
    <2>1. PICK s \in Bad : \A t \in Bad : Cardinality(s) <= Cardinality(t)
        BY <1>0, <1>1, SmallestSet
    <2>2. s # {}
        BY <2>1, SumOfNone
    <2>3. /\ AnyOf(s) \in S /\ s \ {AnyOf(s)} \in SUBSET S
          /\ Cardinality(s \ {AnyOf(s)}) < Cardinality(s)
        BY <1>0, <2>1, <2>2, AnyIsElement, FS_RemoveElement
    <2>4. SumOver(f, s) = f[AnyOf(s)] + SumOver(f, s \ {AnyOf(s)})
        BY <1>0, <2>1, <2>2, SumTakesAny
    <2>5. SumOver(f, s \ {AnyOf(s)}) = 0
        BY <1>0, <2>1, <2>3
    <2> QED
        BY <2>1, <2>3, <2>4, <2>5
<1> QED
    BY <1>1

\* What one value grows by, the sum does.
LEMMA SumAdds ==
    ASSUME NEW f, NEW e, NEW S, IsFiniteSet(S), \A x \in S : f[x] \in Nat,
           NEW x \in S, NEW n \in Nat, e[x] = f[x] + n, \A y \in S \ {x} : e[y] = f[y]
    PROVE  SumOver(e, S) = SumOver(f, S) + n
<1>1. \A y \in S : e[y] \in Nat
    OBVIOUS
<1>2. IsFiniteSet(S \ {x})
    BY FS_Subset
<1>3. SumOver(e, S \ {x}) = SumOver(f, S \ {x}) /\ SumOver(f, S \ {x}) \in Nat
    BY <1>2, SumSame, SumIsNatural
<1>4. SumOver(f, S) = f[x] + SumOver(f, S \ {x})
    BY SumElement
<1>5. SumOver(e, S) = e[x] + SumOver(e, S \ {x})
    BY <1>1, SumElement
<1> QED
    BY <1>3, <1>4, <1>5

\* Counting by place counts every element that has a place.
Fibre(p, D, x) == {i \in D : p[i] = x}
Preimage(p, D, S) == {i \in D : p[i] \in S}

LEMMA SumOfFibres ==
    ASSUME NEW D, IsFiniteSet(D), NEW p, NEW S, IsFiniteSet(S), NEW f,
           \A x \in S : f[x] = Cardinality(Fibre(p, D, x))
    PROVE  SumOver(f, S) = Cardinality(Preimage(p, D, S))
<1> DEFINE At(x) == {i \in D : p[i] = x}
           In(s) == {i \in D : p[i] \in s}
           Bad == {s \in SUBSET S : SumOver(f, s) # Cardinality(In(s))}
<1>1. \A x \in S : f[x] = Cardinality(At(x))
    BY DEF Fibre
<1>2. \A s \in SUBSET S : IsFiniteSet(s) /\ Cardinality(s) \in Nat
    BY FS_Subset, FS_CardinalityType
<1>3. /\ \A x : IsFiniteSet(At(x)) /\ Cardinality(At(x)) \in Nat
      /\ \A s : IsFiniteSet(In(s)) /\ Cardinality(In(s)) \in Nat
    BY FS_Subset, FS_CardinalityType
<1>4. \A x \in S : f[x] \in Nat
    BY <1>1, <1>3
<1>5. ASSUME Bad # {} PROVE FALSE
    <2>1. PICK s \in Bad : \A t \in Bad : Cardinality(s) <= Cardinality(t)
        BY <1>2, <1>5, SmallestSet
    <2>2. s \in SUBSET S /\ SumOver(f, s) # Cardinality(In(s))
        BY <2>1
    <2>3. s # {}
        <3>1. In({}) = {}
            OBVIOUS
        <3>2. Cardinality(In({})) = 0
            BY <3>1, FS_EmptySet
        <3> QED
            BY <2>2, <3>2, SumOfNone
    <2>4. PICK x \in s : x \in S
        BY <2>2, <2>3
    <2> DEFINE r == s \ {x}
    <2>5. r \in SUBSET S /\ Cardinality(r) < Cardinality(s)
        BY <1>2, <2>2, <2>4, FS_RemoveElement
    <2>6. SumOver(f, r) = Cardinality(In(r))
        BY <1>2, <2>1, <2>2, <2>5
    <2>7. SumOver(f, s) = f[x] + SumOver(f, r)
        BY <1>2, <1>4, <2>2, <2>4, SumElement
    <2>8. In(s) = At(x) \union In(r) /\ At(x) \intersect In(r) = {}
        BY <2>4
    <2>9. Cardinality(At(x) \union In(r)) =
              Cardinality(At(x)) + Cardinality(In(r)) - Cardinality(At(x) \intersect In(r))
        BY <1>3, FS_Union, ZenonT(60)
    <2>10. Cardinality(At(x) \intersect In(r)) = 0 /\ f[x] = Cardinality(At(x))
        BY <1>1, <2>4, <2>8, FS_EmptySet
    <2>11. Cardinality(In(s)) = Cardinality(At(x) \union In(r))
        BY <2>8, Zenon
    <2> HIDE DEF At, In, r, Bad
    <2> QED
        BY <1>3, <2>2, <2>6, <2>7, <2>9, <2>10, <2>11
<1>6. S \notin Bad
    BY <1>5
<1> QED
    BY <1>6 DEF Preimage
=============================================================================
