----------------------------- MODULE Inductions -----------------------------
(*****************************************************************************)
(* Induction for the other proofs, on sets instead of predicates: a set of   *)
(* numbers that has zero and the successor of each of its elements is all of *)
(* them, since a smallest number that it misses cannot be. From it follows   *)
(* what repeated steps compute, as in the loops of the code, that a sum over *)
(* a finite set is the same in whatever order it is taken, and that a finite *)
(* set of numbers has a greatest one and can be listed in ascending order.   *)
(*****************************************************************************)
EXTENDS Integers, Sequences, FiniteSetsExt, SequenceTheorems, FiniteSetTheorems, WellFoundedInduction, TLAPS

NatBelow == {mn \in Nat \X Nat : mn[1] < mn[2]}

LEMMA NatBelowWellFounded == IsWellFoundedOn(NatBelow, Nat)
<1>1. NatBelow = OpToRel(<, Nat)
    BY DEF NatBelow, OpToRel
<1>. QED BY <1>1, NatLessThanWellFounded

LEMMA SetInduction ==
    ASSUME NEW T \in SUBSET Nat, 0 \in T, \A n \in T : n + 1 \in T
    PROVE  T = Nat
<1>. SUFFICES ASSUME T # Nat PROVE FALSE
    OBVIOUS
<1>. DEFINE missed == Nat \ T
<1>1. missed \subseteq Nat /\ missed # {}
    OBVIOUS
<1>. HIDE DEF missed
<1>2. PICK n \in missed : \A m \in missed : ~ (<<m, n>> \in NatBelow)
    BY <1>1, NatBelowWellFounded, WFMin
<1>. USE DEF missed
<1>3. n \in Nat /\ n - 1 \in Nat
    BY <1>1
<1>4. <<n - 1, n>> \in NatBelow
    BY <1>3 DEF NatBelow
<1>5. n - 1 \in T /\ (n - 1) + 1 = n
    BY <1>2, <1>3, <1>4
<1>. QED BY <1>2, <1>5

\* A step for each of n rounds, and what they make of a start.
IsSteps(D, n, X) == D \in [1..n -> [X -> X]]

IsRun(f, n, X, start, D) ==
    f \in [0..n -> X] /\ f[0] = start /\ \A k \in 1..n : f[k] = D[k][f[k - 1]]

(* There is such a run. *)
LEMMA RunExists ==
    ASSUME NEW n \in Nat, NEW X, NEW start \in X, NEW D, IsSteps(D, n, X)
    PROVE  \E f : IsRun(f, n, X, start, D)
<1>1. D \in [1..n -> [X -> X]]
    BY DEF IsSteps
<1>. DEFINE T == {m \in Nat : m <= n => \E f : IsRun(f, m, X, start, D)}
<1>2. 0 \in T
    <2>. DEFINE f == [k \in 0..0 |-> start]
    <2>1. f \in [0..0 -> X] /\ f[0] = start /\ 1..0 = {}
        OBVIOUS
    <2>. HIDE DEF f
    <2>2. IsRun(f, 0, X, start, D)
        BY <2>1 DEF IsRun
    <2>. QED BY <2>2
<1>3. ASSUME NEW m \in T PROVE m + 1 \in T
    <2>. SUFFICES ASSUME m + 1 <= n PROVE \E f : IsRun(f, m + 1, X, start, D)
        OBVIOUS
    <2>1. PICK f : IsRun(f, m, X, start, D)
        BY <1>3
    <2>. DEFINE next == D[m + 1][f[m]]
                g == [k \in 0..(m + 1) |-> IF k = m + 1 THEN next ELSE f[k]]
    <2>2. m \in Nat /\ m \in 0..m /\ m + 1 \in 1..n
        OBVIOUS
    <2>3. next \in X
        BY <1>1, <2>1, <2>2 DEF IsRun
    <2>. HIDE DEF next
    <2>4. g \in [0..(m + 1) -> X]
        BY <2>1, <2>2, <2>3 DEF IsRun
    <2>5. (\A k \in 0..m : g[k] = f[k]) /\ g[m + 1] = next
        BY <2>2
    <2>. HIDE DEF g
    <2>6. ASSUME NEW k \in 1..(m + 1) PROVE g[k] = D[k][g[k - 1]]
        <3>1. CASE k = m + 1
            <4>1. k - 1 = m
                BY <3>1, <2>2
            <4>. QED BY <3>1, <4>1, <2>2, <2>5 DEF next
        <3>2. CASE k # m + 1
            <4>1. k \in 1..m /\ k - 1 \in 0..m /\ k \in 0..m
                BY <3>2, <2>2
            <4>. QED BY <4>1, <2>1, <2>5 DEF IsRun
        <3>. QED BY <3>1, <3>2
    <2>7. g[0] = start
        BY <2>1, <2>2, <2>5 DEF IsRun
    <2>8. IsRun(g, m + 1, X, start, D)
        BY <2>4, <2>6, <2>7 DEF IsRun
    <2>. QED BY <2>8
<1>. HIDE DEF T
<1>4. T = Nat
    BY <1>2, <1>3, SetInduction DEF T
<1>. QED BY <1>4 DEF T

(* What every step keeps, the run keeps. *)
LEMMA RunInduction ==
    ASSUME NEW n \in Nat, NEW J, NEW f, f[0] \in J,
           \A k \in 1..n : f[k - 1] \in J => f[k] \in J
    PROVE  f[n] \in J
<1>. DEFINE T == {m \in Nat : m <= n => f[m] \in J}
<1>1. 0 \in T
    OBVIOUS
<1>2. ASSUME NEW m \in T PROVE m + 1 \in T
    <2>. SUFFICES ASSUME m + 1 <= n PROVE f[m + 1] \in J
        OBVIOUS
    <2>1. m + 1 \in 1..n /\ (m + 1) - 1 = m /\ f[m] \in J
        OBVIOUS
    <2>. QED BY <2>1
<1>. HIDE DEF T
<1>3. T = Nat
    BY <1>1, <1>2, SetInduction DEF T
<1>. QED BY <1>3 DEF T

------------------------------------------------------------------------------
(* Sums over finite sets, taken in any order.                                  *)

SumOver(f, S) == MapThenSumSet(LAMBDA x : f[x], S)

\* What is to be summed up, for all subsets at once.
IsSumming(h, f, S) ==
    /\ h \in [SUBSET S -> Int] /\ h[{}] = 0
    /\ \A s \in SUBSET S : \A x \in s : h[s] = f[x] + h[s \ {x}]

LEMMA SummingExists ==
    ASSUME NEW U, IsFiniteSet(U), NEW f, \A x \in U : f[x] \in Int
    PROVE  \E h : IsSumming(h, f, U)
<1>. DEFINE T == {n \in Nat : \A S \in SUBSET U : Cardinality(S) = n => \E h : IsSumming(h, f, S)}
<1>1. 0 \in T
    <2>. SUFFICES ASSUME NEW S \in SUBSET U, Cardinality(S) = 0 PROVE \E h : IsSumming(h, f, S)
        OBVIOUS
    <2>1. S = {}
        BY FS_Subset, FS_EmptySet
    <2>. DEFINE h == [s \in SUBSET {} |-> 0]
    <2>2. IsSumming(h, f, {})
        BY DEF IsSumming
    <2>. QED BY <2>1, <2>2
<1>2. ASSUME NEW n \in T PROVE n + 1 \in T
    <2>. SUFFICES ASSUME NEW S \in SUBSET U, Cardinality(S) = n + 1 PROVE \E h : IsSumming(h, f, S)
        OBVIOUS
    <2>1. n \in Nat /\ IsFiniteSet(S)
        BY FS_Subset
    <2>2. PICK x \in S : TRUE
        BY <2>1, FS_EmptySet
    <2>. DEFINE R == S \ {x}
    <2>3. Cardinality(R) = n /\ R \in SUBSET U
        <3>1. Cardinality(R) = Cardinality(S) - 1
            BY <2>1, <2>2, FS_RemoveElement
        <3>. QED BY <2>1, <3>1
    <2>4. PICK g : IsSumming(g, f, R)
        BY <1>2, <2>3
    <2>. DEFINE h == [s \in SUBSET S |-> g[s \ {x}] + (IF x \in s THEN f[x] ELSE 0)]
    <2>5. \A s \in SUBSET S : s \ {x} \in SUBSET R /\ g[s \ {x}] \in Int
        BY <2>4 DEF IsSumming
    <2>6. f[x] \in Int
        BY <2>2
    <2>7. h \in [SUBSET S -> Int] /\ h[{}] = 0
        <3>1. h[{}] = g[{} \ {x}] + 0 /\ {} \ {x} = {}
            OBVIOUS
        <3>2. h \in [SUBSET S -> Int]
            BY <2>5, <2>6
        <3>. QED BY <2>4, <3>1, <3>2 DEF IsSumming
    <2>8. ASSUME NEW s \in SUBSET S, NEW y \in s PROVE h[s] = f[y] + h[s \ {y}]
        <3>1. h[s] = g[s \ {x}] + (IF x \in s THEN f[x] ELSE 0)
              /\ h[s \ {y}] = g[(s \ {y}) \ {x}] + (IF x \in s \ {y} THEN f[x] ELSE 0)
            OBVIOUS
        <3>. HIDE DEF h
        <3>2. g[s \ {x}] \in Int /\ g[(s \ {y}) \ {x}] \in Int /\ f[y] \in Int
            BY <2>5
        <3>3. CASE y = x
            <4>1. (s \ {y}) \ {x} = s \ {x} /\ x \in s /\ x \notin s \ {y}
                BY <3>3
            <4>2. h[s] = g[s \ {x}] + f[x] /\ h[s \ {y}] = g[s \ {x}] + 0
                BY <3>1, <4>1
            <4>. QED BY <2>6, <3>2, <3>3, <4>2
        <3>4. CASE y # x
            <4>1. y \in s \ {x} /\ (s \ {x}) \ {y} = (s \ {y}) \ {x} /\ (x \in s <=> x \in s \ {y})
                BY <3>4
            <4>2. g[s \ {x}] = f[y] + g[(s \ {x}) \ {y}]
                BY <2>4, <2>5, <4>1 DEF IsSumming
            <4>3. g[s \ {x}] = f[y] + g[(s \ {y}) \ {x}]
                BY <4>1, <4>2
            <4>4. PICK e \in Int : /\ e = (IF x \in s THEN f[x] ELSE 0)
                                   /\ e = (IF x \in s \ {y} THEN f[x] ELSE 0)
                BY <2>6, <4>1
            <4>5. h[s] = g[s \ {x}] + e /\ h[s \ {y}] = g[(s \ {y}) \ {x}] + e
                BY <3>1, <4>4
            <4>. QED BY <3>2, <4>3, <4>5
        <3>. QED BY <3>3, <3>4
    <2>. HIDE DEF h
    <2>9. IsSumming(h, f, S)
        BY <2>7, <2>8 DEF IsSumming
    <2>. QED BY <2>9
<1>. HIDE DEF T
<1>3. T = Nat
    BY <1>1, <1>2, SetInduction DEF T
<1>. QED BY <1>3, FS_CardinalityType DEF T

\* There is one sum, whatever the order.
LEMMA SumIs ==
    ASSUME NEW U, IsFiniteSet(U), NEW f, \A x \in U : f[x] \in Int, NEW h, IsSumming(h, f, U)
    PROVE  SumOver(f, U) = h[U]
<1>. DEFINE Sums(g) == g = [s \in SUBSET U |->
                        IF s = {} THEN 0 ELSE f[CHOOSE x \in s : TRUE] + g[s \ {CHOOSE x \in s : TRUE}]]
<1>1. Sums(h)
    <2>1. ASSUME NEW s \in SUBSET U, s # {}
          PROVE  h[s] = f[CHOOSE x \in s : TRUE] + h[s \ {CHOOSE x \in s : TRUE}]
        <3>1. (CHOOSE x \in s : TRUE) \in s
            BY <2>1
        <3>. QED BY <3>1 DEF IsSumming
    <2>2. h \in [SUBSET U -> Int] /\ h[{}] = 0
        BY DEF IsSumming
    <2>. QED BY <2>1, <2>2
<1>2. SumOver(f, U) = (CHOOSE g : Sums(g))[U]
    BY DEF SumOver, MapThenSumSet, MapThenFoldSet
<1>3. PICK g : Sums(g) /\ g = CHOOSE k : Sums(k)
    BY <1>1
<1>4. \A s \in SUBSET U : g[s] = IF s = {} THEN 0
            ELSE f[CHOOSE x \in s : TRUE] + g[s \ {CHOOSE x \in s : TRUE}]
    BY <1>3
<1>. HIDE DEF Sums
<1>. DEFINE T == {n \in Nat : \A s \in SUBSET U : Cardinality(s) = n => g[s] = h[s]}
<1>5. 0 \in T
    <2>. SUFFICES ASSUME NEW s \in SUBSET U, Cardinality(s) = 0 PROVE g[s] = h[s]
        OBVIOUS
    <2>1. s = {}
        BY FS_Subset, FS_EmptySet
    <2>. QED BY <1>4, <2>1 DEF IsSumming
<1>6. ASSUME NEW n \in T PROVE n + 1 \in T
    <2>. SUFFICES ASSUME NEW s \in SUBSET U, Cardinality(s) = n + 1 PROVE g[s] = h[s]
        OBVIOUS
    <2>1. n \in Nat /\ IsFiniteSet(s) /\ s # {}
        BY FS_Subset, FS_EmptySet
    <2>2. PICK x \in s : x = CHOOSE y \in s : TRUE
        BY <2>1
    <2>3. Cardinality(s \ {x}) = n /\ s \ {x} \in SUBSET U
        <3>1. Cardinality(s \ {x}) = Cardinality(s) - 1
            BY <2>1, <2>2, FS_RemoveElement
        <3>. QED BY <2>1, <3>1
    <2>4. g[s \ {x}] = h[s \ {x}]
        BY <2>3
    <2>5. g[s] = f[x] + g[s \ {x}]
        BY <1>4, <2>1, <2>2
    <2>6. h[s] = f[x] + h[s \ {x}]
        BY DEF IsSumming
    <2>. QED BY <2>4, <2>5, <2>6
<1>. HIDE DEF T
<1>7. T = Nat
    BY <1>5, <1>6, SetInduction DEF T
<1>8. g[U] = h[U]
    BY <1>7, FS_CardinalityType DEF T
<1>. QED BY <1>2, <1>3, <1>8

\* One of them and the rest.
LEMMA SumWithout ==
    ASSUME NEW U, IsFiniteSet(U), NEW f, \A x \in U : f[x] \in Int, NEW x \in U
    PROVE  /\ SumOver(f, U) = f[x] + SumOver(f, U \ {x})
           /\ SumOver(f, U) \in Int /\ SumOver(f, U \ {x}) \in Int
<1>1. PICK h : IsSumming(h, f, U)
    BY SummingExists
<1>2. IsFiniteSet(U \ {x}) /\ U \ {x} \in SUBSET U
    BY FS_Subset
<1>. DEFINE k == [s \in SUBSET (U \ {x}) |-> h[s]]
<1>3. IsSumming(k, f, U \ {x})
    <2>1. \A s \in SUBSET (U \ {x}) : s \in SUBSET U
        OBVIOUS
    <2>2. k \in [SUBSET (U \ {x}) -> Int] /\ k[{}] = 0
        BY <1>1, <2>1 DEF IsSumming
    <2>3. ASSUME NEW s \in SUBSET (U \ {x}), NEW y \in s PROVE k[s] = f[y] + k[s \ {y}]
        <3>1. s \in SUBSET U /\ s \ {y} \in SUBSET (U \ {x})
            OBVIOUS
        <3>2. h[s] = f[y] + h[s \ {y}]
            BY <1>1, <3>1 DEF IsSumming
        <3>. QED BY <3>1, <3>2
    <2>. HIDE DEF k
    <2>. QED BY <2>2, <2>3 DEF IsSumming
<1>4. SumOver(f, U) = h[U] /\ SumOver(f, U \ {x}) = k[U \ {x}]
    <2>1. SumOver(f, U) = h[U]
        BY <1>1, SumIs
    <2>. HIDE DEF k
    <2>2. SumOver(f, U \ {x}) = k[U \ {x}]
        BY <1>2, <1>3, SumIs
    <2>. QED BY <2>1, <2>2
<1>5. k[U \ {x}] = h[U \ {x}]
    OBVIOUS
<1>6. h[U] = f[x] + h[U \ {x}] /\ h[U] \in Int /\ h[U \ {x}] \in Int
    BY <1>1, <1>2 DEF IsSumming
<1>. QED BY <1>4, <1>5, <1>6

\* Only what is summed up counts.
LEMMA SumSame ==
    ASSUME NEW U, IsFiniteSet(U), NEW f, \A x \in U : f[x] \in Int, NEW g, \A x \in U : g[x] = f[x]
    PROVE  SumOver(f, U) = SumOver(g, U)
<1>1. PICK h : IsSumming(h, f, U)
    BY SummingExists
<1>2. IsSumming(h, g, U)
    BY <1>1 DEF IsSumming
<1>3. SumOver(f, U) = h[U]
    BY <1>1, SumIs
<1>4. \A x \in U : g[x] \in Int
    OBVIOUS
<1>5. SumOver(g, U) = h[U]
    BY <1>2, <1>4, SumIs
<1>. QED BY <1>3, <1>5

\* One of them changes.
LEMMA SumChanges ==
    ASSUME NEW U, IsFiniteSet(U), NEW f, NEW g, NEW x \in U, \A y \in U : f[y] \in Int /\ g[y] \in Int,
           \A y \in U \ {x} : g[y] = f[y]
    PROVE  SumOver(g, U) = SumOver(f, U) - f[x] + g[x]
<1>1. SumOver(f, U) = f[x] + SumOver(f, U \ {x}) /\ SumOver(f, U \ {x}) \in Int
    BY SumWithout
<1>2. SumOver(g, U) = g[x] + SumOver(g, U \ {x}) /\ SumOver(g, U \ {x}) \in Int
    BY SumWithout
<1>3. IsFiniteSet(U \ {x})
    BY FS_Subset
<1>4. SumOver(f, U \ {x}) = SumOver(g, U \ {x})
    BY <1>3, SumSame
<1>5. f[x] \in Int /\ g[x] \in Int
    OBVIOUS
<1>. QED BY <1>1, <1>2, <1>4, <1>5

------------------------------------------------------------------------------
(* Finite sets of numbers: the greatest one, and all of them in their order.   *)

LEMMA GreatestExists ==
    ASSUME NEW S, IsFiniteSet(S), S \subseteq Nat, S # {}
    PROVE  \E x \in S : \A y \in S : y <= x
<1>. DEFINE T == {n \in Nat : \A R \in SUBSET S : Cardinality(R) = n + 1 => \E x \in R : \A y \in R : y <= x}
<1>1. 0 \in T
    <2>. SUFFICES ASSUME NEW R \in SUBSET S, Cardinality(R) = 1 PROVE \E x \in R : \A y \in R : y <= x
        OBVIOUS
    <2>1. PICK x : R = {x}
        BY FS_Subset, FS_Singleton
    <2>. QED BY <2>1
<1>2. ASSUME NEW n \in T PROVE n + 1 \in T
    <2>. SUFFICES ASSUME NEW R \in SUBSET S, Cardinality(R) = n + 1 + 1
                  PROVE  \E x \in R : \A y \in R : y <= x
        OBVIOUS
    <2>1. n \in Nat /\ IsFiniteSet(R)
        BY FS_Subset
    <2>2. PICK z \in R : TRUE
        <3>1. R # {}
            <4>1. Cardinality({}) = 0
                BY FS_EmptySet
            <4>. QED BY <2>1, <4>1
        <3>. QED BY <3>1
    <2>3. Cardinality(R \ {z}) = n + 1 /\ R \ {z} \in SUBSET S
        <3>1. Cardinality(R \ {z}) = Cardinality(R) - 1
            BY <2>1, <2>2, FS_RemoveElement
        <3>. QED BY <2>1, <3>1
    <2>4. PICK x \in R \ {z} : \A y \in R \ {z} : y <= x
        BY <2>3
    <2>5. x \in Nat /\ z \in Nat
        BY <2>4
    <2>6. CASE z <= x
        BY <2>4, <2>5, <2>6
    <2>7. CASE x < z
        <3>1. \A y \in R : y \in Nat
            OBVIOUS
        <3>. QED BY <2>4, <2>5, <2>7, <3>1
    <2>. QED BY <2>5, <2>6, <2>7
<1>. HIDE DEF T
<1>3. T = Nat
    BY <1>1, <1>2, SetInduction DEF T
<1>4. Cardinality(S) \in Nat /\ Cardinality(S) # 0
    BY FS_CardinalityType, FS_EmptySet
<1>5. Cardinality(S) - 1 \in T /\ Cardinality(S) = (Cardinality(S) - 1) + 1
    BY <1>3, <1>4
<1>. QED BY <1>5 DEF T

\* A set of numbers written down in its order.
Ascending(s, S) ==
    /\ s \in [1..Cardinality(S) -> S]
    /\ \A i, j \in 1..Cardinality(S) : i < j => s[i] < s[j]

LEMMA AscendingExists ==
    ASSUME NEW S, IsFiniteSet(S), S \subseteq Nat
    PROVE  \E s : Ascending(s, S)
<1>. DEFINE T == {n \in Nat : \A R \in SUBSET S : Cardinality(R) = n => \E s : Ascending(s, R)}
<1>1. 0 \in T
    <2>. SUFFICES ASSUME NEW R \in SUBSET S, Cardinality(R) = 0 PROVE \E s : Ascending(s, R)
        OBVIOUS
    <2>1. 1..Cardinality(R) = {}
        OBVIOUS
    <2>2. [i \in 1..Cardinality(R) |-> 0] \in [1..Cardinality(R) -> R]
        BY <2>1
    <2>. QED BY <2>1, <2>2 DEF Ascending
<1>2. ASSUME NEW n \in T PROVE n + 1 \in T
    <2>. SUFFICES ASSUME NEW R \in SUBSET S, Cardinality(R) = n + 1 PROVE \E s : Ascending(s, R)
        OBVIOUS
    <2>1. n \in Nat /\ IsFiniteSet(R) /\ R # {} /\ R \subseteq Nat
        <3>1. n \in Nat /\ IsFiniteSet(R) /\ R \subseteq Nat
            BY FS_Subset
        <3>2. Cardinality({}) = 0
            BY FS_EmptySet
        <3>. QED BY <3>1, <3>2
    <2>2. PICK x \in R : \A y \in R : y <= x
        BY <2>1, GreatestExists
    <2>3. Cardinality(R \ {x}) = n /\ R \ {x} \in SUBSET S
        <3>1. Cardinality(R \ {x}) = Cardinality(R) - 1
            BY <2>1, <2>2, FS_RemoveElement
        <3>. QED BY <2>1, <3>1
    <2>4. PICK s : Ascending(s, R \ {x})
        BY <2>3
    <2>5. s \in [1..n -> R \ {x}] /\ \A i, j \in 1..n : i < j => s[i] < s[j]
        BY <2>3, <2>4 DEF Ascending
    <2>. DEFINE g == [i \in 1..(n + 1) |-> IF i = n + 1 THEN x ELSE s[i]]
    <2>6. \A i \in 1..(n + 1) : i = n + 1 \/ i \in 1..n
        BY <2>1
    <2>7. g \in [1..(n + 1) -> R]
        BY <2>2, <2>5, <2>6
    <2>8. ASSUME NEW i \in 1..(n + 1), NEW j \in 1..(n + 1), i < j PROVE g[i] < g[j]
        <3>1. i \in 1..n /\ g[i] = s[i] /\ s[i] \in R \ {x}
            BY <2>1, <2>5, <2>8
        <3>2. CASE j = n + 1
            <4>1. s[i] <= x /\ s[i] # x /\ s[i] \in Nat /\ x \in Nat /\ g[j] = x
                BY <2>1, <2>2, <3>1, <3>2
            <4>. QED BY <3>1, <4>1
        <3>3. CASE j \in 1..n
            <4>1. g[j] = s[j]
                BY <2>1, <3>3
            <4>. QED BY <2>5, <2>8, <3>1, <3>3, <4>1
        <3>. QED BY <2>6, <3>2, <3>3
    <2>. HIDE DEF g
    <2>9. Ascending(g, R)
        BY <2>7, <2>8 DEF Ascending
    <2>. QED BY <2>9
<1>. HIDE DEF T
<1>3. T = Nat
    BY <1>1, <1>2, SetInduction DEF T
<1>. QED BY <1>3, FS_CardinalityType DEF T

=============================================================================
