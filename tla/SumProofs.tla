------------------------------ MODULE SumProofs ------------------------------
(***************************************************************************)
(* Sums of a function over a finite set, SumFunctionOnSet of the community *)
(* module Functions, with any number of summands: SumFunctionOnSet is a    *)
(* fold, defined by recursion over the set.  Here is what a sum is when an *)
(* element is added, taken away or changed, of parts and of sums.          *)
(***************************************************************************)
EXTENDS Integers, Functions, FiniteSetTheorems, WellFoundedInduction, TLAPS

Pick(s) == CHOOSE x \in s : TRUE
Fold(f, h, s) == IF s = {} THEN 0 ELSE f[Pick(s)] + h[s \ {Pick(s)}]
IsFold(f, S, h) == h = [s \in SUBSET S |-> Fold(f, h, s)]

(* Induction over the parts of a finite set, with a set for the predicate. *)
LEMMA PartsInduction ==
    ASSUME NEW S, IsFiniteSet(S), NEW T \in SUBSET SUBSET S,
           ASSUME NEW U \in SUBSET S, \A V \in SUBSET U : V # U => V \in T
           PROVE  U \in T
    PROVE  \A U \in SUBSET S : U \in T
<1> DEFINE R == StrictSubsetOrdering(S)
           Bad == (SUBSET S) \ T
<1>1. IsWellFoundedOn(R, SUBSET S)
    BY FS_StrictSubsetOrderingWellFounded, FS_FiniteSubsetsOfFinite
<1>2. SUFFICES ASSUME Bad # {} PROVE FALSE
    OBVIOUS
<1>3. Bad \subseteq SUBSET S
    OBVIOUS
<1>4. PICK U \in Bad : \A V \in Bad : <<V, U>> \notin R
    <2> HIDE DEF R, Bad
    <2> QED BY <1>1, <1>2, <1>3, WFMin
<1>5. ASSUME NEW V \in SUBSET U, V # U PROVE V \in T
    <2>1. <<V, U>> \in R
        BY <1>5 DEF StrictSubsetOrdering
    <2> QED
        BY <1>4, <2>1
<1> QED
    BY <1>5

(* A finite set of integers that is not empty has a greatest element. *)
LEMMA GreatestExists ==
    ASSUME NEW S \in SUBSET Int, IsFiniteSet(S), S # {}
    PROVE  \E x \in S : \A y \in S : x >= y
<1> DEFINE T == {U \in SUBSET S : U # {} => \E x \in U : \A y \in U : x >= y}
<1>1. ASSUME NEW U \in SUBSET S, \A V \in SUBSET U : V # U => V \in T
      PROVE  U \in T
    <2>1. CASE U = {}
        BY <2>1
    <2>2. ASSUME NEW a \in U PROVE U \in T
        <3>1. CASE U = {a}
            BY <3>1, a \in Int
        <3>2. CASE U \ {a} # {}
            <4>1. U \ {a} \in T
                BY <1>1
            <4>2. PICK x \in U \ {a} : \A y \in U \ {a} : x >= y
                BY <3>2, <4>1
            <4>3. a \in Int /\ x \in Int /\ \A y \in U : y \in Int
                OBVIOUS
            <4>4. CASE x >= a
                BY <4>2, <4>3, <4>4
            <4>5. CASE a > x
                <5>1. \A y \in U : a >= y
                    BY <4>2, <4>3, <4>5
                <5> QED
                    BY <5>1
            <4> QED
                BY <4>3, <4>4, <4>5
        <3> QED
            BY <3>1, <3>2
    <2> QED
        BY <2>1, <2>2
<1>2. \A U \in SUBSET S : U \in T
    <2>1. T \in SUBSET SUBSET S
        OBVIOUS
    <2> HIDE DEF T
    <2> QED
        BY <1>1, <2>1, PartsInduction
<1>3. S \in T
    BY <1>2, S \in SUBSET S
<1> QED
    BY <1>3

(* The sum is read off one of the folds. *)
LEMMA SumIsFold ==
    ASSUME NEW f, NEW S
    PROVE  SumFunctionOnSet(f, S) = (CHOOSE h : IsFold(f, S, h))[S]
BY DEF SumFunctionOnSet, FoldFunctionOnSet, MapThenFoldSet, IsFold, Fold, Pick

(* Two folds agree where both are defined. *)
LEMMA FoldIsUnique ==
    ASSUME NEW f, NEW S, IsFiniteSet(S), NEW A, NEW B, S \subseteq A, S \subseteq B,
           NEW g, IsFold(f, A, g), NEW h, IsFold(f, B, h)
    PROVE  g[S] = h[S]
<1> DEFINE T == {U \in SUBSET S : g[U] = h[U]}
<1>1. ASSUME NEW U \in SUBSET S, \A V \in SUBSET U : V # U => V \in T
      PROVE  U \in T
    <2>1. g[U] = Fold(f, g, U) /\ h[U] = Fold(f, h, U)
        BY DEF IsFold
    <2>2. CASE U = {}
        BY <2>1, <2>2 DEF Fold
    <2>3. CASE U # {}
        <3>1. Pick(U) \in U
            BY <2>3 DEF Pick
        <3>2. U \ {Pick(U)} \in T
            BY <1>1, <3>1
        <3> QED
            BY <2>1, <2>3, <3>2 DEF Fold
    <2> QED
        BY <2>2, <2>3
<1>2. \A U \in SUBSET S : U \in T
    <2>1. T \in SUBSET SUBSET S
        OBVIOUS
    <2> HIDE DEF T
    <2> QED BY <1>1, <2>1, PartsInduction
<1>3. S \in T
    BY <1>2, S \in SUBSET S
<1> QED
    BY <1>3

(* There is a fold over every finite set. *)
LEMMA FoldExists ==
    ASSUME NEW f, NEW S, IsFiniteSet(S)
    PROVE  \E h : IsFold(f, S, h)
<1> DEFINE T == {U \in SUBSET S : \E h : IsFold(f, U, h)}
<1>1. ASSUME NEW U \in SUBSET S, \A V \in SUBSET U : V # U => V \in T
      PROVE  U \in T
    <2> DEFINE H(V) == CHOOSE h : IsFold(f, V, h)
               Lower(V) == H(V)[V]
               Value(V) == IF V = {} THEN 0 ELSE f[Pick(V)] + Lower(V \ {Pick(V)})
               h == [V \in SUBSET U |-> Value(V)]
    <2>1. ASSUME NEW V \in SUBSET U, V # U PROVE IsFold(f, V, H(V))
        <3>1. V \in T
            BY <1>1, <2>1
        <3> QED BY <3>1
    <2>2. ASSUME NEW V \in SUBSET U, V # U PROVE H(V)[V] = Value(V)
        <3>1. IsFold(f, V, H(V))
            BY <2>1, <2>2
        <3>2. H(V)[V] = Fold(f, H(V), V)
            BY <3>1 DEF IsFold
        <3>3. CASE V = {}
            BY <3>2, <3>3 DEF Fold
        <3>4. CASE V # {}
            <4> DEFINE W == V \ {Pick(V)}
            <4>1. Pick(V) \in V
                BY <3>4 DEF Pick
            <4>2. W \in SUBSET U /\ W # U /\ W \subseteq V
                BY <4>1
            <4>3. IsFold(f, W, H(W))
                BY <4>2, <2>1
            <4>4. IsFiniteSet(W)
                BY <4>2, FS_Subset
            <4>5. H(V)[W] = H(W)[W]
                <5> HIDE DEF H, W
                <5> QED BY <3>1, <4>2, <4>3, <4>4, FoldIsUnique
            <4> QED
                BY <3>2, <3>4, <4>5 DEF Fold
        <3> QED
            BY <3>3, <3>4
    <2>3. ASSUME NEW V \in SUBSET U PROVE h[V] = Fold(f, h, V)
        <3>1. CASE V = {}
            BY <3>1 DEF Fold
        <3>2. CASE V # {}
            <4> DEFINE W == V \ {Pick(V)}
            <4>1. Pick(V) \in V
                BY <3>2 DEF Pick
            <4>2. W \in SUBSET U /\ W # U
                BY <4>1
            <4>3. Lower(W) = Value(W)
                BY <4>2, <2>2
            <4>4. h[W] = Value(W) /\ h[V] = Value(V)
                BY <4>2
            <4>5. Value(V) = f[Pick(V)] + Lower(W)
                BY <3>2
            <4> HIDE DEF Value, Lower, h
            <4> QED
                BY <3>2, <4>3, <4>4, <4>5 DEF Fold
        <3> QED
            BY <3>1, <3>2
    <2>4. IsFold(f, U, h)
        <3> HIDE DEF Value
        <3>1. \A V \in SUBSET U : Value(V) = Fold(f, h, V)
            BY <2>3
        <3> QED BY <3>1 DEF IsFold
    <2> QED
        BY <2>4
<1>2. \A U \in SUBSET S : U \in T
    <2>1. T \in SUBSET SUBSET S
        OBVIOUS
    <2> HIDE DEF T
    <2> QED BY <1>1, <2>1, PartsInduction
<1>3. S \in T
    BY <1>2, S \in SUBSET S
<1> QED
    BY <1>3

(* Any fold over a set gives the sums over its parts. *)
LEMMA SumByFold ==
    ASSUME NEW f, NEW S, IsFiniteSet(S), NEW h, IsFold(f, S, h), NEW U \in SUBSET S
    PROVE  SumFunctionOnSet(f, U) = h[U]
<1>1. IsFiniteSet(U)
    BY FS_Subset
<1>2. \E g : IsFold(f, U, g)
    BY <1>1, FoldExists
<1> DEFINE k == CHOOSE g : IsFold(f, U, g)
<1>3. IsFold(f, U, k)
    BY <1>2
<1>4. SumFunctionOnSet(f, U) = k[U]
    BY SumIsFold
<1> HIDE DEF k
<1>5. U \subseteq U /\ U \subseteq S
    OBVIOUS
<1>6. k[U] = h[U]
    BY <1>1, <1>3, <1>5, FoldIsUnique
<1> QED
    BY <1>4, <1>6

(* The sum over nothing is zero. *)
LEMMA SumOfNone ==
    ASSUME NEW f
    PROVE  SumFunctionOnSet(f, {}) = 0
<1>1. PICK h : IsFold(f, {}, h)
    BY FoldExists, FS_EmptySet
<1>2. SumFunctionOnSet(f, {}) = h[{}]
    BY <1>1, FS_EmptySet, SumByFold
<1> QED
    BY <1>1, <1>2 DEF IsFold, Fold

(* The element the definition takes first. *)
LEMMA SumOfPick ==
    ASSUME NEW f, NEW S, IsFiniteSet(S), S # {}
    PROVE  /\ Pick(S) \in S
           /\ SumFunctionOnSet(f, S) = f[Pick(S)] + SumFunctionOnSet(f, S \ {Pick(S)})
<1>1. Pick(S) \in S
    BY DEF Pick
<1>2. PICK h : IsFold(f, S, h)
    BY FoldExists
<1>3. h[S] = f[Pick(S)] + h[S \ {Pick(S)}]
    BY <1>2 DEF IsFold, Fold
<1>4. SumFunctionOnSet(f, S) = h[S]
    BY <1>2, SumByFold
<1>5. SumFunctionOnSet(f, S \ {Pick(S)}) = h[S \ {Pick(S)}]
    BY <1>2, SumByFold
<1> QED
    BY <1>1, <1>3, <1>4, <1>5

(* A sum of integers is an integer. *)
LEMMA SumIsInt ==
    ASSUME NEW f, NEW S, IsFiniteSet(S), \A x \in S : f[x] \in Int
    PROVE  SumFunctionOnSet(f, S) \in Int
<1> DEFINE T == {U \in SUBSET S : SumFunctionOnSet(f, U) \in Int}
<1>1. ASSUME NEW U \in SUBSET S, \A V \in SUBSET U : V # U => V \in T
      PROVE  U \in T
    <2>1. CASE U = {}
        BY <2>1, SumOfNone
    <2>2. CASE U # {}
        <3>1. IsFiniteSet(U)
            BY FS_Subset
        <3>2. /\ Pick(U) \in U
              /\ SumFunctionOnSet(f, U) = f[Pick(U)] + SumFunctionOnSet(f, U \ {Pick(U)})
            BY <2>2, <3>1, SumOfPick
        <3>3. U \ {Pick(U)} \in T
            BY <1>1, <3>2
        <3> QED
            BY <3>2, <3>3
    <2> QED
        BY <2>1, <2>2
<1>2. \A U \in SUBSET S : U \in T
    <2>1. T \in SUBSET SUBSET S
        OBVIOUS
    <2> HIDE DEF T
    <2> QED BY <1>1, <2>1, PartsInduction
<1>3. S \in T
    BY <1>2, S \in SUBSET S
<1> QED
    BY <1>3

(* Any element may be taken first. *)
LEMMA SumOfRest ==
    ASSUME NEW f, NEW S, IsFiniteSet(S), \A x \in S : f[x] \in Int, NEW a \in S
    PROVE  SumFunctionOnSet(f, S) = f[a] + SumFunctionOnSet(f, S \ {a})
<1> DEFINE Sum(U) == SumFunctionOnSet(f, U)
           T == {U \in SUBSET S : \A x \in U : Sum(U) = f[x] + Sum(U \ {x})}
<1>1. ASSUME NEW U \in SUBSET S, \A V \in SUBSET U : V # U => V \in T
      PROVE  U \in T
    <2> SUFFICES ASSUME NEW x \in U PROVE Sum(U) = f[x] + Sum(U \ {x})
        OBVIOUS
    <2> DEFINE p == Pick(U)
               W == U \ {p}
    <2>1. IsFiniteSet(U)
        BY FS_Subset
    <2>2. p \in U /\ Sum(U) = f[p] + Sum(W)
        BY <2>1, SumOfPick
    <2>3. CASE x = p
        BY <2>2, <2>3
    <2>4. CASE x # p
        <3> DEFINE V == U \ {x}
                   Z == W \ {x}
        <3>1. Sum(W) = f[x] + Sum(Z)
            <4>1. W \in T /\ x \in W
                BY <1>1, <2>2, <2>4
            <4> QED BY <4>1
        <3>2. Sum(V) = f[p] + Sum(Z)
            <4>1. V \in T /\ p \in V /\ V \ {p} = Z
                BY <1>1, <2>2, <2>4
            <4> QED BY <4>1
        <3>3. Sum(Z) \in Int
            <4>1. Z \subseteq S /\ IsFiniteSet(Z)
                <5>1. Z \in SUBSET S
                    OBVIOUS
                <5> QED BY <5>1, FS_Subset
            <4> QED BY <4>1, SumIsInt
        <3>4. f[x] \in Int /\ f[p] \in Int
            BY <2>2
        <3> HIDE DEF Sum, V, W, Z
        <3> QED BY <2>2, <3>1, <3>2, <3>3, <3>4 DEF V
    <2> QED
        BY <2>3, <2>4
<1>2. \A U \in SUBSET S : U \in T
    <2>1. T \in SUBSET SUBSET S
        OBVIOUS
    <2> HIDE DEF T
    <2> QED BY <1>1, <2>1, PartsInduction
<1>3. S \in T
    BY <1>2, S \in SUBSET S
<1> QED
    BY <1>3

(* An element more. *)
LEMMA SumOfOneMore ==
    ASSUME NEW f, NEW S, IsFiniteSet(S), NEW a, a \notin S,
           \A x \in S \cup {a} : f[x] \in Int
    PROVE  SumFunctionOnSet(f, S \cup {a}) = f[a] + SumFunctionOnSet(f, S)
<1>1. IsFiniteSet(S \cup {a})
    BY FS_AddElement
<1>2. (S \cup {a}) \ {a} = S
    OBVIOUS
<1>3. SumFunctionOnSet(f, S \cup {a}) = f[a] + SumFunctionOnSet(f, (S \cup {a}) \ {a})
    BY <1>1, SumOfRest
<1> QED
    BY <1>2, <1>3

(* The sum depends on nothing but the values that are summed. *)
LEMMA SameValuesSameSum ==
    ASSUME NEW S, IsFiniteSet(S), NEW f, NEW g, \A x \in S : f[x] = g[x]
    PROVE  SumFunctionOnSet(f, S) = SumFunctionOnSet(g, S)
<1> DEFINE T == {U \in SUBSET S : SumFunctionOnSet(f, U) = SumFunctionOnSet(g, U)}
<1>1. ASSUME NEW U \in SUBSET S, \A V \in SUBSET U : V # U => V \in T
      PROVE  U \in T
    <2>1. CASE U = {}
        BY <2>1, SumOfNone
    <2>2. CASE U # {}
        <3>1. IsFiniteSet(U)
            BY FS_Subset
        <3>2. /\ Pick(U) \in U
              /\ SumFunctionOnSet(f, U) = f[Pick(U)] + SumFunctionOnSet(f, U \ {Pick(U)})
              /\ SumFunctionOnSet(g, U) = g[Pick(U)] + SumFunctionOnSet(g, U \ {Pick(U)})
            BY <2>2, <3>1, SumOfPick
        <3>3. U \ {Pick(U)} \in T
            BY <1>1, <3>2
        <3> QED
            BY <3>2, <3>3
    <2> QED
        BY <2>1, <2>2
<1>2. \A U \in SUBSET S : U \in T
    <2>1. T \in SUBSET SUBSET S
        OBVIOUS
    <2> HIDE DEF T
    <2> QED BY <1>1, <2>1, PartsInduction
<1>3. S \in T
    BY <1>2, S \in SUBSET S
<1> QED
    BY <1>3

(* A sum of natural numbers is one. *)
LEMMA SumIsNat ==
    ASSUME NEW S, IsFiniteSet(S), NEW f, \A x \in S : f[x] \in Nat
    PROVE  SumFunctionOnSet(f, S) \in Nat
<1> DEFINE T == {U \in SUBSET S : SumFunctionOnSet(f, U) \in Nat}
<1>1. ASSUME NEW U \in SUBSET S, \A V \in SUBSET U : V # U => V \in T
      PROVE  U \in T
    <2>1. CASE U = {}
        BY <2>1, SumOfNone
    <2>2. CASE U # {}
        <3>1. IsFiniteSet(U)
            BY FS_Subset
        <3>2. /\ Pick(U) \in U
              /\ SumFunctionOnSet(f, U) = f[Pick(U)] + SumFunctionOnSet(f, U \ {Pick(U)})
            BY <2>2, <3>1, SumOfPick
        <3>3. U \ {Pick(U)} \in T
            BY <1>1, <3>2
        <3> QED
            BY <3>2, <3>3
    <2> QED
        BY <2>1, <2>2
<1>2. \A U \in SUBSET S : U \in T
    <2>1. T \in SUBSET SUBSET S
        OBVIOUS
    <2> HIDE DEF T
    <2> QED BY <1>1, <2>1, PartsInduction
<1>3. S \in T
    BY <1>2, S \in SUBSET S
<1> QED
    BY <1>3

(* Zeros sum up to zero. *)
LEMMA SumOfZeros ==
    ASSUME NEW S, IsFiniteSet(S), NEW f, \A x \in S : f[x] = 0
    PROVE  SumFunctionOnSet(f, S) = 0
<1> DEFINE T == {U \in SUBSET S : SumFunctionOnSet(f, U) = 0}
<1>1. ASSUME NEW U \in SUBSET S, \A V \in SUBSET U : V # U => V \in T
      PROVE  U \in T
    <2>1. CASE U = {}
        BY <2>1, SumOfNone
    <2>2. CASE U # {}
        <3>1. IsFiniteSet(U)
            BY FS_Subset
        <3>2. /\ Pick(U) \in U
              /\ SumFunctionOnSet(f, U) = f[Pick(U)] + SumFunctionOnSet(f, U \ {Pick(U)})
            BY <2>2, <3>1, SumOfPick
        <3>3. U \ {Pick(U)} \in T
            BY <1>1, <3>2
        <3> QED
            BY <3>2, <3>3
    <2> QED
        BY <2>1, <2>2
<1>2. \A U \in SUBSET S : U \in T
    <2>1. T \in SUBSET SUBSET S
        OBVIOUS
    <2> HIDE DEF T
    <2> QED BY <1>1, <2>1, PartsInduction
<1>3. S \in T
    BY <1>2, S \in SUBSET S
<1> QED
    BY <1>3

(* One value changed. *)
LEMMA SumWithOneChanged ==
    ASSUME NEW S, IsFiniteSet(S), NEW f, NEW g, NEW a \in S,
           \A x \in S : f[x] \in Int, g[a] \in Int,
           \A x \in S : x # a => g[x] = f[x]
    PROVE  SumFunctionOnSet(g, S) = SumFunctionOnSet(f, S) - f[a] + g[a]
<1> DEFINE R == S \ {a}
<1>1. IsFiniteSet(R)
    BY FS_Subset, R \in SUBSET S
<1>2. SumFunctionOnSet(f, S) = f[a] + SumFunctionOnSet(f, R)
    BY SumOfRest
<1>3. SumFunctionOnSet(g, S) = g[a] + SumFunctionOnSet(g, R)
    <2>1. \A x \in S : g[x] \in Int
        OBVIOUS
    <2> QED BY <2>1, SumOfRest
<1>4. SumFunctionOnSet(f, R) = SumFunctionOnSet(g, R)
    BY <1>1, SameValuesSameSum
<1>5. SumFunctionOnSet(f, R) \in Int
    BY <1>1, SumIsInt
<1> HIDE DEF R
<1> QED
    BY <1>2, <1>3, <1>4, <1>5

(* Two parts that have nothing in common. *)
LEMMA SumOfTwoParts ==
    ASSUME NEW S, IsFiniteSet(S), NEW f, \A x \in S : f[x] \in Int, NEW P \in SUBSET S
    PROVE  SumFunctionOnSet(f, S) = SumFunctionOnSet(f, P) + SumFunctionOnSet(f, S \ P)
<1> DEFINE Sum(U) == SumFunctionOnSet(f, U)
           T == {U \in SUBSET P : Sum(S) = Sum(U) + Sum(S \ U)}
<1>1. IsFiniteSet(P)
    BY FS_Subset
<1>2. ASSUME NEW U \in SUBSET P, \A V \in SUBSET U : V # U => V \in T
      PROVE  U \in T
    <2>1. CASE U = {}
        <3>1. S \ U = S
            BY <2>1
        <3>2. Sum(S) = Sum(S \ U) /\ Sum(U) = 0
            BY <2>1, <3>1, SumOfNone
        <3>3. Sum(S) \in Int
            BY SumIsInt
        <3> HIDE DEF Sum
        <3> QED BY <3>2, <3>3
    <2>2. CASE U # {}
        <3>1. PICK a \in U : TRUE
            BY <2>2
        <3> DEFINE V == U \ {a}
                   Rest == S \ U
        <3>2. Sum(S) = Sum(V) + Sum(S \ V)
            BY <1>2
        <3>3. S \ V = Rest \cup {a} /\ a \notin Rest /\ Rest \in SUBSET S
            OBVIOUS
        <3>4. IsFiniteSet(Rest)
            BY <3>3, FS_Subset
        <3>5. Sum(S \ V) = f[a] + Sum(Rest)
            <4>1. \A x \in Rest \cup {a} : f[x] \in Int
                OBVIOUS
            <4> QED BY <3>3, <3>4, <4>1, SumOfOneMore
        <3>6. Sum(U) = f[a] + Sum(V)
            <4>1. IsFiniteSet(U)
                BY FS_Subset
            <4> QED BY <4>1, SumOfRest
        <3>7. Sum(V) \in Int /\ Sum(Rest) \in Int /\ f[a] \in Int
            <4>1. V \in SUBSET S /\ IsFiniteSet(V)
                <5>1. V \in SUBSET S
                    OBVIOUS
                <5> QED BY <5>1, FS_Subset
            <4> QED BY <3>3, <3>4, <4>1, SumIsInt
        <3>8. Sum(S) = Sum(U) + Sum(Rest)
            <4> HIDE DEF Sum, V, Rest
            <4> QED BY <3>2, <3>5, <3>6, <3>7
        <3> QED
            BY <3>8
    <2> QED
        BY <2>1, <2>2
<1>3. \A U \in SUBSET P : U \in T
    <2>1. T \in SUBSET SUBSET P
        OBVIOUS
    <2> HIDE DEF T
    <2> QED BY <1>1, <1>2, <2>1, PartsInduction
<1>4. P \in T
    BY <1>3, P \in SUBSET P
<1> QED
    BY <1>4

(* A part sums up to no more than the whole does. *)
LEMMA SumOfPart ==
    ASSUME NEW S, IsFiniteSet(S), NEW f, \A x \in S : f[x] \in Nat, NEW P \in SUBSET S
    PROVE  SumFunctionOnSet(f, P) <= SumFunctionOnSet(f, S)
<1>1. IsFiniteSet(P) /\ IsFiniteSet(S \ P)
    BY FS_Subset, S \ P \in SUBSET S
<1>2. SumFunctionOnSet(f, P) \in Nat /\ SumFunctionOnSet(f, S \ P) \in Nat
    BY <1>1, SumIsNat
<1>3. SumFunctionOnSet(f, S) = SumFunctionOnSet(f, P) + SumFunctionOnSet(f, S \ P)
    BY SumOfTwoParts
<1> QED
    BY <1>2, <1>3

(* Values outside a part that are zero do not count. *)
LEMMA SumWhere ==
    ASSUME NEW S, IsFiniteSet(S), NEW P \in SUBSET S, NEW f, NEW g,
           \A x \in P : f[x] \in Int /\ g[x] = f[x], \A x \in S \ P : g[x] = 0
    PROVE  SumFunctionOnSet(g, S) = SumFunctionOnSet(f, P)
<1>1. IsFiniteSet(P) /\ IsFiniteSet(S \ P)
    BY FS_Subset, S \ P \in SUBSET S
<1>2. SumFunctionOnSet(g, S) = SumFunctionOnSet(g, P) + SumFunctionOnSet(g, S \ P)
    <2>1. \A x \in S : g[x] \in Int
        OBVIOUS
    <2> QED
        BY <2>1, SumOfTwoParts
<1>3. SumFunctionOnSet(g, P) = SumFunctionOnSet(f, P)
    BY <1>1, SameValuesSameSum
<1>4. SumFunctionOnSet(g, S \ P) = 0
    BY <1>1, SumOfZeros
<1>5. SumFunctionOnSet(f, P) \in Int
    BY <1>1, SumIsInt
<1> QED
    BY <1>2, <1>3, <1>4, <1>5

(* The sum of sums. *)
LEMMA SumOfSums ==
    ASSUME NEW S, IsFiniteSet(S), NEW f, NEW g, NEW h,
           \A x \in S : f[x] \in Int /\ g[x] \in Int /\ h[x] = f[x] + g[x]
    PROVE  SumFunctionOnSet(h, S) = SumFunctionOnSet(f, S) + SumFunctionOnSet(g, S)
<1> DEFINE T == {U \in SUBSET S :
                    SumFunctionOnSet(h, U) = SumFunctionOnSet(f, U) + SumFunctionOnSet(g, U)}
<1>1. ASSUME NEW U \in SUBSET S, \A V \in SUBSET U : V # U => V \in T
      PROVE  U \in T
    <2>1. CASE U = {}
        BY <2>1, SumOfNone
    <2>2. CASE U # {}
        <3> DEFINE V == U \ {Pick(U)}
        <3>1. IsFiniteSet(U) /\ IsFiniteSet(V) /\ V \in SUBSET S
            <4>1. V \in SUBSET S
                OBVIOUS
            <4> QED
                BY <4>1, FS_Subset
        <3>2. /\ Pick(U) \in U
              /\ SumFunctionOnSet(f, U) = f[Pick(U)] + SumFunctionOnSet(f, V)
              /\ SumFunctionOnSet(g, U) = g[Pick(U)] + SumFunctionOnSet(g, V)
              /\ SumFunctionOnSet(h, U) = h[Pick(U)] + SumFunctionOnSet(h, V)
            BY <2>2, <3>1, SumOfPick
        <3>3. SumFunctionOnSet(h, V) = SumFunctionOnSet(f, V) + SumFunctionOnSet(g, V)
            BY <1>1, <3>2
        <3>4. SumFunctionOnSet(f, V) \in Int /\ SumFunctionOnSet(g, V) \in Int
            BY <3>1, SumIsInt
        <3> HIDE DEF V
        <3> QED
            BY <3>2, <3>3, <3>4
    <2> QED
        BY <2>1, <2>2
<1>2. \A U \in SUBSET S : U \in T
    <2>1. T \in SUBSET SUBSET S
        OBVIOUS
    <2> HIDE DEF T
    <2> QED BY <1>1, <2>1, PartsInduction
<1>3. S \in T
    BY <1>2, S \in SUBSET S
<1> QED
    BY <1>3

(* A sum of larger naturals is no smaller. *)
LEMMA SumGrows ==
    ASSUME NEW S, IsFiniteSet(S), NEW f, NEW g,
           \A x \in S : f[x] \in Nat /\ g[x] \in Nat /\ f[x] <= g[x]
    PROVE  SumFunctionOnSet(g, S) - SumFunctionOnSet(f, S) \in Nat
<1> DEFINE h == [x \in S |-> g[x] - f[x]]
<1>1. \A x \in S : h[x] \in Nat /\ f[x] \in Int /\ h[x] \in Int /\ g[x] = f[x] + h[x]
    OBVIOUS
<1> HIDE DEF h
<1>2. SumFunctionOnSet(g, S) = SumFunctionOnSet(f, S) + SumFunctionOnSet(h, S)
    BY <1>1, SumOfSums
<1>3. SumFunctionOnSet(f, S) \in Nat /\ SumFunctionOnSet(h, S) \in Nat
    BY <1>1, SumIsNat
<1> QED
    BY <1>2, <1>3

=============================================================================
