----------------------------- MODULE SetInduction -----------------------------
(***************************************************************************)
(* Induction over naturals and over finite sets, stated about sets: a      *)
(* predicate to prove is the set of the numbers, or of the subsets, that   *)
(* satisfy it.  The pigeonhole principle of FiniteSetTheorems carries it.  *)
(* With it, what the sums of the models are.                               *)
(***************************************************************************)
EXTENDS Integers, Functions, FiniteSetsExt, FiniteSetTheorems, TLAPS

(* A set with 0 and every successor has all the naturals: else its elements *)
(* up to the first missing one would fit into themselves without 0.         *)
LEMMA NatSetInduction ==
    ASSUME NEW T, 0 \in T, \A n \in T \cap Nat : n + 1 \in T
    PROVE  Nat \subseteq T
<1> SUFFICES ASSUME NEW m \in Nat, m \notin T PROVE FALSE
    OBVIOUS
<1> DEFINE A == T \cap (0..m)
           next == [n \in A |-> n + 1]
<1>1. IsFiniteSet(A)
    <2>1. IsFiniteSet(0..m)
        BY FS_Interval
    <2>2. A \in SUBSET (0..m)
        OBVIOUS
    <2>. QED BY <2>1, <2>2, FS_Subset
<1>2. 0 \in A
    OBVIOUS
<1>3. IsFiniteSet(A \ {0}) /\ Cardinality(A \ {0}) = Cardinality(A) - 1
    BY <1>1, <1>2, FS_RemoveElement
<1>4. Cardinality(A \ {0}) < Cardinality(A)
    BY <1>1, <1>3, FS_CardinalityType
<1>5. next \in [A -> A \ {0}]
    <2> SUFFICES ASSUME NEW n \in A PROVE n + 1 \in A /\ n + 1 # 0
        OBVIOUS
    <2>1. n \in Nat /\ n <= m /\ n # m
        OBVIOUS
    <2>. QED BY <2>1
<1>6. \A x, y \in A : next[x] = next[y] => x = y
    OBVIOUS
<1> HIDE DEF A, next
<1>7. \E x, y \in A : x # y /\ next[x] = next[y]
    BY <1>1, <1>3, <1>4, <1>5, FS_PigeonHole
<1>. QED BY <1>6, <1>7

(* A family with {} and whatever is one element larger than a member has    *)
(* every subset of a finite set.                                            *)
LEMMA FiniteSetInduction ==
    ASSUME NEW S, IsFiniteSet(S), NEW F, {} \in F,
           \A U \in SUBSET S, x \in S : U \in F /\ x \notin U => U \cup {x} \in F
    PROVE  S \in F
<1> DEFINE T == {n \in Nat : \A U \in SUBSET S : Cardinality(U) = n => U \in F}
<1>1. 0 \in T
    <2> SUFFICES ASSUME NEW U \in SUBSET S, Cardinality(U) = 0 PROVE U \in F
        OBVIOUS
    <2>1. U = {}
        BY FS_Subset, FS_EmptySet
    <2>. QED BY <2>1
<1>2. ASSUME NEW n \in T \cap Nat PROVE n + 1 \in T
    <2> SUFFICES ASSUME NEW U \in SUBSET S, Cardinality(U) = n + 1 PROVE U \in F
        OBVIOUS
    <2>1. IsFiniteSet(U)
        BY FS_Subset
    <2>2. U # {}
        BY FS_EmptySet
    <2>3. PICK x \in U : TRUE
        BY <2>2
    <2>4. Cardinality(U \ {x}) = n
        <3>1. Cardinality(U \ {x}) = Cardinality(U) - 1
            BY <2>1, FS_RemoveElement
        <3>. QED BY <3>1
    <2>5. U \ {x} \in F
        BY <2>4
    <2>6. (U \ {x}) \cup {x} \in F
        BY <2>5
    <2>7. (U \ {x}) \cup {x} = U
        OBVIOUS
    <2>. QED BY <2>6, <2>7
<1>3. Nat \subseteq T
    <2> HIDE DEF T
    <2>. QED BY <1>1, <1>2, NatSetInduction
<1>4. Cardinality(S) \in T
    BY <1>3, FS_CardinalityType
<1>. QED BY <1>4

(* The sums of the first k terms of a sequence exist as a recursive function. *)
LEMMA PrefixSumsExist ==
    ASSUME NEW log, NEW n \in Nat
    PROVE  \E f : f = [i \in 0..n |-> IF i = 0 THEN 0 ELSE f[i - 1] + log[i]]
<1> DEFINE Is(f, k) == f = [i \in 0..k |-> IF i = 0 THEN 0 ELSE f[i - 1] + log[i]]
           T == {k \in Nat : \E f : Is(f, k)}
<1>1. 0 \in T
    <2>1. Is([i \in 0..0 |-> 0], 0)
        OBVIOUS
    <2>. QED BY <2>1
<1>2. ASSUME NEW k \in T \cap Nat PROVE k + 1 \in T
    <2>1. PICK f : Is(f, k)
        OBVIOUS
    <2> DEFINE g == [i \in 0..(k + 1) |-> IF i = k + 1 THEN f[k] + log[k + 1] ELSE f[i]]
    <2>2. Is(g, k + 1)
        BY <2>1
    <2> HIDE DEF g
    <2>. QED BY <2>2
<1>3. n \in T
    <2> HIDE DEF T
    <2>. QED BY <1>1, <1>2, NatSetInduction
<1>. QED BY <1>3

-----------------------------------------------------------------------------
(* Sums over finite sets: SumFunctionOnSet takes the elements one by one, in  *)
(* an order of its own, which makes no difference.                           *)

Chosen(U) == CHOOSE x \in U : TRUE
Rest(U) == U \ {Chosen(U)}
Peels(w, U, f) == IF U = {} THEN 0 ELSE w[Chosen(U)] + f[Rest(U)]

(* The library's recursion written with the two operators above.             *)
LEMMA SumUnfolds ==
    ASSUME NEW w, NEW S
    PROVE  SumFunctionOnSet(w, S) = (CHOOSE f : f = [U \in SUBSET S |-> Peels(w, U, f)])[S]
BY DEF SumFunctionOnSet, FoldFunctionOnSet, MapThenFoldSet, Peels, Chosen, Rest

(* The rest of a set has one element less.                                  *)
LEMMA RestIs ==
    ASSUME NEW U, IsFiniteSet(U), U # {}
    PROVE  /\ Chosen(U) \in U /\ Rest(U) \subseteq U
           /\ IsFiniteSet(Rest(U)) /\ Cardinality(Rest(U)) = Cardinality(U) - 1
           /\ Cardinality(U) \in Nat \ {0}
<1>1. Chosen(U) \in U
    BY DEF Chosen
<1>. QED BY <1>1, FS_RemoveElement, FS_CardinalityType, FS_EmptySet DEF Rest

(* The recursion has a solution, on the sets of at most n elements for every *)
(* n.                                                                        *)
LEMMA PeelExists ==
    ASSUME NEW w, NEW S, IsFiniteSet(S)
    PROVE  \E f : f = [U \in SUBSET S |-> Peels(w, U, f)]
<1> DEFINE Of(n) == {U \in SUBSET S : Cardinality(U) <= n}
           Up(n, f) == f = [U \in Of(n) |-> Peels(w, U, f)]
           T == {n \in Nat : \E f : Up(n, f)}
<1>2. 0 \in T
    <2> DEFINE g == [U \in Of(0) |-> 0]
    <2>1. ASSUME NEW U \in Of(0) PROVE U = {}
        <3>1. U \in SUBSET S /\ Cardinality(U) <= 0
            OBVIOUS
        <3>. QED BY <3>1, FS_Subset, FS_CardinalityType, FS_EmptySet
    <2>2. Up(0, g)
        BY <2>1 DEF Peels
    <2>. QED BY <2>2
<1>3. ASSUME NEW n \in T \cap Nat PROVE n + 1 \in T
    <2>1. PICK f : Up(n, f)
        OBVIOUS
    <2> DEFINE g == [U \in Of(n + 1) |-> Peels(w, U, f)]
    <2>2. ASSUME NEW U \in Of(n) PROVE U \in Of(n + 1) /\ g[U] = f[U]
        <3>1. U \in Of(n + 1)
            <4>1. U \in SUBSET S /\ Cardinality(U) <= n
                OBVIOUS
            <4>2. Cardinality(U) \in Nat
                BY <4>1, FS_Subset, FS_CardinalityType
            <4>. QED BY <4>1, <4>2
        <3>2. f[U] = Peels(w, U, f)
            BY <2>1
        <3>. QED BY <3>1, <3>2
    <2>3. ASSUME NEW U \in Of(n + 1), U # {} PROVE Rest(U) \in Of(n)
        <3>1. U \in SUBSET S /\ Cardinality(U) <= n + 1
            BY <2>3
        <3>2. IsFiniteSet(U)
            BY <3>1, FS_Subset
        <3>3. /\ Rest(U) \subseteq U /\ Cardinality(Rest(U)) = Cardinality(U) - 1
              /\ Cardinality(U) \in Nat \ {0}
            BY <2>3, <3>2, RestIs
        <3>. QED BY <3>1, <3>3
    <2>4. ASSUME NEW U \in Of(n + 1) PROVE Peels(w, U, f) = Peels(w, U, g)
        BY <2>2, <2>3 DEF Peels
    <2>5. Up(n + 1, g)
        <3> HIDE DEF Of
        <3>. QED BY <2>4
    <2>6. \E h : Up(n + 1, h)
        <3> HIDE DEF Up
        <3>. QED BY <2>5
    <2>7. n + 1 \in Nat
        OBVIOUS
    <2> HIDE DEF Up
    <2>. QED BY <2>6, <2>7
<1>4. Cardinality(S) \in T
    <2> HIDE DEF T
    <2>1. Cardinality(S) \in Nat
        BY FS_CardinalityType
    <2>. QED BY <1>2, <1>3, <2>1, NatSetInduction
<1>5. PICK f : Up(Cardinality(S), f)
    BY <1>4
<1>6. Of(Cardinality(S)) = SUBSET S
    BY FS_Subset
<1>. QED BY <1>5, <1>6

(* What a sum over a set is made of.                                         *)
LEMMA SumPeels ==
    ASSUME NEW w, NEW S, IsFiniteSet(S)
    PROVE  /\ S = {} => SumFunctionOnSet(w, S) = 0
           /\ S # {} => SumFunctionOnSet(w, S) = w[Chosen(S)] + SumFunctionOnSet(w, Rest(S))
<1> DEFINE Is(D, f) == f = [U \in SUBSET D |-> Peels(w, U, f)]
           sum(D) == CHOOSE f : Is(D, f)
<1>1. ASSUME NEW D, IsFiniteSet(D) PROVE Is(D, sum(D)) /\ SumFunctionOnSet(w, D) = sum(D)[D]
    <2>1. \E f : Is(D, f)
        BY <1>1, PeelExists
    <2>2. Is(D, sum(D))
        <3> HIDE DEF Is
        <3>. QED BY <2>1
    <2>. QED BY <2>2, SumUnfolds
<1>2. ASSUME NEW D \in SUBSET S PROVE sum(D)[D] = sum(S)[D]
    <2> DEFINE T == {n \in Nat : \A U \in SUBSET D : Cardinality(U) = n => sum(D)[U] = sum(S)[U]}
    <2>0. IsFiniteSet(D) /\ \A U \in SUBSET D : IsFiniteSet(U)
        BY FS_Subset
    <2>1. /\ \A U \in SUBSET D : sum(D)[U] = Peels(w, U, sum(D))
          /\ \A U \in SUBSET D : sum(S)[U] = Peels(w, U, sum(S))
        BY <1>1, <2>0
    <2> HIDE DEF sum
    <2>2. 0 \in T
        <3> SUFFICES ASSUME NEW U \in SUBSET D, Cardinality(U) = 0 PROVE sum(D)[U] = sum(S)[U]
            OBVIOUS
        <3>1. U = {}
            BY <2>0, FS_EmptySet
        <3>. QED BY <2>1, <3>1 DEF Peels
    <2>3. ASSUME NEW n \in T \cap Nat PROVE n + 1 \in T
        <3> SUFFICES ASSUME NEW U \in SUBSET D, Cardinality(U) = n + 1
                     PROVE  sum(D)[U] = sum(S)[U]
            OBVIOUS
        <3>1. U # {}
            BY FS_EmptySet
        <3>2. Rest(U) \in SUBSET D /\ Cardinality(Rest(U)) = n
            BY <2>0, <3>1, RestIs
        <3>3. sum(D)[Rest(U)] = sum(S)[Rest(U)]
            BY <3>2
        <3>. QED BY <2>1, <3>1, <3>3 DEF Peels
    <2>4. Cardinality(D) \in T
        <3> HIDE DEF T
        <3>1. Cardinality(D) \in Nat
            BY <2>0, FS_CardinalityType
        <3>. QED BY <2>2, <2>3, <3>1, NatSetInduction
    <2>. QED BY <2>4
<1>3. sum(S)[S] = Peels(w, S, sum(S))
    BY <1>1
<1>4. CASE S = {}
    BY <1>1, <1>3, <1>4 DEF Peels
<1>5. CASE S # {}
    <2>1. Rest(S) \in SUBSET S /\ IsFiniteSet(Rest(S))
        BY <1>5, RestIs
    <2>2. SumFunctionOnSet(w, Rest(S)) = sum(S)[Rest(S)]
        BY <1>1, <1>2, <2>1
    <2>. QED BY <1>1, <1>3, <1>5, <2>2 DEF Peels
<1>. QED BY <1>4, <1>5

(* A sum of naturals is one.                                                 *)
LEMMA SumIsNat ==
    ASSUME NEW w, NEW S, IsFiniteSet(S), \A x \in S : w[x] \in Nat
    PROVE  SumFunctionOnSet(w, S) \in Nat
<1> DEFINE sum(U) == SumFunctionOnSet(w, U)
           T == {n \in Nat : \A U \in SUBSET S : Cardinality(U) = n => sum(U) \in Nat}
<1>1. 0 \in T
    <2> SUFFICES ASSUME NEW U \in SUBSET S, Cardinality(U) = 0 PROVE sum(U) \in Nat
        OBVIOUS
    <2>1. U = {}
        BY FS_Subset, FS_EmptySet
    <2>2. sum(U) = 0
        BY <2>1, FS_EmptySet, SumPeels
    <2>. QED BY <2>2
<1>2. ASSUME NEW n \in T \cap Nat PROVE n + 1 \in T
    <2> SUFFICES ASSUME NEW U \in SUBSET S, Cardinality(U) = n + 1 PROVE sum(U) \in Nat
        OBVIOUS
    <2>1. IsFiniteSet(U) /\ U # {}
        BY FS_Subset, FS_EmptySet
    <2>2. /\ Chosen(U) \in S /\ Rest(U) \in SUBSET S /\ Cardinality(Rest(U)) = n
        BY <2>1, RestIs
    <2>3. sum(Rest(U)) \in Nat
        BY <2>2
    <2>4. sum(U) = w[Chosen(U)] + sum(Rest(U))
        BY <2>1, SumPeels
    <2>. QED BY <2>2, <2>3, <2>4
<1>3. Cardinality(S) \in T
    <2> HIDE DEF T
    <2>. QED BY <1>1, <1>2, FS_CardinalityType, NatSetInduction
<1>. QED BY <1>3

(* It is one element and the sum of the rest, whichever element that is.     *)
LEMMA SumRemoves ==
    ASSUME NEW w, NEW S, IsFiniteSet(S), \A x \in S : w[x] \in Nat, NEW y \in S
    PROVE  SumFunctionOnSet(w, S) = w[y] + SumFunctionOnSet(w, S \ {y})
<1> DEFINE sum(U) == SumFunctionOnSet(w, U)
           T == {n \in Nat : \A U \in SUBSET S : \A z \in U :
                    Cardinality(U) = n => sum(U) = w[z] + sum(U \ {z})}
<1>0. ASSUME NEW U \in SUBSET S PROVE IsFiniteSet(U) /\ sum(U) \in Nat
    <2>1. IsFiniteSet(U)
        BY FS_Subset
    <2>. QED BY <2>1, SumIsNat
<1>1. 0 \in T
    <2> SUFFICES ASSUME NEW U \in SUBSET S, NEW z \in U, Cardinality(U) = 0 PROVE FALSE
        OBVIOUS
    <2>. QED BY FS_Subset, FS_EmptySet
<1>2. ASSUME NEW n \in T \cap Nat PROVE n + 1 \in T
    <2> SUFFICES ASSUME NEW U \in SUBSET S, NEW z \in U, Cardinality(U) = n + 1
                 PROVE  sum(U) = w[z] + sum(U \ {z})
        OBVIOUS
    <2> DEFINE x == Chosen(U)
    <2>1. IsFiniteSet(U) /\ U # {}
        BY <1>0
    <2>2. /\ x \in U /\ Rest(U) \in SUBSET S /\ Cardinality(Rest(U)) = n
          /\ Rest(U) = U \ {x}
        BY <2>1, RestIs DEF Rest
    <2>3. sum(U) = w[x] + sum(U \ {x})
        <3>1. sum(U) = w[Chosen(U)] + sum(Rest(U))
            BY <2>1, SumPeels
        <3> HIDE DEF sum
        <3>. QED BY <2>2, <3>1
    <2> HIDE DEF x
    <2>4. CASE z = x
        BY <2>3, <2>4
    <2>5. CASE z # x
        <3> DEFINE V == U \ {x}
                   W == U \ {z}
        <3>1. z \in V /\ V \in SUBSET S /\ Cardinality(V) = n /\ x \in W /\ W \in SUBSET S
            BY <2>2, <2>5
        <3>2. Cardinality(W) = n
            <4>1. Cardinality(W) = Cardinality(U) - 1
                BY <2>1, FS_RemoveElement
            <4>. QED BY <4>1
        <3>3. V \ {z} = W \ {x} /\ V \ {z} \in SUBSET S
            BY <3>1
        <3> HIDE DEF V, W
        <3>4. sum(V) = w[z] + sum(V \ {z}) /\ sum(W) = w[x] + sum(W \ {x})
            BY <3>1, <3>2
        <3>5. w[z] \in Nat /\ w[x] \in Nat /\ sum(V \ {z}) \in Nat
            BY <1>0, <2>2, <3>3
        <3> HIDE DEF sum
        <3>6. sum(U) = w[x] + sum(V)
            BY <2>3 DEF V
        <3>7. sum(W) = sum(U \ {z})
            BY DEF W
        <3> DEFINE r == sum(V \ {z})
        <3>8. sum(W \ {x}) = r
            BY <3>3
        <3>9. sum(U) = w[x] + (w[z] + r) /\ sum(U \ {z}) = w[x] + r
            BY <3>4, <3>6, <3>7, <3>8
        <3> HIDE DEF r
        <3>. QED BY <3>5, <3>9 DEF r
    <2>. QED BY <2>4, <2>5
<1>3. Cardinality(S) \in T
    <2> HIDE DEF T
    <2>. QED BY <1>1, <1>2, FS_CardinalityType, NatSetInduction
<1>. QED BY <1>3

(* A smaller set has no larger sum.                                          *)
LEMMA SumMonotone ==
    ASSUME NEW w, NEW S, IsFiniteSet(S), \A x \in S : w[x] \in Nat, NEW R \in SUBSET S
    PROVE  SumFunctionOnSet(w, R) <= SumFunctionOnSet(w, S)
<1> DEFINE sum(U) == SumFunctionOnSet(w, U)
           F == {U \in SUBSET (S \ R) : sum(R) <= sum(R \cup U)}
<1>1. \A U \in SUBSET S : sum(U) \in Nat
    <2> TAKE U \in SUBSET S
    <2>1. IsFiniteSet(U)
        BY FS_Subset
    <2>. QED BY <2>1, SumIsNat
<1>2. {} \in F
    <2>1. R \cup {} = R /\ sum(R) \in Nat
        BY <1>1
    <2> HIDE DEF sum
    <2>. QED BY <2>1
<1>3. ASSUME NEW U \in SUBSET (S \ R), NEW x \in S \ R, U \in F, x \notin U
      PROVE  U \cup {x} \in F
    <2> DEFINE V == R \cup (U \cup {x})
    <2>1. V \in SUBSET S /\ x \in V /\ V \ {x} = R \cup U /\ R \cup U \in SUBSET S
        BY <1>3
    <2>2. IsFiniteSet(V)
        BY <2>1, FS_Subset
    <2>3. sum(V) = w[x] + sum(R \cup U)
        <3>1. \A y \in V : w[y] \in Nat
            BY <2>1
        <3> HIDE DEF V
        <3>2. sum(V) = w[x] + sum(V \ {x})
            BY <2>1, <2>2, <3>1, SumRemoves
        <3>. QED BY <2>1, <3>2
    <2>4. sum(R) <= sum(R \cup U) /\ sum(R) \in Nat /\ sum(R \cup U) \in Nat /\ w[x] \in Nat
        BY <1>1, <1>3, <2>1
    <2> HIDE DEF sum
    <2>5. sum(R) <= sum(V)
        BY <2>3, <2>4
    <2>. QED BY <2>5
<1>4. S \ R \in F
    <2>1. IsFiniteSet(S \ R)
        BY FS_Subset
    <2> HIDE DEF F
    <2>. QED BY <1>2, <1>3, <2>1, FiniteSetInduction
<1>5. R \cup (S \ R) = S
    OBVIOUS
<1>. QED BY <1>4, <1>5

(* A finite set of numbers has a smallest and a largest.                     *)
LEMMA LeastAndGreatest ==
    ASSUME NEW S, IsFiniteSet(S), S \subseteq Int, S # {}
    PROVE  /\ Min(S) \in S /\ \A y \in S : Min(S) <= y
           /\ Max(S) \in S /\ \A y \in S : Max(S) >= y
<1> DEFINE Ends(U) == \E lo, hi \in U : \A y \in U : lo <= y /\ y <= hi
           F == {U \in SUBSET S : U = {} \/ Ends(U)}
<1>1. ASSUME NEW U \in SUBSET S, NEW x \in S, U \in F, x \notin U PROVE U \cup {x} \in F
    <2>1. CASE U = {}
        BY <2>1
    <2>2. CASE Ends(U)
        <3>1. PICK lo \in U, hi \in U : \A y \in U : lo <= y /\ y <= hi
            BY <2>2
        <3> DEFINE l == IF x < lo THEN x ELSE lo
                   h == IF x > hi THEN x ELSE hi
        <3>2. l \in U \cup {x} /\ h \in U \cup {x}
            OBVIOUS
        <3>3. \A y \in U \cup {x} : l <= y /\ y <= h
            BY <3>1
        <3> HIDE DEF l, h
        <3>. QED BY <3>2, <3>3
    <2>. QED BY <1>1, <2>1, <2>2
<1>2. {} \in F
    OBVIOUS
<1> HIDE DEF F
<1>3. S \in F
    BY <1>1, <1>2, FiniteSetInduction
<1>4. Ends(S)
    BY <1>3 DEF F
<1>. QED BY <1>4 DEF Min, Max

(* Between multiples of every weight lies the sum of what lies between them. *)
Between(v, w, S, lo, hi) ==
    /\ lo \in Nat /\ hi \in Nat
    /\ \A x \in S : /\ w[x] \in Nat /\ v[x] \in Nat
                    /\ lo * w[x] <= v[x] /\ v[x] <= hi * w[x]

LEMMA SumBetween ==
    ASSUME NEW w, NEW v, NEW S, IsFiniteSet(S), NEW lo, NEW hi, Between(v, w, S, lo, hi)
    PROVE  /\ lo * SumFunctionOnSet(w, S) <= SumFunctionOnSet(v, S)
           /\ SumFunctionOnSet(v, S) <= hi * SumFunctionOnSet(w, S)
<1>0. /\ lo \in Nat /\ hi \in Nat
      /\ \A x \in S : /\ w[x] \in Nat /\ v[x] \in Nat
                      /\ lo * w[x] <= v[x] /\ v[x] <= hi * w[x]
    BY DEF Between
<1> DEFINE sw(U) == SumFunctionOnSet(w, U)
           sv(U) == SumFunctionOnSet(v, U)
           T == {n \in Nat : \A U \in SUBSET S : Cardinality(U) = n =>
                    lo * sw(U) <= sv(U) /\ sv(U) <= hi * sw(U)}
<1>1. 0 \in T
    <2> SUFFICES ASSUME NEW U \in SUBSET S, Cardinality(U) = 0
                 PROVE  lo * sw(U) <= sv(U) /\ sv(U) <= hi * sw(U)
        OBVIOUS
    <2>1. U = {}
        BY FS_Subset, FS_EmptySet
    <2>2. sw(U) = 0 /\ sv(U) = 0
        BY <2>1, FS_EmptySet, SumPeels
    <2> HIDE DEF sw, sv
    <2>. QED BY <1>0, <2>2
<1>2. ASSUME NEW n \in T \cap Nat PROVE n + 1 \in T
    <2> SUFFICES ASSUME NEW U \in SUBSET S, Cardinality(U) = n + 1
                 PROVE  lo * sw(U) <= sv(U) /\ sv(U) <= hi * sw(U)
        OBVIOUS
    <2>1. IsFiniteSet(U) /\ U # {}
        BY FS_Subset, FS_EmptySet
    <2> DEFINE x == Chosen(U)
               R == Rest(U)
    <2>2. x \in S /\ R \in SUBSET S /\ Cardinality(R) = n /\ IsFiniteSet(R)
        <3>1. /\ Chosen(U) \in U /\ Rest(U) \subseteq U /\ IsFiniteSet(Rest(U))
              /\ Cardinality(Rest(U)) = Cardinality(U) - 1
            BY <2>1, RestIs
        <3>. QED BY <3>1
    <2>3. lo * sw(R) <= sv(R) /\ sv(R) <= hi * sw(R)
        BY <2>2
    <2>4. sw(U) = w[x] + sw(R) /\ sv(U) = v[x] + sv(R)
        BY <2>1, SumPeels
    <2>5. sw(R) \in Nat /\ sv(R) \in Nat
        BY <1>0, <2>2, SumIsNat
    <2>6. w[x] \in Nat /\ v[x] \in Nat /\ lo * w[x] <= v[x] /\ v[x] <= hi * w[x]
        BY <1>0, <2>2
    <2> HIDE DEF sw, sv, x, R
    <2> DEFINE a == w[x]
               b == sw(R)
    <2>7. lo * (a + b) = lo * a + lo * b /\ hi * (a + b) = hi * a + hi * b
        BY <1>0, <2>5, <2>6
    <2>8. lo * a \in Nat /\ lo * b \in Nat /\ hi * a \in Nat /\ hi * b \in Nat
        BY <1>0, <2>5, <2>6
    <2>. QED BY <2>3, <2>4, <2>5, <2>6, <2>7, <2>8
<1>3. Cardinality(S) \in T
    <2> HIDE DEF T
    <2>. QED BY <1>1, <1>2, FS_CardinalityType, NatSetInduction
<1>. QED BY <1>3

(* So their quotient lies between the factors.                               *)
LEMMA QuotientBetween ==
    ASSUME NEW a \in Nat \ {0}, NEW b \in Nat, NEW lo \in Nat, NEW hi \in Nat,
           lo * a <= b, b <= hi * a
    PROVE  b \div a \in lo..hi
<1> DEFINE q == b \div a
<1>1. q \in Nat /\ a * q <= b /\ b < a * q + a
    OBVIOUS
<1> HIDE DEF q
<1>2. lo <= q
    <2> SUFFICES ASSUME q + 1 <= lo PROVE FALSE
        BY <1>1
    <2>1. a * (q + 1) <= a * lo
        BY <1>1
    <2>. QED BY <1>1, <2>1
<1>3. q <= hi
    <2> SUFFICES ASSUME hi + 1 <= q PROVE FALSE
        BY <1>1
    <2>1. a * (hi + 1) <= a * q
        BY <1>1
    <2>. QED BY <1>1, <2>1
<1>. QED BY <1>1, <1>2, <1>3 DEF q

(* One element more adds its value.                                          *)
LEMMA SumAdds ==
    ASSUME NEW w, NEW S, IsFiniteSet(S), NEW y, y \notin S,
           \A x \in S \cup {y} : w[x] \in Nat
    PROVE  /\ IsFiniteSet(S \cup {y})
           /\ SumFunctionOnSet(w, S \cup {y}) = SumFunctionOnSet(w, S) + w[y]
<1>1. IsFiniteSet(S \cup {y})
    BY FS_AddElement
<1>2. SumFunctionOnSet(w, S \cup {y}) = w[y] + SumFunctionOnSet(w, (S \cup {y}) \ {y})
    BY <1>1, SumRemoves
<1>3. (S \cup {y}) \ {y} = S
    OBVIOUS
<1>4. SumFunctionOnSet(w, S) \in Nat /\ w[y] \in Nat
    BY SumIsNat
<1>5. SumFunctionOnSet(w, S \cup {y}) = w[y] + SumFunctionOnSet(w, S)
    BY <1>2, <1>3
<1>. QED BY <1>1, <1>4, <1>5

(* One element more, with the set and the sum named.                         *)
LEMMA SumGrows ==
    ASSUME NEW w, NEW S, IsFiniteSet(S), NEW y, y \notin S, \A x \in S : w[x] \in Nat,
           w[y] \in Nat, NEW n, SumFunctionOnSet(w, S) = n, NEW T, T = S \cup {y}
    PROVE  IsFiniteSet(T) /\ SumFunctionOnSet(w, T) = n + w[y] /\ \A x \in T : w[x] \in Nat
<1>1. \A x \in S \cup {y} : w[x] \in Nat
    OBVIOUS
<1>2. IsFiniteSet(S \cup {y}) /\ SumFunctionOnSet(w, S \cup {y}) = SumFunctionOnSet(w, S) + w[y]
    BY <1>1, SumAdds
<1>. QED BY <1>1, <1>2

(* The sum over one and over four elements.                                  *)
LEMMA SumOfOne ==
    ASSUME NEW w, NEW a, w[a] \in Nat
    PROVE  IsFiniteSet({a}) /\ SumFunctionOnSet(w, {a}) = w[a] /\ \A x \in {a} : w[x] \in Nat
<1>1. IsFiniteSet({}) /\ SumFunctionOnSet(w, {}) = 0
    BY FS_EmptySet, SumPeels
<1>2. IsFiniteSet({a}) /\ SumFunctionOnSet(w, {a}) = 0 + w[a]
    <2>1. {a} = {} \cup {a} /\ a \notin {} /\ \A x \in {} : w[x] \in Nat
        OBVIOUS
    <2>. QED BY <1>1, <2>1, SumGrows
<1>. QED BY <1>2

LEMMA SumOfFour ==
    ASSUME NEW w, NEW a, NEW b, NEW c, NEW d,
           a # b, a # c, a # d, b # c, b # d, c # d,
           w[a] \in Nat, w[b] \in Nat, w[c] \in Nat, w[d] \in Nat
    PROVE  IsFiniteSet({a, b, c, d}) /\ SumFunctionOnSet(w, {a, b, c, d}) = w[a] + w[b] + w[c] + w[d]
<1> DEFINE Is(S, n) == IsFiniteSet(S) /\ SumFunctionOnSet(w, S) = n /\ \A x \in S : w[x] \in Nat
<1>1. Is({a}, w[a])
    BY SumOfOne
<1>2. Is({a, b}, w[a] + w[b])
    <2>1. {a, b} = {a} \cup {b}
        OBVIOUS
    <2>. QED BY <1>1, <2>1, SumGrows
<1>3. Is({a, b, c}, w[a] + w[b] + w[c])
    <2>1. {a, b, c} = {a, b} \cup {c}
        OBVIOUS
    <2>. QED BY <1>2, <2>1, SumGrows
<1>4. Is({a, b, c, d}, w[a] + w[b] + w[c] + w[d])
    <2>1. {a, b, c, d} = {a, b, c} \cup {d}
        OBVIOUS
    <2>. QED BY <1>3, <2>1, SumGrows
<1>. QED BY <1>4

---------------------------------------------
(* Orders of finite sets                                                     *)

(* A relation, as a set of pairs, that puts the elements of S in one order.  *)
Orders(R, S) ==
    /\ \A x \in S : <<x, x>> \notin R
    /\ \A x, y \in S : x # y => <<x, y>> \in R \/ <<y, x>> \in R
    /\ \A x, y, z \in S : <<x, y>> \in R /\ <<y, z>> \in R => <<x, z>> \in R

Below(R, S, x) == {y \in S : <<y, x>> \in R}

(* The relation need only be transitive and irreflexive for a finite set to  *)
(* have a last element.                                                      *)
LEMMA LastExists ==
    ASSUME NEW S, IsFiniteSet(S), S # {}, NEW R, \A x \in S : <<x, x>> \notin R,
           \A x, y, z \in S : <<x, y>> \in R /\ <<y, z>> \in R => <<x, z>> \in R
    PROVE  \E x \in S : \A y \in S : <<x, y>> \notin R
<1> DEFINE Last(U) == \E x \in U : \A y \in U : <<x, y>> \notin R
           F == {U \in SUBSET S : U = {} \/ Last(U)}
<1>1. ASSUME NEW U \in SUBSET S, NEW z \in S, U \in F, z \notin U PROVE U \cup {z} \in F
    <2>1. CASE U = {}
        BY <2>1
    <2>2. CASE Last(U)
        <3>1. PICK x \in U : \A y \in U : <<x, y>> \notin R
            BY <2>2
        <3>2. CASE <<x, z>> \in R
            <4>1. \A y \in U : <<z, y>> \notin R
                BY <3>1, <3>2
            <4>. QED BY <4>1
        <3>3. CASE <<x, z>> \notin R
            BY <3>1, <3>3
        <3>. QED BY <3>2, <3>3
    <2>. QED BY <1>1, <2>1, <2>2
<1>2. {} \in F
    OBVIOUS
<1> HIDE DEF F
<1>3. S \in F
    BY <1>1, <1>2, FiniteSetInduction
<1>. QED BY <1>3 DEF F

(* In an ordered set of n elements there is one with any number of elements  *)
(* below n before it.                                                        *)
LEMMA RanksFill ==
    ASSUME NEW S, IsFiniteSet(S), NEW R, Orders(R, S), NEW k \in Nat, k < Cardinality(S)
    PROVE  \E x \in S : Cardinality(Below(R, S, x)) = k
<1> DEFINE Full(U) == \A j \in Nat : j < Cardinality(U) =>
                         \E x \in U : Cardinality(Below(R, U, x)) = j
           T == {n \in Nat : \A U \in SUBSET S : Cardinality(U) = n => Full(U)}
<1>1. 0 \in T
    OBVIOUS
<1>2. ASSUME NEW n \in T \cap Nat PROVE n + 1 \in T
    <2> SUFFICES ASSUME NEW U \in SUBSET S, Cardinality(U) = n + 1,
                        NEW j \in Nat, j < n + 1
                 PROVE  \E x \in U : Cardinality(Below(R, U, x)) = j
        OBVIOUS
    <2>1. IsFiniteSet(U) /\ U # {}
        BY FS_Subset, FS_EmptySet
    <2>2. PICK last \in U : \A y \in U : <<last, y>> \notin R
        <3>1. /\ \A x \in U : <<x, x>> \notin R
              /\ \A x, y, z \in U : <<x, y>> \in R /\ <<y, z>> \in R => <<x, z>> \in R
            BY DEF Orders
        <3>. QED BY <2>1, <3>1, LastExists
    <2> DEFINE V == U \ {last}
    <2>3. V \in SUBSET S /\ Cardinality(V) = n
        <3>1. Cardinality(V) = Cardinality(U) - 1
            BY <2>1, FS_RemoveElement
        <3>. QED BY <3>1
    <2>4. CASE j < n
        <3>1. PICK x \in V : Cardinality(Below(R, V, x)) = j
            BY <2>3, <2>4
        <3>2. Below(R, U, x) = Below(R, V, x)
            BY <2>2 DEF Below
        <3>. QED BY <3>1, <3>2
    <2>5. CASE j = n
        <3>1. Below(R, U, last) = V
            BY <2>2 DEF Below, Orders
        <3>. QED BY <2>3, <2>5, <3>1
    <2>. QED BY <2>4, <2>5
<1>3. Cardinality(S) \in T
    <2> HIDE DEF T
    <2>. QED BY <1>1, <1>2, FS_CardinalityType, NatSetInduction
<1>. QED BY <1>3

(* Its elements can be counted off.                                          *)
LEMMA RanksEnumerate ==
    ASSUME NEW S, IsFiniteSet(S), NEW R, Orders(R, S), NEW i \in 1..Cardinality(S)
    PROVE  \E x \in S : Cardinality(Below(R, S, x)) = i - 1
<1>1. i - 1 \in Nat /\ i - 1 < Cardinality(S)
    BY FS_CardinalityType
<1> DEFINE k == i - 1
<1> HIDE DEF k
<1>2. \E x \in S : Cardinality(Below(R, S, x)) = k
    BY <1>1, RanksFill DEF k
<1>. QED BY <1>2 DEF k

(* Fewer before it is earlier.                                               *)
LEMMA RanksOrder ==
    ASSUME NEW S, IsFiniteSet(S), NEW R, Orders(R, S), NEW x \in S, NEW y \in S,
           Cardinality(Below(R, S, x)) < Cardinality(Below(R, S, y))
    PROVE  <<x, y>> \in R
<1> SUFFICES ASSUME <<x, y>> \notin R PROVE FALSE
    OBVIOUS
<1>1. Below(R, S, y) \subseteq Below(R, S, x)
    BY DEF Below, Orders
<1>2. Below(R, S, x) \subseteq S
    BY DEF Below
<1>3. /\ IsFiniteSet(Below(R, S, x))
      /\ Cardinality(Below(R, S, y)) <= Cardinality(Below(R, S, x))
    BY <1>1, <1>2, FS_Subset
<1>4. Cardinality(Below(R, S, x)) \in Nat /\ Cardinality(Below(R, S, y)) \in Nat
    BY <1>1, <1>3, FS_Subset, FS_CardinalityType
<1>. QED BY <1>3, <1>4

(* An order of a set takes each of its elements once.                        *)
OrderOf(p, O) == p \in [1..Cardinality(O) -> O] /\ Range(p) = O
Seen(p, k) == {p[j] : j \in 1..k}

(* Each element of the order is a new one.                                   *)
LEMMA SeenGrows ==
    ASSUME NEW O, IsFiniteSet(O), NEW p, OrderOf(p, O)
    PROVE  /\ Seen(p, 0) = {} /\ Seen(p, Cardinality(O)) = O
           /\ \A k \in 1..Cardinality(O) :
                 /\ Seen(p, k) = Seen(p, k - 1) \cup {p[k]}
                 /\ p[k] \in O \ Seen(p, k - 1)
<1> DEFINE n == Cardinality(O)
<1>0. n \in Nat
    BY FS_CardinalityType
<1>1. IsFiniteSet(1..n) /\ Cardinality(1..n) = n
    BY <1>0, FS_Interval
<1>2. p \in [1..n -> O] /\ {p[j] : j \in 1..n} = O
    BY DEF OrderOf, Range
<1> HIDE DEF n
<1>3. p \in Surjection(1..n, O)
    BY <1>2 DEF Surjection
<1>4. p \in Injection(1..n, O)
    BY <1>1, <1>3, FS_SurjSameCardinalityImpliesInj DEF n
<1>5. \A i, j \in 1..n : i # j => p[i] # p[j]
    BY <1>4 DEF Injection, IsInjective
<1>6. Seen(p, 0) = {} /\ Seen(p, n) = O
    BY <1>2 DEF Seen
<1>7. ASSUME NEW k \in 1..n
      PROVE  Seen(p, k) = Seen(p, k - 1) \cup {p[k]} /\ p[k] \in O \ Seen(p, k - 1)
    <2>1. 1..k = (1..(k - 1)) \cup {k} /\ k \notin 1..(k - 1) /\ 1..(k - 1) \subseteq 1..n
        BY <1>0
    <2>2. Seen(p, k) = Seen(p, k - 1) \cup {p[k]}
        BY <2>1 DEF Seen
    <2>3. p[k] \notin Seen(p, k - 1)
        BY <1>5, <2>1 DEF Seen
    <2>. QED BY <1>2, <2>2, <2>3
<1>. QED BY <1>6, <1>7 DEF n

(* The elements of an ordered set by the number of those before them.        *)
Enumerates(s, R, O) ==
    /\ s \in [1..Cardinality(O) -> O]
    /\ \A i \in 1..Cardinality(O) : Cardinality(Below(R, O, s[i])) = i - 1

LEMMA RanksList ==
    ASSUME NEW O, IsFiniteSet(O), NEW R, Orders(R, O), NEW s, Enumerates(s, R, O)
    PROVE  /\ OrderOf(s, O)
           /\ \A i, j \in DOMAIN s : i < j => <<s[i], s[j]>> \in R
<1> DEFINE n == Cardinality(O)
<1>0. n \in Nat
    BY FS_CardinalityType
<1>1. \A i \in 1..n : s[i] \in O /\ Cardinality(Below(R, O, s[i])) = i - 1
    BY DEF Enumerates
<1>2. DOMAIN s = 1..n /\ s \in [1..n -> O]
    BY DEF Enumerates
<1> HIDE DEF n
<1>3. s \in Injection(1..n, O)
    <2>1. \A i, j \in 1..n : s[i] = s[j] => i = j
        <3> SUFFICES ASSUME NEW i \in 1..n, NEW j \in 1..n, s[i] = s[j] PROVE i = j
            OBVIOUS
        <3>1. i - 1 = j - 1
            BY <1>1
        <3>. QED BY <1>0, <3>1
    <2>. QED BY <1>2, <2>1 DEF Injection, IsInjective
<1>4. s \in Surjection(1..n, O)
    <2>1. IsFiniteSet(1..n) /\ Cardinality(1..n) = Cardinality(O)
        BY <1>0, FS_Interval DEF n
    <2>. QED BY <1>3, <2>1, FS_Injection
<1>5. {s[i] : i \in 1..n} = O
    BY <1>2, <1>4 DEF Surjection
<1>6. ASSUME NEW i \in 1..n, NEW j \in 1..n, i < j PROVE <<s[i], s[j]>> \in R
    <2>1. Cardinality(Below(R, O, s[i])) < Cardinality(Below(R, O, s[j]))
        BY <1>0, <1>1, <1>6
    <2>. QED BY <1>1, <2>1, RanksOrder
<1>. QED BY <1>2, <1>5, <1>6 DEF OrderOf, Range, n

(* Of the numbers up to the k-th the k-th is the last.                       *)
LEMMA LastOfInterval ==
    ASSUME NEW k \in Nat \ {0}
    PROVE  Max(1..k) = k /\ (1..k) \ {k} = 1..(k - 1)
<1>1. IsFiniteSet(1..k) /\ 1..k \subseteq Int /\ 1..k # {}
    <2>1. 1 \in 1..k /\ k \in Int
        OBVIOUS
    <2>2. IsFiniteSet(1..k)
        BY <2>1, FS_Interval
    <2>. QED BY <2>1, <2>2
<1>2. Max(1..k) \in 1..k /\ \A y \in 1..k : Max(1..k) >= y
    BY <1>1, LeastAndGreatest
<1>. QED BY <1>2
=============================================================================
