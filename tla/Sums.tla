-------------------------------- MODULE Sums --------------------------------
(***************************************************************************)
(* What several proofs need of finite sets: induction over one, least and  *)
(* greatest numbers, and sums over a set of any size (SumFunctionOnSet).   *)
(***************************************************************************)
EXTENDS Integers, FiniteSetsExt, Functions, FiniteSetTheorems, WellFoundedInduction, TLAPS

-----------------------------------------------------------------------------
(* Induction.                                                              *)

(* What holds of a subset whenever it holds of the smaller ones holds of    *)
(* all of a finite set; H is the set of the subsets it holds of.            *)
LEMMA SetInduction ==
  ASSUME NEW S, IsFiniteSet(S), NEW H \in SUBSET (SUBSET S),
         \A T \in SUBSET S : (\A U \in SUBSET T : U # T => U \in H) => T \in H
  PROVE  S \in H
<1> SUFFICES ASSUME S \notin H PROVE FALSE
  OBVIOUS
<1> DEFINE Bad == (SUBSET S) \ H
           R   == StrictSubsetOrdering(S)
           F   == FiniteSubsetsOf(S)
<1>1. F = SUBSET S
  BY FS_FiniteSubsetsOfFinite
<1>2. IsWellFoundedOn(R, F) /\ Bad \subseteq F /\ Bad # {}
  BY <1>1, FS_StrictSubsetOrderingWellFounded
<1>3. \E T \in Bad : \A U \in Bad : ~ (<<U, T>> \in R)
  <2> HIDE DEF Bad, R, F
  <2> QED BY <1>2, WFMin
<1>4. PICK T \in Bad : \A U \in Bad : ~ (<<U, T>> \in R)
  BY <1>3
<1>5. ASSUME NEW U \in SUBSET T, U # T PROVE U \in H
  <2>1. U \in SUBSET S /\ T \in SUBSET S
    OBVIOUS
  <2>2. <<U, T>> \in R
    BY <1>5, <2>1 DEF StrictSubsetOrdering
  <2> QED BY <1>4, <2>1, <2>2
<1> QED BY <1>4, <1>5

LEMMA LeastNumber ==
  ASSUME NEW S \in SUBSET Nat, S # {}
  PROVE  Min(S) \in S /\ \A n \in S : Min(S) <= n
<1> DEFINE R == OpToRel(<, Nat)
<1>1. IsWellFoundedOn(R, Nat)
  BY NatLessThanWellFounded
<1>2. \E m \in S : \A n \in S : ~ (<<n, m>> \in R)
  <2> HIDE DEF R
  <2> QED BY <1>1, WFMin
<1>3. PICK m \in S : \A n \in S : ~ (<<n, m>> \in R)
  BY <1>2
<1>4. ASSUME NEW n \in S PROVE m <= n
  <2>1. R = {ss \in Nat \X Nat : ss[1] < ss[2]}
    BY DEF OpToRel
  <2>2. n < m => <<n, m>> \in R
    <3> HIDE DEF R
    <3> QED BY <2>1
  <2>3. m \in Nat /\ n \in Nat /\ <<n, m>> \notin R
    BY <1>3
  <2> HIDE DEF R
  <2> QED BY <2>2, <2>3
<1> QED BY <1>4 DEF Min

(* Counting up to N. *)
LEMMA Climb ==
  ASSUME NEW N \in Nat, NEW H, 0 \in H, \A n \in 0 .. N - 1 : n \in H => n + 1 \in H
  PROVE  N \in H
<1> DEFINE Out == {n \in 0 .. N : n \notin H}
<1> SUFFICES ASSUME N \notin H PROVE FALSE
  OBVIOUS
<1>1. Out \in SUBSET Nat /\ Out # {}
  OBVIOUS
<1>2. PICK m \in Out : \A n \in Out : m <= n
  <2> HIDE DEF Out
  <2> QED BY <1>1, LeastNumber
<1>3. m # 0 /\ m - 1 \in 0 .. N - 1 /\ m - 1 \notin Out
  BY <1>2
<1>4. m - 1 \in H
  BY <1>3
<1> QED BY <1>2, <1>3, <1>4

LEMMA GreatestNumber ==
  ASSUME NEW S \in SUBSET Nat, IsFiniteSet(S), S # {}
  PROVE  Max(S) \in S /\ \A n \in S : n <= Max(S)
<1> DEFINE H == {T \in SUBSET S : T # {} => \E m \in T : \A n \in T : n <= m}
<1>1. ASSUME NEW T \in SUBSET S, \A U \in SUBSET T : U # T => U \in H
      PROVE  T \in H
  <2> SUFFICES ASSUME T # {} PROVE \E m \in T : \A n \in T : n <= m
    OBVIOUS
  <2>1. PICK x \in T : TRUE
    OBVIOUS
  <2>2. T \ {x} \in H
    BY <1>1, <2>1
  <2>3. CASE T \ {x} = {}
    BY <2>1, <2>3
  <2>4. CASE T \ {x} # {}
    <3>1. PICK m \in T \ {x} : \A n \in T \ {x} : n <= m
      BY <2>2, <2>4
    <3>2. CASE x <= m
      BY <3>1, <3>2
    <3>3. CASE m < x
      BY <2>1, <3>1, <3>3
    <3> QED BY <2>1, <3>1, <3>2, <3>3
  <2> QED BY <2>3, <2>4
<1> HIDE DEF H
<1>2. S \in H
  <2>1. H \in SUBSET (SUBSET S)
    BY DEF H
  <2> QED BY <1>1, <2>1, SetInduction
<1>3. PICK m \in S : \A n \in S : n <= m
  BY <1>2 DEF H
<1>4. \A n \in S : m >= n
  BY <1>3
<1> QED BY <1>3, <1>4 DEF Max

-----------------------------------------------------------------------------
(* Sums.                                                                    *)

First(s) == CHOOSE x \in s : TRUE
Rest(s)  == s \ {First(s)}

(* The sums of f over the subsets of S. *)
IsPartial(it, f, S) ==
  it = [s \in SUBSET S |-> IF s = {} THEN 0 ELSE f[First(s)] + it[Rest(s)]]

Partial(f, S) == CHOOSE it : IsPartial(it, f, S)

LEMMA SumDef == ASSUME NEW f, NEW S PROVE SumFunctionOnSet(f, S) = Partial(f, S)[S]
BY DEF SumFunctionOnSet, FoldFunctionOnSet, MapThenFoldSet, Partial, IsPartial, First, Rest

LEMMA PartialsAgree ==
  ASSUME NEW f, NEW S, NEW T, NEW it, NEW jt, IsPartial(it, f, S), IsPartial(jt, f, T),
         NEW U, U \subseteq S, U \subseteq T, IsFiniteSet(U)
  PROVE  it[U] = jt[U]
<1> DEFINE H == {V \in SUBSET U : it[V] = jt[V]}
<1>1. ASSUME NEW V \in SUBSET U, \A W \in SUBSET V : W # V => W \in H
      PROVE  V \in H
  <2>1. V \in SUBSET S /\ V \in SUBSET T
    OBVIOUS
  <2>2. /\ it[V] = IF V = {} THEN 0 ELSE f[First(V)] + it[Rest(V)]
        /\ jt[V] = IF V = {} THEN 0 ELSE f[First(V)] + jt[Rest(V)]
    BY <2>1 DEF IsPartial
  <2>3. V # {} => Rest(V) \in SUBSET V /\ Rest(V) # V
    BY DEF Rest, First
  <2> QED BY <1>1, <2>2, <2>3
<1>2. U \in H
  <2> HIDE DEF H
  <2>1. H \in SUBSET (SUBSET U)
    BY DEF H
  <2> QED BY <1>1, <2>1, SetInduction
<1> QED BY <1>2

LEMMA PartialExists == ASSUME NEW f, NEW S, IsFiniteSet(S) PROVE IsPartial(Partial(f, S), f, S)
<1> DEFINE H == {T \in SUBSET S : \E it : IsPartial(it, f, T)}
<1>1. ASSUME NEW T \in SUBSET S, \A U \in SUBSET T : U # T => U \in H
      PROVE  T \in H
  <2> DEFINE sum(s) == Partial(f, s)[s]
             it == [s \in SUBSET T |-> IF s = {} THEN 0 ELSE f[First(s)] + sum(Rest(s))]
  <2>1. ASSUME NEW r \in SUBSET T, r # T PROVE it[r] = sum(r)
    <3>1. IsPartial(Partial(f, r), f, r)
      BY <1>1, <2>1 DEF Partial
    <3>2. Partial(f, r)[r] = IF r = {} THEN 0 ELSE f[First(r)] + Partial(f, r)[Rest(r)]
      BY <3>1 DEF IsPartial
    <3>3. CASE r = {}
      BY <3>2, <3>3
    <3>4. CASE r # {}
      <4>1. Rest(r) \in SUBSET T /\ Rest(r) # T /\ Rest(r) \subseteq r
        BY <3>4 DEF Rest, First
      <4>2. IsPartial(Partial(f, Rest(r)), f, Rest(r))
        BY <1>1, <4>1 DEF Partial
      <4>3. IsFiniteSet(Rest(r))
        BY <4>1, FS_Subset
      <4>4. Partial(f, r)[Rest(r)] = sum(Rest(r))
        BY <3>1, <4>1, <4>2, <4>3, PartialsAgree
      <4> QED BY <3>2, <3>4, <4>4
    <3> QED BY <3>3, <3>4
  <2>2. \A s \in SUBSET T : s # {} => it[Rest(s)] = sum(Rest(s))
    BY <2>1 DEF Rest, First
  <2>3. IsPartial(it, f, T)
    BY <2>2 DEF IsPartial
  <2> QED BY <2>3
<1>2. S \in H
  <2> HIDE DEF H
  <2>1. H \in SUBSET (SUBSET S)
    BY DEF H
  <2> QED BY <1>1, <2>1, SetInduction
<1> QED BY <1>2 DEF Partial

LEMMA SumStep ==
  ASSUME NEW f, NEW S, IsFiniteSet(S)
  PROVE  SumFunctionOnSet(f, S) =
           IF S = {} THEN 0 ELSE f[First(S)] + SumFunctionOnSet(f, Rest(S))
<1>1. IsPartial(Partial(f, S), f, S)
  BY PartialExists
<1>2. Partial(f, S)[S] = IF S = {} THEN 0 ELSE f[First(S)] + Partial(f, S)[Rest(S)]
  BY <1>1 DEF IsPartial
<1>3. Rest(S) \subseteq S /\ IsFiniteSet(Rest(S))
  BY FS_Subset DEF Rest
<1>4. IsPartial(Partial(f, Rest(S)), f, Rest(S))
  BY <1>3, PartialExists
<1>5. Partial(f, S)[Rest(S)] = Partial(f, Rest(S))[Rest(S)]
  BY <1>1, <1>3, <1>4, PartialsAgree
<1> QED BY <1>2, <1>5, SumDef

(* Any element may be taken out first. *)
LEMMA SumOne ==
  ASSUME NEW S, IsFiniteSet(S), NEW f, \A x \in S : f[x] \in Int
  PROVE  /\ SumFunctionOnSet(f, S) \in Int
         /\ \A x \in S : SumFunctionOnSet(f, S) = f[x] + SumFunctionOnSet(f, S \ {x})
<1> DEFINE sum(s) == SumFunctionOnSet(f, s)
           H == {T \in SUBSET S : sum(T) \in Int /\ \A x \in T : sum(T) = f[x] + sum(T \ {x})}
<1>1. ASSUME NEW T \in SUBSET S, \A U \in SUBSET T : U # T => U \in H
      PROVE  T \in H
  <2>0. \A U \in SUBSET T : IsFiniteSet(U)
    BY FS_Subset
  <2>1. CASE T = {}
    <3>1. sum(T) = 0
      BY <2>0, <2>1, SumStep
    <3> QED BY <2>1, <3>1
  <2>2. CASE T # {}
    <3> DEFINE c == First(T)
    <3>1. c \in T /\ Rest(T) = T \ {c}
      BY <2>2 DEF First, Rest
    <3> HIDE DEF c
    <3>2. sum(T) = f[c] + sum(T \ {c})
      BY <2>0, <2>2, <3>1, SumStep DEF c
    <3>3. sum(T \ {c}) \in Int /\ f[c] \in Int
      BY <1>1, <3>1
    <3>4. ASSUME NEW x \in T PROVE sum(T) = f[x] + sum(T \ {x})
      <4>1. CASE x = c
        BY <3>2, <4>1
      <4>2. CASE x # c
        <5> DEFINE A == T \ {c}
                   B == T \ {x}
        <5>1. A \in H /\ B \in H /\ x \in A /\ c \in B
          BY <1>1, <3>1, <4>2
        <5>2. A \ {x} = B \ {c}
          OBVIOUS
        <5>3. B \ {c} \in H
          BY <1>1, <3>1
        <5>4. /\ sum(A) = f[x] + sum(B \ {c})
              /\ sum(B) = f[c] + sum(B \ {c})
          BY <5>1, <5>2
        <5>5. sum(B \ {c}) \in Int /\ f[x] \in Int /\ sum(A) \in Int /\ sum(B) \in Int
          BY <5>1, <5>3
        <5> HIDE DEF A, B
        <5>6. sum(T) = f[c] + sum(A)
          BY <3>2 DEF A
        <5>7. sum(T) = f[x] + sum(B)
          <6> HIDE DEF sum
          <6> QED BY <3>3, <5>4, <5>5, <5>6
        <5> QED BY <5>7 DEF B
      <4> QED BY <4>1, <4>2
    <3>5. sum(T) \in Int
      <4> HIDE DEF sum
      <4> QED BY <3>2, <3>3
    <3> QED BY <3>4, <3>5
  <2> QED BY <2>1, <2>2
<1>2. S \in H
  <2> HIDE DEF H
  <2>1. H \in SUBSET (SUBSET S)
    BY DEF H
  <2> QED BY <1>1, <2>1, SetInduction
<1> QED BY <1>2

LEMMA SumOfZeros ==
  ASSUME NEW S, IsFiniteSet(S), NEW f, \A x \in S : f[x] = 0
  PROVE  SumFunctionOnSet(f, S) = 0
<1> DEFINE sum(s) == SumFunctionOnSet(f, s)
           H == {T \in SUBSET S : sum(T) = 0}
<1>1. ASSUME NEW T \in SUBSET S, \A U \in SUBSET T : U # T => U \in H
      PROVE  T \in H
  <2>1. IsFiniteSet(T)
    BY FS_Subset
  <2>2. sum(T) = IF T = {} THEN 0 ELSE f[First(T)] + sum(Rest(T))
    BY <2>1, SumStep
  <2>3. T # {} => First(T) \in T /\ Rest(T) \in SUBSET T /\ Rest(T) # T
    BY DEF First, Rest
  <2> QED BY <1>1, <2>2, <2>3
<1>2. S \in H
  <2> HIDE DEF H
  <2>1. H \in SUBSET (SUBSET S)
    BY DEF H
  <2> QED BY <1>1, <2>1, SetInduction
<1> QED BY <1>2

LEMMA SumGrowsBy ==
  ASSUME NEW J, IsFiniteSet(J), NEW f, \A x \in J : f[x] \in Nat, NEW A \in SUBSET J
  PROVE  SumFunctionOnSet(f, A) <= SumFunctionOnSet(f, J)
<1> DEFINE sum(s) == SumFunctionOnSet(f, s)
           H == {K \in SUBSET (J \ A) : sum(A) <= sum(A \cup K)}
<1>1. ASSUME NEW K \in SUBSET (J \ A), \A L \in SUBSET K : L # K => L \in H
      PROVE  K \in H
  <2>1. IsFiniteSet(A) /\ IsFiniteSet(A \cup K)
    BY FS_Subset
  <2>2. sum(A) \in Int /\ sum(A \cup K) \in Int
    BY <2>1, SumOne
  <2>3. CASE K = {}
    <3>1. A \cup K = A
      BY <2>3
    <3> HIDE DEF sum
    <3> QED BY <2>2, <3>1
  <2>4. CASE K # {}
    <3>1. PICK x : x \in K
      BY <2>4
    <3>2. K \ {x} \in SUBSET K /\ K \ {x} # K /\ A \cup (K \ {x}) = (A \cup K) \ {x}
      BY <3>1
    <3>7. K \ {x} \in H
      BY <1>1, <3>2
    <3>3. sum(A \cup K) = f[x] + sum((A \cup K) \ {x})
      BY <2>1, <3>1, SumOne
    <3>4. IsFiniteSet((A \cup K) \ {x})
      BY FS_Subset
    <3>5. sum((A \cup K) \ {x}) \in Int
      BY <3>4, SumOne
    <3>6. sum(A) <= sum((A \cup K) \ {x}) /\ f[x] \in Nat
      BY <3>1, <3>2, <3>7
    <3> HIDE DEF sum
    <3>8. sum(A) <= sum(A \cup K)
      BY <2>2, <3>3, <3>5, <3>6
    <3> QED BY <3>8
  <2> QED BY <2>3, <2>4
<1>2. J \ A \in H
  <2> HIDE DEF H
  <2>1. H \in SUBSET (SUBSET (J \ A)) /\ IsFiniteSet(J \ A)
    BY FS_Subset DEF H
  <2> QED BY <1>1, <2>1, SetInduction
<1>3. A \cup (J \ A) = J
  OBVIOUS
<1> QED BY <1>2, <1>3

(* A sum of amounts grows with the set. *)
LEMMA SumGrows ==
  ASSUME NEW J, IsFiniteSet(J), NEW f, \A x \in J : f[x] \in Nat, NEW I \in SUBSET J
  PROVE  /\ SumFunctionOnSet(f, I) \in Nat /\ SumFunctionOnSet(f, J) \in Nat
         /\ SumFunctionOnSet(f, I) <= SumFunctionOnSet(f, J)
<1>1. SumFunctionOnSet(f, {}) = 0
  BY SumOfZeros, FS_EmptySet
<1>2. IsFiniteSet(I)
  BY FS_Subset
<1>3. SumFunctionOnSet(f, I) \in Int /\ SumFunctionOnSet(f, J) \in Int
  BY <1>2, SumOne
<1>4. /\ SumFunctionOnSet(f, {}) <= SumFunctionOnSet(f, I)
      /\ SumFunctionOnSet(f, I) <= SumFunctionOnSet(f, J)
  BY <1>2, SumGrowsBy
<1> QED BY <1>1, <1>3, <1>4

(* A sum does not depend on how its terms are named: h renames those of S.  *)
LEMMA SumRenamed ==
  ASSUME NEW S, IsFiniteSet(S), NEW f, NEW g, NEW h, \A x \in S : f[x] \in Int,
         \A x, y \in S : h[x] = h[y] => x = y, \A x \in S : g[h[x]] = f[x]
  PROVE  SumFunctionOnSet(g, {h[x] : x \in S}) = SumFunctionOnSet(f, S)
<1> DEFINE sumf(s) == SumFunctionOnSet(f, s)
           sumg(s) == SumFunctionOnSet(g, s)
           image(s) == {h[x] : x \in s}
           H == {T \in SUBSET S : sumg(image(T)) = sumf(T)}
<1>1. ASSUME NEW T \in SUBSET S, \A U \in SUBSET T : U # T => U \in H
      PROVE  T \in H
  <2>1. IsFiniteSet(T) /\ IsFiniteSet(image(T))
    <3>1. [x \in T |-> h[x]] \in Surjection(T, image(T))
      BY DEF Surjection
    <3> QED BY <3>1, FS_Subset, FS_Surjection
  <2>2. CASE T = {}
    <3>1. image(T) = {} /\ sumf({}) = 0 /\ sumg({}) = 0
      BY <2>2, FS_EmptySet, SumOfZeros
    <3> QED BY <2>2, <3>1
  <2>3. CASE T # {}
    <3>1. PICK x : x \in T
      BY <2>3
    <3>2. sumf(T) = f[x] + sumf(T \ {x})
      BY <2>1, <3>1, SumOne
    <3>3. \A y \in image(T) : g[y] \in Int
      OBVIOUS
    <3>4. sumg(image(T)) = g[h[x]] + sumg(image(T) \ {h[x]})
      <4>1. h[x] \in image(T)
        BY <3>1
      <4> HIDE DEF image
      <4> QED BY <2>1, <3>3, <4>1, SumOne
    <3>5. image(T) \ {h[x]} = image(T \ {x})
      BY <3>1
    <3>6. T \ {x} \in H
      BY <1>1, <3>1
    <3> QED BY <3>1, <3>2, <3>4, <3>5, <3>6
  <2> QED BY <2>2, <2>3
<1>2. S \in H
  <2> HIDE DEF H
  <2>1. H \in SUBSET (SUBSET S)
    BY DEF H
  <2> QED BY <1>1, <2>1, SetInduction
<1> QED BY <1>2

LEMMA SumsAgree ==
  ASSUME NEW S, IsFiniteSet(S), NEW f, NEW g, \A x \in S : f[x] \in Int /\ g[x] = f[x]
  PROVE  SumFunctionOnSet(g, S) = SumFunctionOnSet(f, S)
<1> DEFINE h == [x \in S |-> x]
<1>1. {h[x] : x \in S} = S
  OBVIOUS
<1>2. /\ \A x, y \in S : h[x] = h[y] => x = y
      /\ \A x \in S : g[h[x]] = f[x]
  OBVIOUS
<1> HIDE DEF h
<1>3. SumFunctionOnSet(g, {h[x] : x \in S}) = SumFunctionOnSet(f, S)
  BY <1>2, SumRenamed
<1> QED BY <1>1, <1>3

(* Terms that are zero may be left out. *)
LEMMA SumOfTheRest ==
  ASSUME NEW J, IsFiniteSet(J), NEW f, NEW A \in SUBSET J,
         \A x \in J : f[x] \in Int, \A x \in J \ A : f[x] = 0
  PROVE  SumFunctionOnSet(f, A) = SumFunctionOnSet(f, J)
<1> DEFINE sum(s) == SumFunctionOnSet(f, s)
           H == {K \in SUBSET (J \ A) : sum(A) = sum(A \cup K)}
<1>1. ASSUME NEW K \in SUBSET (J \ A), \A L \in SUBSET K : L # K => L \in H
      PROVE  K \in H
  <2>1. IsFiniteSet(A \cup K)
    BY FS_Subset
  <2>3. CASE K = {}
    <3>1. A \cup K = A
      BY <2>3
    <3> QED BY <3>1
  <2>4. CASE K # {}
    <3>1. PICK x : x \in K
      BY <2>4
    <3>2. K \ {x} \in SUBSET K /\ K \ {x} # K /\ A \cup (K \ {x}) = (A \cup K) \ {x}
      BY <3>1
    <3>3. sum(A \cup K) = f[x] + sum((A \cup K) \ {x})
      BY <2>1, <3>1, SumOne
    <3>4. sum((A \cup K) \ {x}) \in Int
      <4>1. IsFiniteSet((A \cup K) \ {x})
        BY FS_Subset
      <4> QED BY <4>1, SumOne
    <3>5. sum(A) = sum(A \cup (K \ {x})) /\ f[x] = 0
      BY <1>1, <3>1, <3>2
    <3>6. sum(A) = sum((A \cup K) \ {x})
      BY ONLY <3>2, <3>5
    <3>7. sum(A) = sum(A \cup K)
      BY ONLY <3>3, <3>4, <3>5, <3>6
    <3> QED BY <3>7
  <2> QED BY <2>3, <2>4
<1>2. J \ A \in H
  <2> HIDE DEF H
  <2>1. H \in SUBSET (SUBSET (J \ A)) /\ IsFiniteSet(J \ A)
    BY FS_Subset DEF H
  <2> QED BY <1>1, <2>1, SetInduction
<1>3. A \cup (J \ A) = J
  OBVIOUS
<1> QED BY <1>2, <1>3

(* A sum is the sum over a part and over what is left. *)
LEMMA SumSplit ==
  ASSUME NEW J, IsFiniteSet(J), NEW f, NEW A \in SUBSET J, \A x \in J : f[x] \in Int
  PROVE  SumFunctionOnSet(f, J) = SumFunctionOnSet(f, A) + SumFunctionOnSet(f, J \ A)
<1> DEFINE sum(s) == SumFunctionOnSet(f, s)
           H == {K \in SUBSET (J \ A) : sum(A \cup K) = sum(A) + sum(K)}
<1>1. ASSUME NEW K \in SUBSET (J \ A), \A L \in SUBSET K : L # K => L \in H
      PROVE  K \in H
  <2>1. IsFiniteSet(A \cup K) /\ IsFiniteSet(A) /\ IsFiniteSet(K)
    BY FS_Subset
  <2>2. sum(A) \in Int
    BY <2>1, SumOne
  <2>3. CASE K = {}
    <3>1. A \cup K = A /\ sum(K) = 0
      BY <2>3, FS_EmptySet, SumOfZeros
    <3>2. sum(A \cup K) = sum(A)
      BY ONLY <3>1
    <3>3. sum(A) = sum(A) + sum(K)
      BY ONLY <2>2, <3>1
    <3>4. sum(A \cup K) = sum(A) + sum(K)
      BY ONLY <3>2, <3>3
    <3> QED BY <3>4
  <2>4. CASE K # {}
    <3>1. PICK x : x \in K
      BY <2>4
    <3>2. K \ {x} \in SUBSET K /\ K \ {x} # K /\ A \cup (K \ {x}) = (A \cup K) \ {x}
      BY <3>1
    <3>3. sum(A \cup K) = f[x] + sum((A \cup K) \ {x})
      BY <2>1, <3>1, SumOne
    <3>4. sum(K) = f[x] + sum(K \ {x})
      BY <2>1, <3>1, SumOne
    <3>5. sum(K \ {x}) \in Int /\ f[x] \in Int
      <4>1. IsFiniteSet(K \ {x})
        BY <2>1, FS_Subset
      <4> QED BY <3>1, <4>1, SumOne
    <3>6. sum(A \cup (K \ {x})) = sum(A) + sum(K \ {x})
      BY <1>1, <3>2
    <3>7. sum((A \cup K) \ {x}) = sum(A) + sum(K \ {x})
      BY ONLY <3>2, <3>6
    <3>8. sum(A \cup K) = sum(A) + sum(K)
      BY ONLY <2>2, <3>3, <3>4, <3>5, <3>7
    <3> QED BY <3>8
  <2> QED BY <2>3, <2>4
<1>2. J \ A \in H
  <2> HIDE DEF H
  <2>1. H \in SUBSET (SUBSET (J \ A)) /\ IsFiniteSet(J \ A)
    BY FS_Subset DEF H
  <2> QED BY <1>1, <2>1, SetInduction
<1>3. A \cup (J \ A) = J
  OBVIOUS
<1> QED BY <1>2, <1>3

LEMMA MaxOfTwo == ASSUME NEW a \in Int, NEW b \in Int PROVE Max({a, b}) = IF a >= b THEN a ELSE b
<1>1. Max({a, b}) \in {a, b} /\ \A y \in {a, b} : Max({a, b}) >= y
  <2>1. \E x \in {a, b} : \A y \in {a, b} : x >= y
    OBVIOUS
  <2> QED BY <2>1 DEF Max
<1> QED BY <1>1

LEMMA MinOfTwo == ASSUME NEW a \in Int, NEW b \in Int PROVE Min({a, b}) = IF a <= b THEN a ELSE b
<1>1. Min({a, b}) \in {a, b} /\ \A y \in {a, b} : Min({a, b}) <= y
  <2>1. \E x \in {a, b} : \A y \in {a, b} : x <= y
    OBVIOUS
  <2> QED BY <2>1 DEF Min
<1> QED BY <1>1
=============================================================================
