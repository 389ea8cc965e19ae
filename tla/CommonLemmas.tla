---------------------------- MODULE CommonLemmas ----------------------------
(***************************************************************************)
(* Lemmas for the proofs of several components: about the folds of the     *)
(* community modules, for those that count and add up; about selecting     *)
(* from, joining and sorting sequences; and about the windows of a clock.  *)
(*                                                                         *)
(* MapThenSumSet and FoldLeft are CHOOSE'd recursive functions on the      *)
(* subsets of a finite set.  To say anything of them takes that such a     *)
(* function exists and an induction.  Every induction here takes, instead  *)
(* of a predicate, the set of the cases where the claim fails, and cites   *)
(* that a non-empty one has a minimal member.                              *)
(***************************************************************************)
EXTENDS Integers, FiniteSets, FiniteSetsExt, SequencesExt, FiniteSetTheorems, TLAPS

\* A non-empty family of subsets of a finite set has a minimal member.
LEMMA MinimalSet ==
  ASSUME NEW S, IsFiniteSet(S), NEW F, F \subseteq SUBSET S, F # {}
  PROVE  \E m \in F : \A t \in F : t \subseteq m => t = m
<1> DEFINE R == StrictSubsetOrdering(S)
<1>1. IsWellFoundedOn(R, SUBSET S)
  BY FS_StrictSubsetOrderingWellFounded, FS_FiniteSubsetsOfFinite
<1>2. \E m \in F : \A t \in F : ~ (<<t, m>> \in R)
  <2> HIDE DEF R
  <2> QED BY <1>1, WFMin
<1> QED BY <1>2 DEF StrictSubsetOrdering

\* So has a non-empty set of naturals.
LEMMA LeastNat ==
  ASSUME NEW N, N \subseteq Nat, N # {}
  PROVE  \E m \in N : \A k \in N : m <= k
<1>1. IsWellFoundedOn(OpToRel(<, Nat), Nat)
  BY NatLessThanWellFounded
<1>2. PICK m \in N : \A k \in N : ~ (<<k, m>> \in OpToRel(<, Nat))
  BY <1>1, WFMin
<1>3. \A k \in N : ~ (k < m)
  <2> SUFFICES ASSUME NEW k \in N, k < m PROVE FALSE
    OBVIOUS
  <2>1. <<k, m>> \in Nat \X Nat /\ <<k, m>>[1] < <<k, m>>[2]
    OBVIOUS
  <2>2. <<k, m>> \in OpToRel(<, Nat)
    BY <2>1 DEF OpToRel
  <2> QED BY <1>2, <2>2
<1> QED BY <1>3

\* Induction, with the set of the numbers that satisfy the claim.
LEMMA UpTo ==
  ASSUME NEW n \in Nat, NEW N, 0 \in N,
         \A i \in 0..(n - 1) : i \in N => i + 1 \in N
  PROVE  0..n \subseteq N
<1> DEFINE B == {i \in 0..n : i \notin N}
<1> SUFFICES ASSUME B # {} PROVE FALSE
  OBVIOUS
<1>1. PICK m \in B : \A k \in B : m <= k
  <2>1. B \subseteq Nat
    OBVIOUS
  <2> HIDE DEF B
  <2> QED BY <2>1, LeastNat
<1>2. m # 0 /\ m - 1 \in 0..(n - 1) /\ m - 1 \notin B
  BY <1>1
<1> QED BY <1>1, <1>2

------------------------------------------------------------------------------
(* Folding a finite set: c chooses the next element, g[x] is what it does. *)

\* c chooses an element of every non-empty part of S.
Chooses(c, S) == \A s \in SUBSET S : s # {} => c[s] \in s

\* it folds the parts of S, in the order in which c chooses; g[x] is what x does.
IsFold(it, S, c, base, g) ==
  it = [s \in SUBSET S |-> IF s = {} THEN base ELSE g[c[s]][it[s \ {c[s]}]]]

\* Two such functions agree where both are defined.
LEMMA FoldUnique ==
  ASSUME NEW S, IsFiniteSet(S), NEW c, Chooses(c, S), NEW base, NEW g,
         NEW T1 \in SUBSET S, NEW it1, IsFold(it1, T1, c, base, g),
         NEW T2 \in SUBSET S, NEW it2, IsFold(it2, T2, c, base, g)
  PROVE  \A s \in SUBSET (T1 \cap T2) : it1[s] = it2[s]
<1> DEFINE F == {s \in SUBSET (T1 \cap T2) : it1[s] # it2[s]}
<1> SUFFICES ASSUME F # {} PROVE FALSE
  OBVIOUS
<1>1. PICK m \in F : \A t \in F : t \subseteq m => t = m
  <2>1. F \subseteq SUBSET S
    OBVIOUS
  <2> HIDE DEF F
  <2> QED BY <2>1, MinimalSet
<1>2. m \in SUBSET T1 /\ m \in SUBSET T2 /\ m \in SUBSET S
  OBVIOUS
<1>3. m # {}
  BY <1>2 DEF IsFold
<1>4. c[m] \in m
  BY <1>2, <1>3 DEF Chooses
<1>5. m \ {c[m]} \notin F /\ m \ {c[m]} \in SUBSET (T1 \cap T2)
  BY <1>1, <1>4
<1>6. it1[m \ {c[m]}] = it2[m \ {c[m]}]
  BY <1>5
<1>7. it1[m] = g[c[m]][it1[m \ {c[m]}]] /\ it2[m] = g[c[m]][it2[m \ {c[m]}]]
  BY <1>2, <1>3 DEF IsFold
<1> QED BY <1>6, <1>7

\* There is one: it can be extended by an element at a time.
LEMMA FoldExists ==
  ASSUME NEW S, IsFiniteSet(S), NEW c, Chooses(c, S), NEW base, NEW g
  PROVE  \E it : IsFold(it, S, c, base, g)
<1> DEFINE F == {T \in SUBSET S : ~ \E it : IsFold(it, T, c, base, g)}
<1> SUFFICES ASSUME F # {} PROVE FALSE
  OBVIOUS
<1>1. PICK T \in F : \A t \in F : t \subseteq T => t = T
  <2>1. F \subseteq SUBSET S
    OBVIOUS
  <2> HIDE DEF F
  <2> QED BY <2>1, MinimalSet
<1> DEFINE Of(t) == CHOOSE it : IsFold(it, t, c, base, g)
<1>0. PICK it : it = [s \in SUBSET T |->
                        IF s = {} THEN base ELSE g[c[s]][Of(s \ {c[s]})[s \ {c[s]}]]]
  OBVIOUS
<1>2. ASSUME NEW t \in SUBSET T, t # T PROVE IsFold(Of(t), t, c, base, g)
  <2>1. \E f : IsFold(f, t, c, base, g)
    BY <1>1, <1>2
  <2> HIDE DEF IsFold
  <2> QED BY <2>1
<1>3. ASSUME NEW s \in SUBSET T, s # {} PROVE it[s \ {c[s]}] = Of(s \ {c[s]})[s \ {c[s]}]
  <2> DEFINE t == s \ {c[s]}
             u == t \ {c[t]}
  <2>1. c[s] \in s /\ t \in SUBSET T /\ t # T
    BY <1>3 DEF Chooses
  <2>2. IsFold(Of(t), t, c, base, g)
    BY <1>2, <2>1
  <2>3. CASE t = {}
    <3>1. it[t] = base
      BY <1>0, <2>1, <2>3
    <3>2. Of(t)[t] = base
      <4> HIDE DEF Of, t
      <4> QED BY <2>2, <2>3 DEF IsFold
    <3> QED BY <3>1, <3>2
  <2>4. CASE t # {}
    <3>1. c[t] \in t /\ u \in SUBSET T /\ u # T /\ u \in SUBSET t
      BY <2>1, <2>4 DEF Chooses
    <3>2. IsFold(Of(u), u, c, base, g)
      BY <1>2, <3>1
    <3>3. Of(u)[u] = Of(t)[u]
      <4>1. t \in SUBSET S /\ u \in SUBSET S /\ u \in SUBSET (u \cap t)
        BY <2>1, <3>1
      <4>2. PICK ft, fu : ft = Of(t) /\ fu = Of(u)
        OBVIOUS
      <4>3. IsFold(ft, t, c, base, g) /\ IsFold(fu, u, c, base, g)
        BY <2>2, <3>2, <4>2
      <4>4. fu[u] = ft[u]
        <5> HIDE DEF t, u
        <5> QED BY <4>1, <4>3, FoldUnique
      <4> QED BY <4>2, <4>4
    <3>4. Of(t)[t] = g[c[t]][Of(t)[u]]
      <4> HIDE DEF Of, t
      <4> QED BY <2>2, <2>4 DEF IsFold
    <3>5. it[t] = g[c[t]][Of(u)[u]]
      <4> HIDE DEF Of
      <4> QED BY <1>0, <2>1, <2>4
    <3> QED BY <3>3, <3>4, <3>5
  <2> QED BY <2>3, <2>4
<1>4. IsFold(it, T, c, base, g)
  <2>1. \A s \in SUBSET T :
          (IF s = {} THEN base ELSE g[c[s]][Of(s \ {c[s]})[s \ {c[s]}]])
            = IF s = {} THEN base ELSE g[c[s]][it[s \ {c[s]}]]
    <3> HIDE DEF Of
    <3> QED BY <1>3
  <2> HIDE DEF Of
  <2> QED BY <1>0, <2>1 DEF IsFold
<1> QED BY <1>1, <1>4

------------------------------------------------------------------------------
(* Sums: h[x] is what x adds. *)

\* it adds up the parts of S.
IsSum(it, S, c, h) ==
  it = [s \in SUBSET S |-> IF s = {} THEN 0 ELSE h[c[s]] + it[s \ {c[s]}]]

\* A sum is a fold.
LEMMA SumExists ==
  ASSUME NEW S, IsFiniteSet(S), NEW c, Chooses(c, S), NEW h, \A x \in S : h[x] \in Int
  PROVE  \E it : IsSum(it, S, c, h)
<1> DEFINE g == [x \in S |-> [v \in Int |-> h[x] + v]]
<1>1. PICK it : IsFold(it, S, c, 0, g)
  <2> HIDE DEF g
  <2> QED BY FoldExists
<1>2. ASSUME NEW s \in SUBSET S, s # {}
      PROVE  c[s] \in s /\ (it[s \ {c[s]}] \in Int => it[s] = h[c[s]] + it[s \ {c[s]}])
  BY <1>1, <1>2 DEF IsFold, Chooses
<1>3. \A s \in SUBSET S : it[s] \in Int
  <2> DEFINE F == {s \in SUBSET S : it[s] \notin Int}
  <2> SUFFICES ASSUME F # {} PROVE FALSE
    OBVIOUS
  <2>1. PICK m \in F : \A t \in F : t \subseteq m => t = m
    <3>1. F \subseteq SUBSET S
      OBVIOUS
    <3> HIDE DEF F
    <3> QED BY <3>1, MinimalSet
  <2>2. m # {}
    BY <1>1 DEF IsFold
  <2>3. c[m] \in m /\ m \ {c[m]} \notin F
    BY <1>2, <2>1, <2>2
  <2>4. it[m \ {c[m]}] \in Int /\ h[c[m]] \in Int
    BY <2>3
  <2>5. it[m] = h[c[m]] + it[m \ {c[m]}]
    <3> HIDE DEF g
    <3> QED BY <1>2, <2>2, <2>4
  <2>6. it[m] \in Int
    <3> HIDE DEF g
    <3> QED BY <2>4, <2>5
  <2> QED BY <2>6
<1>4. \A s \in SUBSET S : it[s] = IF s = {} THEN 0 ELSE h[c[s]] + it[s \ {c[s]}]
  BY <1>1, <1>2, <1>3 DEF IsFold
<1>5. it = [s \in SUBSET S |-> it[s]]
  BY <1>1 DEF IsFold
<1> QED BY <1>4, <1>5 DEF IsSum

\* The order in which the elements are chosen does not matter.
LEMMA SumTakesAny ==
  ASSUME NEW S, IsFiniteSet(S), NEW c, Chooses(c, S), NEW h, \A x \in S : h[x] \in Int,
         NEW it, IsSum(it, S, c, h)
  PROVE  /\ it[{}] = 0
         /\ \A s \in SUBSET S : it[s] \in Int /\ \A x \in s : it[s] = h[x] + it[s \ {x}]
<1>1. it[{}] = 0
  BY DEF IsSum
<1>2. \A s \in SUBSET S : s # {} => c[s] \in s /\ it[s] = h[c[s]] + it[s \ {c[s]}]
  BY DEF IsSum, Chooses
<1> DEFINE F == {s \in SUBSET S : ~ (it[s] \in Int /\ \A x \in s : it[s] = h[x] + it[s \ {x}])}
<1> SUFFICES ASSUME F # {} PROVE FALSE
  BY <1>1
<1>3. PICK m \in F : \A t \in F : t \subseteq m => t = m
  <2>1. F \subseteq SUBSET S
    OBVIOUS
  <2> HIDE DEF F
  <2> QED BY <2>1, MinimalSet
<1>4. \A t \in SUBSET m : t # m => it[t] \in Int /\ \A x \in t : it[t] = h[x] + it[t \ {x}]
  BY <1>3
<1>5. m # {}
  BY <1>1
<1> DEFINE y == c[m]
<1>6. y \in m /\ it[m] = h[y] + it[m \ {y}]
  BY <1>2, <1>5
<1>7. it[m \ {y}] \in Int /\ it[m] \in Int /\ h[y] \in Int
  BY <1>4, <1>6
<1>8. ASSUME NEW x \in m PROVE it[m] = h[x] + it[m \ {x}]
  <2>1. CASE x = y
    BY <1>6, <2>1
  <2>2. CASE x # y
    <3>1. it[m \ {y}] = h[x] + it[(m \ {y}) \ {x}]
      BY <1>4, <1>6, <2>2
    <3>2. it[m \ {x}] = h[y] + it[(m \ {x}) \ {y}]
      BY <1>4, <1>6, <2>2
    <3>3. (m \ {y}) \ {x} = (m \ {x}) \ {y}
      OBVIOUS
    <3>4. it[(m \ {x}) \ {y}] \in Int
      BY <1>4, <1>6
    <3>5. h[x] \in Int
      OBVIOUS
    <3> HIDE DEF y, F
    <3> QED BY <1>6, <1>7, <3>1, <3>2, <3>3, <3>4, <3>5
  <2> QED BY <2>1, <2>2
<1> QED BY <1>7, <1>8

\* Nor does it matter of which set, and in which order, the elements are taken.
LEMMA SumUnique ==
  ASSUME NEW S1, IsFiniteSet(S1), NEW c1, Chooses(c1, S1), NEW h1, \A x \in S1 : h1[x] \in Int,
         NEW i1, IsSum(i1, S1, c1, h1),
         NEW S2, IsFiniteSet(S2), NEW c2, Chooses(c2, S2), NEW h2, \A x \in S2 : h2[x] \in Int,
         NEW i2, IsSum(i2, S2, c2, h2),
         NEW T, T \subseteq S1, T \subseteq S2, \A x \in T : h1[x] = h2[x]
  PROVE  i1[T] = i2[T]
<1>1. /\ i1[{}] = 0
      /\ \A s \in SUBSET S1 : i1[s] \in Int /\ \A x \in s : i1[s] = h1[x] + i1[s \ {x}]
  BY SumTakesAny
<1>2. /\ i2[{}] = 0
      /\ \A s \in SUBSET S2 : i2[s] \in Int /\ \A x \in s : i2[s] = h2[x] + i2[s \ {x}]
  BY SMTT(30), SumTakesAny
<1> DEFINE F == {s \in SUBSET T : i1[s] # i2[s]}
<1> SUFFICES ASSUME F # {} PROVE FALSE
  OBVIOUS
<1>3. PICK m \in F : \A t \in F : t \subseteq m => t = m
  <2>1. F \subseteq SUBSET S1
    OBVIOUS
  <2> HIDE DEF F
  <2> QED BY <2>1, MinimalSet
<1>4. PICK x \in m : TRUE
  BY <1>1, <1>2
<1>5. m \in SUBSET S1 /\ m \in SUBSET S2 /\ x \in T /\ m \ {x} \notin F /\ m \ {x} \in SUBSET T
  BY <1>3
<1>6. i1[m \ {x}] = i2[m \ {x}]
  BY <1>5
<1> QED BY ZenonT(60), <1>1, <1>2, <1>5, <1>6

------------------------------------------------------------------------------
(* MapThenSumSet. *)

Pick(s) == CHOOSE x \in s : TRUE
Picks(S) == [s \in SUBSET S |-> Pick(s)]

\* What the elements of S have in h, added up.
Total(h, S) == MapThenSumSet(LAMBDA x : h[x], S)

\* CHOOSE takes an element of a set that has one.
LEMMA PicksChoose ==
  ASSUME NEW S
  PROVE  Chooses(Picks(S), S)
BY DEF Chooses, Picks, Pick

\* The library's sum is such a function's value.
LEMMA TotalIsSum ==
  ASSUME NEW S, IsFiniteSet(S), NEW h, \A x \in S : h[x] \in Int
  PROVE  \E it : IsSum(it, S, Picks(S), h) /\ Total(h, S) = it[S]
<1> DEFINE Sum(it) ==
      it = [s \in SUBSET S |-> IF s = {} THEN 0 ELSE h[Pick(s)] + it[s \ {Pick(s)}]]
<1>1. ASSUME NEW it PROVE Sum(it) <=> IsSum(it, S, Picks(S), h)
  BY DEF IsSum, Picks
<1>2. Total(h, S) = (CHOOSE it : Sum(it))[S]
  BY DEF Total, MapThenSumSet, MapThenFoldSet, Pick
<1>3. \E it : Sum(it)
  <2>1. \E it : IsSum(it, S, Picks(S), h)
    BY PicksChoose, SumExists
  <2> HIDE DEF Sum
  <2> QED BY <1>1, <2>1
<1>4. Sum(CHOOSE it : Sum(it))
  <2> HIDE DEF Sum
  <2> QED BY <1>3
<1> HIDE DEF Sum
<1> QED BY <1>1, <1>2, <1>4

\* Of no elements, the sum is 0.
LEMMA TotalEmpty ==
  ASSUME NEW h
  PROVE  Total(h, {}) = 0
<1>1. IsFiniteSet({})
  BY FS_EmptySet
<1>2. PICK it : IsSum(it, {}, Picks({}), h) /\ Total(h, {}) = it[{}]
  BY <1>1, TotalIsSum
<1> QED BY <1>2 DEF IsSum

\* The sum depends only on what is added.
LEMMA TotalSame ==
  ASSUME NEW S, IsFiniteSet(S), NEW h, NEW k, \A x \in S : h[x] \in Int /\ h[x] = k[x]
  PROVE  Total(h, S) = Total(k, S)
<1>1. PICK i1 : IsSum(i1, S, Picks(S), h) /\ Total(h, S) = i1[S]
  BY TotalIsSum
<1>2. PICK i2 : IsSum(i2, S, Picks(S), k) /\ Total(k, S) = i2[S]
  BY TotalIsSum
<1> QED BY <1>1, <1>2, PicksChoose, SumUnique

\* The sum over a set, and over the set without one of its elements.
LEMMA TotalTake ==
  ASSUME NEW S, IsFiniteSet(S), NEW h, \A x \in S : h[x] \in Int
  PROVE  /\ Total(h, S) \in Int
         /\ \A x \in S : Total(h, S) = h[x] + Total(h, S \ {x})
<1>1. PICK i1 : IsSum(i1, S, Picks(S), h) /\ Total(h, S) = i1[S]
  BY TotalIsSum
<1>2. Total(h, S) \in Int
  BY <1>1, PicksChoose, SumTakesAny
<1>3. ASSUME NEW x \in S PROVE Total(h, S) = h[x] + Total(h, S \ {x})
  <2> DEFINE R == S \ {x}
  <2>1. IsFiniteSet(R) /\ R \subseteq S /\ R \subseteq R
    BY FS_RemoveElement
  <2>2. PICK i2 : IsSum(i2, R, Picks(R), h) /\ Total(h, R) = i2[R]
    <3> HIDE DEF R
    <3> QED BY <2>1, TotalIsSum
  <2>3. i1[S] = h[x] + i1[R]
    BY <1>1, PicksChoose, SumTakesAny
  <2>4. i1[R] = i2[R]
    <3> HIDE DEF R
    <3> QED BY <1>1, <2>1, <2>2, PicksChoose, SumUnique
  <2> QED BY <1>1, <2>2, <2>3, <2>4
<1> QED BY <1>2, <1>3

\* An element more adds what it has.
LEMMA TotalAdd ==
  ASSUME NEW S, IsFiniteSet(S), NEW x, x \notin S, NEW h, \A y \in S \cup {x} : h[y] \in Int
  PROVE  Total(h, S \cup {x}) = h[x] + Total(h, S)
<1> DEFINE T == S \cup {x}
<1>1. IsFiniteSet(T)
  BY FS_AddElement
<1>2. T \ {x} = S
  OBVIOUS
<1>3. Total(h, T) = h[x] + Total(h, T \ {x})
  <2>1. x \in T /\ \A y \in T : h[y] \in Int
    OBVIOUS
  <2> HIDE DEF T
  <2> QED BY <1>1, <2>1, TotalTake
<1> QED BY <1>2, <1>3

\* The sum over two disjoint sets.
LEMMA TotalUnion ==
  ASSUME NEW S, IsFiniteSet(S), NEW T, IsFiniteSet(T), S \cap T = {},
         NEW h, \A x \in S \cup T : h[x] \in Int
  PROVE  Total(h, S \cup T) = Total(h, S) + Total(h, T)
<1> DEFINE F == {U \in SUBSET T : Total(h, S \cup U) # Total(h, S) + Total(h, U)}
<1> SUFFICES ASSUME F # {} PROVE FALSE
  OBVIOUS
<1>1. PICK m \in F : \A t \in F : t \subseteq m => t = m
  <2>1. F \subseteq SUBSET T
    OBVIOUS
  <2> HIDE DEF F
  <2> QED BY <2>1, MinimalSet
<1>2. Total(h, S) \in Int
  BY TotalTake
<1>3. PICK x \in m : TRUE
  <2>1. Total(h, S \cup {}) = Total(h, S) + Total(h, {})
    <3>1. S \cup {} = S
      OBVIOUS
    <3> QED BY <1>2, <3>1, TotalEmpty
  <2> QED BY <2>1
<1> DEFINE r == m \ {x}
<1>4. /\ r \in SUBSET T /\ r \notin F /\ x \notin S /\ x \in T
      /\ m = r \cup {x} /\ S \cup m = (S \cup r) \cup {x} /\ x \notin S \cup r /\ x \notin r
  BY <1>1, <1>3
<1>5. IsFiniteSet(r) /\ IsFiniteSet(S \cup r)
  <2>1. IsFiniteSet(r)
    BY <1>4, FS_Subset
  <2> HIDE DEF r
  <2> QED BY <2>1, FS_Union
<1>6. Total(h, S \cup r) = Total(h, S) + Total(h, r)
  BY <1>4
<1>7. Total(h, r) \in Int
  <2> HIDE DEF r
  <2> QED BY <1>4, <1>5, TotalTake
<1>8. Total(h, m) = h[x] + Total(h, r)
  <2> HIDE DEF r
  <2> QED BY <1>4, <1>5, TotalAdd
<1>9. Total(h, S \cup m) = h[x] + Total(h, S \cup r)
  <2> DEFINE U == S \cup r
  <2>1. \A y \in U \cup {x} : h[y] \in Int
    BY <1>4
  <2>2. Total(h, U \cup {x}) = h[x] + Total(h, U)
    <3> HIDE DEF U
    <3> QED BY <1>4, <1>5, <2>1, TotalAdd DEF U
  <2> QED BY <1>4, <2>2
<1>10. h[x] \in Int
  BY <1>4
<1> HIDE DEF r
<1>11. Total(h, S \cup m) = Total(h, S) + Total(h, m)
  BY <1>2, <1>6, <1>7, <1>8, <1>9, <1>10
<1> QED BY <1>1, <1>11

\* Naturals add up to a natural.
LEMMA TotalNat ==
  ASSUME NEW S, IsFiniteSet(S), NEW h, \A x \in S : h[x] \in Nat
  PROVE  Total(h, S) \in Nat
<1> DEFINE F == {U \in SUBSET S : Total(h, U) \notin Nat}
<1> SUFFICES ASSUME F # {} PROVE FALSE
  OBVIOUS
<1>1. PICK m \in F : \A t \in F : t \subseteq m => t = m
  <2>1. F \subseteq SUBSET S
    OBVIOUS
  <2> HIDE DEF F
  <2> QED BY <2>1, MinimalSet
<1>2. PICK x \in m : TRUE
  BY TotalEmpty
<1>3. m \ {x} \in SUBSET S /\ m \ {x} \notin F /\ x \in S
  BY <1>1, <1>2
<1>4. IsFiniteSet(m)
  BY FS_Subset
<1>5. Total(h, m) = h[x] + Total(h, m \ {x})
  BY <1>4, TotalTake
<1> QED BY <1>3, <1>5

\* More elements, none of which takes away, add up to more.
LEMMA TotalMonotone ==
  ASSUME NEW S, IsFiniteSet(S), NEW T \in SUBSET S, NEW h, \A x \in S : h[x] \in Nat
  PROVE  Total(h, T) <= Total(h, S)
<1> DEFINE R == S \ T
<1>1. IsFiniteSet(T) /\ IsFiniteSet(R) /\ T \cap R = {} /\ T \cup R = S
  BY FS_Subset, FS_Difference
<1>2. Total(h, S) = Total(h, T) + Total(h, R)
  <2>1. \A x \in T \cup R : h[x] \in Int
    OBVIOUS
  <2> HIDE DEF R
  <2>2. Total(h, T \cup R) = Total(h, T) + Total(h, R)
    BY <1>1, <2>1, TotalUnion
  <2> QED BY <1>1, <2>2
<1>3. Total(h, T) \in Nat /\ Total(h, R) \in Nat
  <2>1. \A x \in R : h[x] \in Nat
    OBVIOUS
  <2> HIDE DEF R
  <2> QED BY <1>1, <2>1, TotalNat
<1> HIDE DEF R
<1> QED BY <1>2, <1>3

\* Adding up along a bijection.
LEMMA TotalReindex ==
  ASSUME NEW S, IsFiniteSet(S), NEW f, \A x, y \in S : f[x] = f[y] => x = y,
         NEW h, \A x \in S : h[f[x]] \in Int
  PROVE  Total([x \in S |-> h[f[x]]], S) = Total(h, {f[x] : x \in S})
<1> DEFINE k == [x \in S |-> h[f[x]]]
           Img(U) == {f[x] : x \in U}
           F == {U \in SUBSET S : ~ (IsFiniteSet(Img(U)) /\ Total(k, U) = Total(h, Img(U)))}
<1> SUFFICES ASSUME F # {} PROVE FALSE
  OBVIOUS
<1>1. PICK m \in F : \A t \in F : t \subseteq m => t = m
  <2>1. F \subseteq SUBSET S
    OBVIOUS
  <2> HIDE DEF F
  <2> QED BY <2>1, MinimalSet
<1>2. PICK x \in m : TRUE
  <2>1. Img({}) = {}
    OBVIOUS
  <2>2. {} \notin F
    <3> HIDE DEF k, Img
    <3> QED BY <2>1, TotalEmpty, FS_EmptySet
  <2> QED BY <2>2
<1> DEFINE r == m \ {x}
<1>3. r \in SUBSET S /\ r \notin F /\ x \in S /\ x \notin r /\ m = r \cup {x}
  BY <1>1, <1>2
<1>4. IsFiniteSet(r) /\ IsFiniteSet(Img(r)) /\ Total(k, r) = Total(h, Img(r))
  <2>1. IsFiniteSet(r)
    <3> HIDE DEF r
    <3> QED BY <1>3, FS_Subset
  <2> HIDE DEF k, Img, r
  <2> QED BY <1>3, <2>1 DEF F
<1>5. f[x] \notin Img(r) /\ Img(m) = Img(r) \cup {f[x]}
  BY <1>3
<1>6. \A y \in r \cup {x} : k[y] \in Int
  BY <1>3
<1>7. \A v \in Img(r) \cup {f[x]} : h[v] \in Int
  BY <1>3
<1>8. k[x] = h[f[x]]
  BY <1>3
<1> HIDE DEF k, Img, r
<1>9. Total(k, m) = k[x] + Total(k, r)
  BY <1>3, <1>4, <1>6, TotalAdd
<1>10. Total(h, Img(m)) = h[f[x]] + Total(h, Img(r))
  BY ZenonT(60), <1>4, <1>5, <1>7, TotalAdd
<1>11. IsFiniteSet(Img(m))
  BY <1>4, <1>5, FS_AddElement
<1> QED BY <1>4, <1>8, <1>9, <1>10, <1>11 DEF F

\* A one-to-one image is as large.
LEMMA Image ==
  ASSUME NEW S, IsFiniteSet(S), NEW f, \A x, y \in S : f[x] = f[y] => x = y
  PROVE  /\ IsFiniteSet({f[x] : x \in S})
         /\ Cardinality({f[x] : x \in S}) = Cardinality(S)
<1> DEFINE T == {f[x] : x \in S}
           g == [x \in S |-> f[x]]
<1>1. g \in [S -> T] /\ \A x, y \in S : g[x] = g[y] => x = y
  OBVIOUS
<1>2. \A y \in T : \E x \in S : g[x] = y
  OBVIOUS
<1> HIDE DEF T, g
<1>3. g \in Bijection(S, T)
  BY <1>1, <1>2 DEF Bijection, Injection, Surjection, IsInjective
<1>4. ExistsBijection(S, T)
  BY <1>3 DEF ExistsBijection
<1>5. IsFiniteSet(T) /\ Cardinality(T) = Cardinality(S)
  BY <1>4, FS_Bijection
<1> QED BY <1>5 DEF T

------------------------------------------------------------------------------
(* FoldLeft: the elements of a sequence, the last one chosen first. *)

\* The largest of what f makes of the elements of a finite set.
LEMMA Largest ==
  ASSUME NEW S, IsFiniteSet(S), S # {}, NEW f, \A x \in S : f[x] \in Int
  PROVE  \E x \in S : \A y \in S : f[y] <= f[x]
<1> DEFINE Has(U) == \E x \in U : \A y \in U : f[y] <= f[x]
           F == {U \in SUBSET S : U # {} /\ ~ Has(U)}
<1> SUFFICES ASSUME F # {} PROVE FALSE
  OBVIOUS
<1>1. PICK m \in F : \A t \in F : t \subseteq m => t = m
  <2>1. F \subseteq SUBSET S
    OBVIOUS
  <2> HIDE DEF F
  <2> QED BY <2>1, MinimalSet
<1>2. PICK x \in m : TRUE
  OBVIOUS
<1>3. \A u \in m : f[u] \in Int
  OBVIOUS
<1>4. CASE m = {x}
  BY <1>3, <1>4
<1>5. CASE m # {x}
  <2>1. m \ {x} # {} /\ m \ {x} \notin F /\ m \ {x} \in SUBSET S
    BY <1>1, <1>2, <1>5
  <2>2. PICK z \in m \ {x} : \A y \in m \ {x} : f[y] <= f[z]
    BY <2>1
  <2>3. CASE f[x] <= f[z]
    <3>1. \A y \in m : f[y] <= f[z]
      BY <2>2, <2>3
    <3> QED BY <3>1
  <2>4. CASE ~ (f[x] <= f[z])
    <3>1. \A y \in m : f[y] <= f[x]
      BY <1>3, <2>2, <2>4
    <3> QED BY <3>1
  <2> QED BY <2>3, <2>4
<1> QED BY <1>4, <1>5

\* The choice of the largest index.
Last1(n) == [s \in SUBSET (1..n) |-> Max(s)]

\* A finite set has its maximum.
LEMMA MaxIsIn ==
  ASSUME NEW s, IsFiniteSet(s), s \subseteq Int, s # {}
  PROVE  Max(s) \in s /\ \A y \in s : Max(s) >= y
<1>1. PICK x \in s : \A y \in s : [z \in s |-> z][y] <= [z \in s |-> z][x]
  BY Largest
<1>2. \A y \in s : x >= y
  BY <1>1
<1> QED BY <1>2 DEF Max

\* And its minimum.
LEMMA MinIsIn ==
  ASSUME NEW s, IsFiniteSet(s), s \subseteq Int, s # {}
  PROVE  Min(s) \in s /\ \A y \in s : Min(s) <= y
<1> DEFINE f == [z \in s |-> -z]
<1>1. PICK x \in s : \A y \in s : f[y] <= f[x]
  <2>1. \A z \in s : f[z] \in Int
    OBVIOUS
  <2> HIDE DEF f
  <2> QED BY <2>1, Largest
<1>2. \A y \in s : x <= y
  BY <1>1
<1> QED BY <1>2 DEF Min

\* The library folds a sequence by choosing the largest index each time.
LEMMA LastChooses ==
  ASSUME NEW n \in Nat
  PROVE  IsFiniteSet(1..n) /\ Chooses(Last1(n), 1..n)
<1>1. IsFiniteSet(1..n)
  BY FS_Interval
<1>2. ASSUME NEW s \in SUBSET (1..n), s # {} PROVE Max(s) \in s
  <2>1. IsFiniteSet(s)
    BY <1>1, FS_Subset
  <2>2. s \subseteq Int
    OBVIOUS
  <2> QED BY <1>2, <2>1, <2>2, MaxIsIn
<1> QED BY <1>1, <1>2 DEF Chooses, Last1

\* Of a prefix, that is its length.
LEMMA LastOfPrefix ==
  ASSUME NEW i \in Nat \ {0}
  PROVE  Max(1..i) = i /\ (1..i) \ {i} = 1..(i - 1) /\ 1..i # {}
<1>1. IsFiniteSet(1..i)
  BY FS_Interval
<1>2. i \in 1..i /\ 1..i \subseteq Int
  OBVIOUS
<1>3. Max(1..i) \in 1..i /\ Max(1..i) >= i
  BY <1>1, <1>2, MaxIsIn
<1> QED BY <1>2, <1>3

\* A fold over a sequence of length n that stays in V.
LEMMA LeftExists ==
  ASSUME NEW n \in Nat, NEW V, NEW base \in V, NEW g, \A i \in 1..n : g[i] \in [V -> V]
  PROVE  \E it : /\ IsFold(it, 1..n, Last1(n), base, g)
                 /\ \A s \in SUBSET (1..n) : it[s] \in V
<1>1. PICK it : IsFold(it, 1..n, Last1(n), base, g)
  BY LastChooses, FoldExists
<1> DEFINE F == {s \in SUBSET (1..n) : it[s] \notin V}
<1> SUFFICES ASSUME F # {} PROVE FALSE
  BY <1>1
<1>2. PICK m \in F : \A t \in F : t \subseteq m => t = m
  <2> DEFINE S == 1..n
  <2>1. F \subseteq SUBSET S
    OBVIOUS
  <2>2. IsFiniteSet(S)
    BY LastChooses
  <2> HIDE DEF F, S
  <2> QED BY <2>1, <2>2, MinimalSet
<1>3. m # {}
  BY <1>1 DEF IsFold
<1> DEFINE c == Last1(n)
<1>4. c[m] \in m
  BY <1>3, LastChooses DEF Chooses
<1>5. it[m] = g[c[m]][it[m \ {c[m]}]]
  BY <1>1, <1>3 DEF IsFold
<1>6. m \ {c[m]} \notin F /\ m \ {c[m]} \in SUBSET (1..n)
  BY <1>2, <1>4
<1>7. it[m \ {c[m]}] \in V
  BY <1>6
<1>8. g[c[m]] \in [V -> V]
  BY <1>4
<1> HIDE DEF c
<1>9. it[m] \in V
  BY <1>5, <1>7, <1>8
<1> QED BY <1>9

\* it adds up the prefixes of a sequence of length n.
IsLeftSum(it, n, h) ==
  it = [s \in SUBSET (1..n) |-> IF s = {} THEN 0 ELSE it[s \ {Max(s)}] + h[Max(s)]]

\* Adding up a sequence from the left is adding up the set of its indices.
LEMMA LeftSum ==
  ASSUME NEW n \in Nat, NEW h, \A i \in 1..n : h[i] \in Int
  PROVE  /\ \E it : IsLeftSum(it, n, h)
         /\ \A it : IsLeftSum(it, n, h) => it[1..n] = Total(h, 1..n)
<1> DEFINE c == Last1(n)
           S == 1..n
<1>0. IsFiniteSet(S) /\ Chooses(c, S)
  BY LastChooses
<1>1. \A s \in SUBSET S : c[s] = Max(s)
  BY DEF Last1
<1>2. \E it : IsLeftSum(it, n, h)
  <2>1. PICK it : IsSum(it, S, c, h)
    <3> HIDE DEF S, c
    <3> QED BY <1>0, SumExists DEF S
  <2>2. \A s \in SUBSET S : it[s] \in Int
    <3> HIDE DEF S, c
    <3> QED BY <1>0, <2>1, SumTakesAny DEF S
  <2>3. ASSUME NEW s \in SUBSET S
        PROVE  it[s] = IF s = {} THEN 0 ELSE it[s \ {Max(s)}] + h[Max(s)]
    <3>1. CASE s = {}
      BY <2>1, <3>1 DEF IsSum
    <3>2. CASE s # {}
      <4>1. Max(s) \in s /\ s \ {Max(s)} \in SUBSET S
        BY <1>0, <1>1, <3>2 DEF Chooses
      <4>2. h[Max(s)] \in Int /\ it[s \ {Max(s)}] \in Int
        BY <2>2, <4>1
      <4>3. it[s] = h[Max(s)] + it[s \ {Max(s)}]
        BY <1>1, <2>1, <3>2 DEF IsSum
      <4> HIDE DEF S, c
      <4> QED BY <3>2, <4>2, <4>3
    <3> QED BY <3>1, <3>2
  <2>4. it = [s \in SUBSET S |-> it[s]]
    BY <2>1 DEF IsSum
  <2> QED BY <2>3, <2>4 DEF IsLeftSum
<1>3. ASSUME NEW it, IsLeftSum(it, n, h) PROVE it[1..n] = Total(h, 1..n)
  <2>1. \A s \in SUBSET S : it[s] \in Int
    <3> DEFINE F == {s \in SUBSET S : it[s] \notin Int}
    <3> SUFFICES ASSUME F # {} PROVE FALSE
      OBVIOUS
    <3>1. PICK m \in F : \A t \in F : t \subseteq m => t = m
      <4>1. F \subseteq SUBSET S
        OBVIOUS
      <4> HIDE DEF F, S
      <4> QED BY <1>0, <4>1, MinimalSet
    <3>2. m # {}
      BY <1>3 DEF IsLeftSum
    <3>3. Max(m) \in m
      BY <1>0, <1>1, <3>2 DEF Chooses
    <3>4. m \ {Max(m)} \in SUBSET S /\ m \ {Max(m)} \notin F
      BY <3>1, <3>3
    <3>5. it[m \ {Max(m)}] \in Int /\ h[Max(m)] \in Int
      BY <3>3, <3>4
    <3>6. it[m] = it[m \ {Max(m)}] + h[Max(m)]
      BY <1>3, <3>2 DEF IsLeftSum
    <3> QED BY <3>5, <3>6
  <2>2. ASSUME NEW s \in SUBSET S
        PROVE  it[s] = IF s = {} THEN 0 ELSE h[c[s]] + it[s \ {c[s]}]
    <3>1. CASE s = {}
      BY <1>3, <3>1 DEF IsLeftSum
    <3>2. CASE s # {}
      <4>1. Max(s) \in s /\ s \ {Max(s)} \in SUBSET S
        BY <1>0, <1>1, <3>2 DEF Chooses
      <4>2. h[Max(s)] \in Int /\ it[s \ {Max(s)}] \in Int
        BY <2>1, <4>1
      <4>3. it[s] = it[s \ {Max(s)}] + h[Max(s)]
        BY <1>3, <3>2 DEF IsLeftSum
      <4>4. it[s] = h[Max(s)] + it[s \ {Max(s)}] /\ c[s] = Max(s)
        <5> HIDE DEF S, c
        <5> QED BY <1>1, <4>2, <4>3
      <4> HIDE DEF S, c
      <4> QED BY <3>2, <4>4
    <3> QED BY <3>1, <3>2
  <2>3. it = [s \in SUBSET S |-> it[s]]
    BY <1>3 DEF IsLeftSum
  <2>4. IsSum(it, S, c, h)
    <3> HIDE DEF c
    <3> QED BY <2>2, <2>3 DEF IsSum
  <2>5. PICK i2 : IsSum(i2, S, Picks(S), h) /\ Total(h, S) = i2[S]
    <3> HIDE DEF S
    <3> QED BY <1>0, TotalIsSum DEF S
  <2>6. \A x \in S : h[x] \in Int
    OBVIOUS
  <2>7. it[S] = i2[S]
    <3> HIDE DEF S, c
    <3> QED BY <1>0, <2>4, <2>5, <2>6, PicksChoose, SumUnique
  <2> QED BY <2>5, <2>7
<1> QED BY <1>2, <1>3

\* Over a sequence longer by one, the sum grows by the last.
LEMMA TotalBy ==
  ASSUME NEW n \in Nat, NEW h, \A i \in 1..(n + 1) : h[i] \in Int
  PROVE  /\ Total(h, 1..n) \in Int
         /\ Total(h, 1..(n + 1)) = Total(h, 1..n) + h[n + 1]
<1>1. IsFiniteSet(1..n) /\ IsFiniteSet(1..(n + 1))
  BY FS_Interval
<1>2. /\ n + 1 \in 1..(n + 1) /\ (1..(n + 1)) \ {n + 1} = 1..n
      /\ \A i \in 1..n : h[i] \in Int
  OBVIOUS
<1>3. Total(h, 1..n) \in Int
  BY <1>1, <1>2, TotalTake
<1>4. Total(h, 1..(n + 1)) = h[n + 1] + Total(h, 1..n)
  <2>1. Total(h, 1..(n + 1)) = h[n + 1] + Total(h, (1..(n + 1)) \ {n + 1})
    BY <1>1, <1>2, TotalTake
  <2> QED BY <1>2, <2>1
<1>5. h[n + 1] \in Int
  BY <1>2
<1> QED BY <1>3, <1>4, <1>5

\* Zeroes add up to zero.
LEMMA TotalZero ==
  ASSUME NEW S, IsFiniteSet(S)
  PROVE  Total([x \in S |-> 0], S) = 0
<1> DEFINE h == [x \in S |-> 0]
           F == {U \in SUBSET S : Total(h, U) # 0}
<1> SUFFICES ASSUME F # {} PROVE FALSE
  OBVIOUS
<1>1. PICK m \in F : \A t \in F : t \subseteq m => t = m
  <2>1. F \subseteq SUBSET S
    OBVIOUS
  <2> HIDE DEF F
  <2> QED BY <2>1, MinimalSet
<1>2. PICK x \in m : TRUE
  <2>1. m # {}
    BY TotalEmpty
  <2> QED BY <2>1
<1>3. m \ {x} \notin F /\ m \ {x} \in SUBSET S
  BY <1>1, <1>2
<1>4. Total(h, m \ {x}) = 0 /\ h[x] = 0 /\ \A y \in m : h[y] \in Int
  BY <1>3
<1>5. IsFiniteSet(m)
  BY FS_Subset
<1> HIDE DEF h
<1>6. Total(h, m) = h[x] + Total(h, m \ {x})
  BY <1>4, <1>5, TotalTake
<1> QED BY <1>4, <1>6

\* One summand more or less by d.
LEMMA TotalBump ==
  ASSUME NEW S, IsFiniteSet(S), NEW h, NEW k, NEW x \in S, NEW d \in Int,
         \A y \in S : h[y] \in Int, k[x] = h[x] + d, \A y \in S \ {x} : k[y] = h[y]
  PROVE  Total(k, S) = Total(h, S) + d
<1>1. IsFiniteSet(S \ {x})
  BY FS_RemoveElement
<1>2. /\ \A y \in S : k[y] \in Int
      /\ \A y \in S \ {x} : h[y] \in Int /\ h[y] = k[y]
  OBVIOUS
<1>3. /\ Total(h, S) = h[x] + Total(h, S \ {x})
      /\ Total(k, S) = k[x] + Total(k, S \ {x})
  BY <1>2, TotalTake
<1>4. Total(h, S \ {x}) = Total(k, S \ {x}) /\ Total(h, S \ {x}) \in Int
  BY <1>1, <1>2, TotalSame, TotalTake
<1>5. h[x] \in Int /\ k[x] = h[x] + d
  OBVIOUS
<1> QED BY <1>3, <1>4, <1>5

------------------------------------------------------------------------------
(* Selecting from a sequence. *)

IsSelect(it, q, good) ==
  it = [s \in SUBSET DOMAIN q |->
          IF s = {} THEN <<>>
          ELSE IF q[Max(s)] \in good THEN Append(it[s \ {Max(s)}], q[Max(s)])
          ELSE it[s \ {Max(s)}]]

\* The selection from the prefixes of a sequence exists.
LEMMA SelectExists ==
  ASSUME NEW X, NEW q \in Seq(X), NEW good
  PROVE  \E it : IsSelect(it, q, good)
<1> DEFINE n == Len(q)
           g == [i \in 1..n |-> [k \in Seq(X) |-> IF q[i] \in good THEN Append(k, q[i]) ELSE k]]
           c == Last1(n)
<1>1. n \in Nat /\ DOMAIN q = 1..n /\ <<>> \in Seq(X)
  OBVIOUS
<1>2. \A i \in 1..n : g[i] \in [Seq(X) -> Seq(X)]
  OBVIOUS
<1>3. PICK it : IsFold(it, 1..n, c, <<>>, g) /\ \A s \in SUBSET (1..n) : it[s] \in Seq(X)
  <2> HIDE DEF n, g, c
  <2> QED BY <1>1, <1>2, LeftExists DEF c
<1>4. ASSUME NEW s \in SUBSET (1..n), s # {}
      PROVE  g[c[s]][it[s \ {c[s]}]] =
               IF q[Max(s)] \in good THEN Append(it[s \ {Max(s)}], q[Max(s)])
               ELSE it[s \ {Max(s)}]
  <2>1. c[s] = Max(s) /\ Max(s) \in 1..n
    BY <1>1, <1>4, LastChooses DEF Chooses, Last1
  <2>2. it[s \ {Max(s)}] \in Seq(X)
    BY <1>3, <2>1
  <2> HIDE DEF c
  <2> QED BY <2>1, <2>2
<1> HIDE DEF g, c
<1>5. IsSelect(it, q, good)
  BY <1>1, <1>3, <1>4 DEF IsFold, IsSelect
<1> QED BY <1>5

\* Appending adds one element.
LEMMA AppendRange ==
  ASSUME NEW X, NEW q \in Seq(X), NEW x \in X
  PROVE  Append(q, x) \in Seq(X) /\ Range(Append(q, x)) = Range(q) \cup {x}
<1> DEFINE r == Append(q, x)
<1>1. /\ r \in Seq(X) /\ Len(q) \in Nat
      /\ DOMAIN q = 1..Len(q) /\ DOMAIN r = 1..(Len(q) + 1)
      /\ r[Len(q) + 1] = x /\ \A i \in 1..Len(q) : r[i] = q[i]
  OBVIOUS
<1> HIDE DEF r
<1>2. Range(r) \subseteq Range(q) \cup {x}
  BY <1>1 DEF Range
<1>3. x \in Range(r) /\ Range(q) \subseteq Range(r)
  <2>1. Len(q) + 1 \in DOMAIN r /\ \A i \in DOMAIN q : i \in DOMAIN r
    BY <1>1
  <2> QED BY <1>1, <2>1 DEF Range
<1> QED BY <1>1, <1>2, <1>3 DEF r

\* It has exactly the elements that are in the set.
LEMMA Selected ==
  ASSUME NEW X, NEW q \in Seq(X), NEW good, NEW it, IsSelect(it, q, good)
  PROVE  /\ it[DOMAIN q] \in Seq(X)
         /\ Range(it[DOMAIN q]) = {x \in Range(q) : x \in good}
<1> DEFINE n == Len(q)
           Right(i) == /\ it[1..i] \in Seq(X)
                       /\ Range(it[1..i]) = {x \in {q[j] : j \in 1..i} : x \in good}
           N == {i \in 0..n : Right(i)}
<1>1. n \in Nat /\ DOMAIN q = 1..n
  OBVIOUS
<1>2. 0 \in N
  <2>1. 1..0 = {} /\ {} \in SUBSET DOMAIN q
    OBVIOUS
  <2>2. it[1..0] = <<>>
    BY <2>1 DEF IsSelect
  <2>3. <<>> \in Seq(X) /\ Range(<<>>) = {}
    BY DEF Range
  <2>4. {q[j] : j \in 1..0} = {}
    BY <2>1
  <2>5. Right(0)
    BY <2>2, <2>3, <2>4
  <2> QED BY <1>1, <2>5
<1>3. ASSUME NEW i \in 0..(n - 1), i \in N PROVE i + 1 \in N
  <2>1. Max(1..(i + 1)) = i + 1 /\ (1..(i + 1)) \ {i + 1} = 1..i /\ 1..(i + 1) # {}
    <3>1. i + 1 \in Nat \ {0} /\ (i + 1) - 1 = i
      BY <1>1
    <3> QED BY <3>1, LastOfPrefix
  <2>2. 1..(i + 1) \in SUBSET DOMAIN q /\ i + 1 \in 1..n
    BY <1>1
  <2>3. it[1..(i + 1)] = IF q[i + 1] \in good THEN Append(it[1..i], q[i + 1]) ELSE it[1..i]
    BY <2>1, <2>2 DEF IsSelect
  <2>4. {q[j] : j \in 1..(i + 1)} = {q[j] : j \in 1..i} \cup {q[i + 1]} /\ q[i + 1] \in X
    BY <1>1
  <2>5. PICK k \in Seq(X) : k = it[1..i] /\ Range(k) = {x \in {q[j] : j \in 1..i} : x \in good}
    BY <1>3
  <2>6. Append(k, q[i + 1]) \in Seq(X) /\ Range(Append(k, q[i + 1])) = Range(k) \cup {q[i + 1]}
    BY <2>4, AppendRange
  <2> HIDE DEF N
  <2>7. Right(i + 1)
    BY <2>3, <2>4, <2>5, <2>6
  <2> QED BY <1>1, <2>7 DEF N
<1>4. n \in N
  <2> HIDE DEF N, n
  <2>1. 0..n \subseteq N
    BY <1>1, <1>2, <1>3, UpTo
  <2> QED BY <1>1, <2>1
<1>5. {q[j] : j \in 1..n} = Range(q)
  BY <1>1 DEF Range
<1> QED BY <1>1, <1>4, <1>5

\* Joining two sequences.
LEMMA Concat ==
  ASSUME NEW X, NEW p \in Seq(X), NEW q \in Seq(X), NEW r, r = p \o q
  PROVE  /\ r \in Seq(X) /\ Len(r) = Len(p) + Len(q)
         /\ \A i \in 1..Len(p) : r[i] = p[i]
         /\ \A i \in 1..Len(q) : r[Len(p) + i] = q[i]
<1>1. /\ r \in Seq(X) /\ Len(r) = Len(p) + Len(q) /\ Len(p) \in Nat /\ Len(q) \in Nat
      /\ \A i \in 1..Len(p) : r[i] = p[i]
      /\ \A i \in 1..Len(r) : i > Len(p) => r[i] = q[i - Len(p)]
  OBVIOUS
<1>2. \A i \in 1..Len(q) : r[Len(p) + i] = q[i]
  <2> SUFFICES ASSUME NEW i \in 1..Len(q) PROVE r[Len(p) + i] = q[i]
    OBVIOUS
  <2>1. Len(p) + i \in 1..Len(r) /\ Len(p) + i > Len(p) /\ (Len(p) + i) - Len(p) = i
    BY <1>1
  <2> QED BY <1>1, <2>1
<1> QED BY <1>1, <1>2

\* A joined sequence has the elements of both.
LEMMA ConcatRange ==
  ASSUME NEW X, NEW p \in Seq(X), NEW q \in Seq(X)
  PROVE  /\ p \o q \in Seq(X) /\ Range(p \o q) = Range(p) \cup Range(q)
         /\ Len(p \o q) = Len(p) + Len(q)
<1> DEFINE r == p \o q
<1>1. /\ r \in Seq(X) /\ Len(r) = Len(p) + Len(q) /\ Len(p) \in Nat /\ Len(q) \in Nat
      /\ DOMAIN p = 1..Len(p) /\ DOMAIN q = 1..Len(q) /\ DOMAIN r = 1..Len(r)
      /\ \A i \in 1..Len(p) : r[i] = p[i]
      /\ \A i \in 1..Len(r) : i > Len(p) => r[i] = q[i - Len(p)]
  OBVIOUS
<1> HIDE DEF r
<1>2. \A i \in 1..Len(q) : r[Len(p) + i] = q[i]
  <2> SUFFICES ASSUME NEW i \in 1..Len(q) PROVE r[Len(p) + i] = q[i]
    OBVIOUS
  <2>1. Len(p) + i \in 1..Len(r) /\ Len(p) + i > Len(p) /\ (Len(p) + i) - Len(p) = i
    BY <1>1
  <2> QED BY <1>1, <2>1
<1>3. Range(r) \subseteq Range(p) \cup Range(q)
  <2> SUFFICES ASSUME NEW i \in 1..Len(r) PROVE r[i] \in Range(p) \cup Range(q)
    BY <1>1 DEF Range
  <2>1. CASE i <= Len(p)
    BY SMTT(40), <1>1, <2>1 DEF Range
  <2>2. CASE i > Len(p)
    <3>1. i - Len(p) \in 1..Len(q)
      BY <1>1, <2>2
    <3> QED BY <1>1, <2>2, <3>1 DEF Range
  <2> QED BY <1>1, <2>1, <2>2
<1>4. Range(p) \subseteq Range(r)
  <2>1. \A i \in 1..Len(p) : i \in 1..Len(r)
    BY <1>1
  <2> QED BY <1>1, <2>1 DEF Range
<1>5. Range(q) \subseteq Range(r)
  <2>1. \A i \in 1..Len(q) : Len(p) + i \in 1..Len(r)
    BY <1>1
  <2> QED BY <1>1, <1>2, <2>1 DEF Range
<1> QED BY <1>1, <1>2, <1>3, <1>4, <1>5 DEF r

------------------------------------------------------------------------------
(* Windows: the multiples of L. *)

\* Quotient and remainder.
LEMMA Division ==
  ASSUME NEW L \in Nat \ {0}, NEW t \in Nat
  PROVE  /\ (t % L) \in 0..(L - 1) /\ (t \div L) \in Int
         /\ t = (L * (t \div L)) + (t % L)
OBVIOUS

\* A later time is in no earlier window.
LEMMA StartMonotone ==
  ASSUME NEW L \in Nat \ {0}, NEW t \in Nat, NEW u \in Nat, t <= u
  PROVE  t - (t % L) <= u - (u % L)
<1> DEFINE q1 == t \div L
           q2 == u \div L
           r1 == t % L
           r2 == u % L
<1>1. /\ q1 \in Int /\ r1 \in 0..(L - 1) /\ t = (L * q1) + r1
      /\ q2 \in Int /\ r2 \in 0..(L - 1) /\ u = (L * q2) + r2
  BY Division
<1> SUFFICES t - r1 <= u - r2
  OBVIOUS
<1> HIDE DEF q1, q2, r1, r2
<1>2. CASE q1 <= q2
  <2>1. L * q1 <= L * q2
    BY <1>1, <1>2
  <2> QED BY <1>1, <2>1
<1>3. CASE q1 > q2
  <2>1. L * q1 >= (L * q2) + L
    BY <1>1, <1>3
  <2> QED BY <1>1, <2>1
<1> QED BY <1>1, <1>2, <1>3

\* They are unique.
LEMMA QuotientIs ==
  ASSUME NEW L \in Nat \ {0}, NEW t \in Nat, NEW q \in Int, NEW r \in 0..(L - 1), t = (L * q) + r
  PROVE  t \div L = q
<1> DEFINE p == t \div L
           s == t % L
<1>1. p \in Int /\ s \in 0..(L - 1) /\ t = (L * p) + s
  BY Division
<1> HIDE DEF p, s
<1>2. CASE p < q
  <2>1. L * q >= (L * p) + L
    BY <1>1, <1>2
  <2> QED BY <1>1, <2>1
<1>3. CASE p > q
  <2>1. L * p >= (L * q) + L
    BY <1>1, <1>3
  <2> QED BY <1>1, <2>1
<1>4. p = q
  BY <1>1, <1>2, <1>3
<1> QED BY <1>4 DEF p

------------------------------------------------------------------------------
(* Sorting a finite set by what f makes of its elements. *)

\* f increases along q.
Increasing(q, n, f) == \A i, j \in 1..n : i < j => f[q[i]] < f[q[j]]

\* If f tells the elements apart, they can be listed so that it increases.
LEMMA Sortable ==
  ASSUME NEW S, IsFiniteSet(S), NEW f, \A x \in S : f[x] \in Int,
         \A x, y \in S : f[x] = f[y] => x = y
  PROVE  \E q \in [1..Cardinality(S) -> S] : Increasing(q, Cardinality(S), f)
<1> DEFINE Has(U) == \E q \in [1..Cardinality(U) -> U] : Increasing(q, Cardinality(U), f)
           F == {U \in SUBSET S : ~Has(U)}
<1> SUFFICES ASSUME F # {} PROVE FALSE
  OBVIOUS
<1>1. PICK m \in F : \A t \in F : t \subseteq m => t = m
  <2>1. F \subseteq SUBSET S
    OBVIOUS
  <2> HIDE DEF F
  <2> QED BY <2>1, MinimalSet
<1>2. m \in SUBSET S /\ IsFiniteSet(m) /\ ~Has(m)
  BY FS_Subset
<1>3. m # {}
  <2> SUFFICES ASSUME m = {} PROVE FALSE
    OBVIOUS
  <2>1. Cardinality(m) = 0 /\ 1..0 = {}
    BY FS_EmptySet
  <2> DEFINE q == [i \in 1..0 |-> i]
  <2>2. q \in [1..Cardinality(m) -> m] /\ Increasing(q, Cardinality(m), f)
    BY <2>1 DEF Increasing
  <2> QED BY <1>2, <2>2
<1>4. PICK x \in m : \A y \in m : f[y] <= f[x]
  <2>1. \A y \in m : f[y] \in Int
    BY <1>2
  <2> QED BY <1>2, <1>3, <2>1, Largest
<1> DEFINE V == m \ {x}
           n == Cardinality(V)
<1>5. V \in SUBSET S /\ V \notin F
  BY <1>1, <1>4
<1>6. n \in Nat /\ Cardinality(m) = n + 1
  <2>1. IsFiniteSet(V)
    BY <1>2, FS_RemoveElement
  <2>2. n \in Nat
    BY <2>1, FS_CardinalityType
  <2>3. n = Cardinality(m) - 1 /\ Cardinality(m) \in Nat
    BY <1>2, <1>4, FS_RemoveElement, FS_CardinalityType
  <2> HIDE DEF n
  <2> QED BY <2>2, <2>3
<1>7. PICK q \in [1..n -> V] : Increasing(q, n, f)
  BY <1>5
<1>8. \A y \in V : f[y] < f[x]
  BY <1>2, <1>4
<1> HIDE DEF n, F
<1> DEFINE k == [i \in 1..(n + 1) |-> IF i <= n THEN q[i] ELSE x]
<1>9. k \in [1..(n + 1) -> m]
  <2>1. \A i \in 1..(n + 1) : i <= n => i \in 1..n
    BY <1>6
  <2> QED BY <1>4, <1>7, <2>1
<1>10. Increasing(k, n + 1, f)
  <2> SUFFICES ASSUME NEW i \in 1..(n + 1), NEW j \in 1..(n + 1), i < j
               PROVE  f[k[i]] < f[k[j]]
    BY DEF Increasing
  <2>1. i \in 1..n /\ k[i] = q[i] /\ q[i] \in V
    BY <1>6, <1>7
  <2>2. CASE j <= n
    <3>1. j \in 1..n /\ k[j] = q[j]
      BY <1>6, <2>2
    <3> QED BY <1>7, <2>1, <3>1 DEF Increasing
  <2>3. CASE ~(j <= n)
    <3>1. k[j] = x
      BY <2>3
    <3> QED BY <1>8, <2>1, <3>1
  <2> QED BY <2>2, <2>3
<1> HIDE DEF k
<1> QED BY <1>2, <1>6, <1>9, <1>10

\* Such a list has every element once.
Lists(q, n, S) ==
  /\ \A i, j \in 1..n : q[i] = q[j] => i = j
  /\ \A x \in S : \E i \in 1..n : q[i] = x

LEMMA SortedCovers ==
  ASSUME NEW S, IsFiniteSet(S), NEW f, \A x \in S : f[x] \in Int,
         NEW q \in [1..Cardinality(S) -> S], Increasing(q, Cardinality(S), f)
  PROVE  Lists(q, Cardinality(S), S)
<1>1. PICK n \in Nat : n = Cardinality(S)
  BY FS_CardinalityType
<1>2. q \in [1..n -> S] /\ Increasing(q, n, f)
  BY <1>1
<1>3. ASSUME NEW i \in 1..n, NEW j \in 1..n, q[i] = q[j] PROVE i = j
  <2>1. f[q[i]] \in Int /\ f[q[i]] = f[q[j]]
    BY <1>2, <1>3
  <2>2. ~(i < j) /\ ~(j < i)
    BY <1>2, <2>1 DEF Increasing
  <2> QED BY <2>2
<1>4. q \in Injection(1..n, S)
  BY <1>2, <1>3 DEF Injection, IsInjective
<1>5. IsFiniteSet(1..n) /\ Cardinality(1..n) = Cardinality(S)
  BY <1>1, FS_Interval
<1>6. q \in Surjection(1..n, S)
  BY <1>4, <1>5, FS_Injection
<1>7. \A x \in S : \E i \in 1..n : q[i] = x
  BY <1>2, <1>6 DEF Surjection
<1> QED BY <1>1, <1>3, <1>7 DEF Lists

==============================================================================
