----------------------------- MODULE Records_proofs -----------------------------
(***************************************************************************)
(* What the parts of Workspace keep in two places agrees, tenants stay     *)
(* apart, conversations are kept and figures are true to their rows, for   *)
(* any number of requests, rows and messages.  Each part has an inductive  *)
(* invariant of its own, as in Limits_proofs; Workspace_proofs puts them   *)
(* together.  Lemmas on sums and sequences come first.                     *)
(***************************************************************************)
EXTENDS RuleEngine, Revision, Documents, RagSessions, Metering, Chat, Agent, Notices, Reports, Evaluation, Library,
        FiniteSetTheorems, SequenceTheorems, WellFoundedInduction, TLAPS

(* A set of numbers that is not empty has a least one.                     *)
LEMMA LeastOf ==
  ASSUME NEW S, S # {}, S \subseteq Nat
  PROVE  \E x \in S : \A y \in S : x <= y
<1> DEFINE R == OpToRel(<, Nat)
<1>1. IsWellFoundedOn(R, Nat)
  BY NatLessThanWellFounded
<1>2. \A x, y \in Nat : y < x => <<y, x>> \in R
  BY DEF OpToRel
<1> HIDE DEF R
<1>3. PICK x \in S : \A y \in S : ~(<<y, x>> \in R)
  BY <1>1, WFMin
<1>4. x \in Nat
  OBVIOUS
<1>5. ASSUME NEW y \in S PROVE x <= y
  <2>1. ~(y < x)
    BY <1>2, <1>3, <1>4
  <2> QED BY <2>1, <1>4
<1> QED BY <1>5

(* What holds of zero and of the next holds of every number; what holds of *)
(* no element and of one more holds of a finite set.                       *)
LEMMA NatInd ==
  ASSUME NEW T, 0 \in T, \A n \in Nat : n \in T => n + 1 \in T
  PROVE  Nat \subseteq T
<1>. SUFFICES ASSUME Nat \ T # {} PROVE FALSE
  OBVIOUS
<1>1. PICK n \in Nat \ T : \A m \in Nat \ T : n <= m
  BY LeastOf
<1>2. n # 0 /\ n - 1 \in Nat /\ n - 1 \in T
  BY <1>1
<1>3. (n - 1) + 1 \in T
  BY <1>2
<1>. QED BY <1>1, <1>3

LEMMA FinInd ==
  ASSUME NEW S, IsFiniteSet(S), NEW F, {} \in F,
         \A T \in SUBSET S, x \in S : T \in F /\ x \notin T => T \cup {x} \in F
  PROVE  S \in F
<1>. DEFINE N == {n \in Nat : \A U \in SUBSET S : Cardinality(U) = n => U \in F}
<1>1. 0 \in N
  BY FS_Subset, FS_EmptySet
<1>2. ASSUME NEW n \in Nat, n \in N PROVE n + 1 \in N
  <2>. SUFFICES ASSUME NEW U \in SUBSET S, Cardinality(U) = n + 1 PROVE U \in F
    OBVIOUS
  <2>1. IsFiniteSet(U) /\ U # {}
    BY FS_Subset, FS_EmptySet
  <2>2. PICK x \in U : TRUE
    BY <2>1
  <2>3. Cardinality(U \ {x}) = n
    <3>1. Cardinality(U \ {x}) = Cardinality(U) - 1
      BY <2>1, <2>2, FS_RemoveElement
    <3>. QED BY <3>1
  <2>4. U \ {x} \in F
    BY <1>2, <2>3
  <2>5. (U \ {x}) \cup {x} \in F
    BY <2>4
  <2>. QED BY <2>5
<1>3. Nat \subseteq N
  <2>. HIDE DEF N
  <2>. QED BY <1>1, <1>2, NatInd
<1>. QED BY <1>3, FS_CardinalityType

\* it is the fold over the subsets of S that begins with b, takes c[U] out of U first and then goes on by g.
PicksFrom(c, S) == \A U \in SUBSET S : U # {} => c[U] \in U
StepsIn(g, S, V) == \A U \in SUBSET S, v \in V : U # {} => g[<<U, v>>] \in V
IsFold(it, S, V, b, c, g) ==
  /\ it \in [SUBSET S -> V]
  /\ \A U \in SUBSET S : it[U] = IF U = {} THEN b ELSE g[<<U, it[U \ {c[U]}]>>]

LEMMA FoldExists ==
  ASSUME NEW S, IsFiniteSet(S), NEW V, NEW b \in V, NEW c, NEW g,
         PicksFrom(c, S), StepsIn(g, S, V)
  PROVE  \E it : IsFold(it, S, V, b, c, g)
<1> USE DEF PicksFrom, StepsIn
<1>. DEFINE Upto(n, it) == \A U \in SUBSET S : Cardinality(U) <= n =>
                 it[U] = IF U = {} THEN b ELSE g[<<U, it[U \ {c[U]}]>>]
            N == {n \in Nat : \E it \in [SUBSET S -> V] : Upto(n, it)}
<1>0. \A U \in SUBSET S : IsFiniteSet(U) /\ Cardinality(U) \in Nat /\ Cardinality(U) <= Cardinality(S)
                          /\ (Cardinality(U) = 0 <=> U = {})
  BY FS_Subset, FS_EmptySet, FS_CardinalityType
<1>r. \A U \in SUBSET S : U # {} => U \ {c[U]} \in SUBSET S /\ Cardinality(U \ {c[U]}) = Cardinality(U) - 1
  BY <1>0, FS_RemoveElement
<1>1. 0 \in N
  <2>1. Upto(0, [U \in SUBSET S |-> b])
    BY <1>0
  <2>. QED BY <2>1
<1>2. ASSUME NEW n \in Nat, n \in N PROVE n + 1 \in N
  <2>1. PICK it \in [SUBSET S -> V] : Upto(n, it)
    BY <1>2
  <2>. DEFINE jt == [U \in SUBSET S |-> IF Cardinality(U) <= n THEN it[U]
                                        ELSE g[<<U, it[U \ {c[U]}]>>]]
  <2>2. \A U \in SUBSET S : Cardinality(U) > n => U # {}
    BY <1>0
  <2>3. jt \in [SUBSET S -> V]
    BY <2>1, <2>2, <1>r, <1>0
  <2>4. Upto(n + 1, jt)
    <3>. SUFFICES ASSUME NEW U \in SUBSET S, Cardinality(U) <= n + 1
                  PROVE  jt[U] = IF U = {} THEN b ELSE g[<<U, jt[U \ {c[U]}]>>]
      OBVIOUS
    <3>1. U # {} => jt[U \ {c[U]}] = it[U \ {c[U]}]
      BY <1>r, <1>0
    <3>2. CASE Cardinality(U) <= n
      BY <3>1, <3>2, <2>1
    <3>3. CASE Cardinality(U) = n + 1
      <4>1. U # {} /\ ~(Cardinality(U) <= n)
        BY <3>3, <1>0
      <4>2. jt[U] = g[<<U, it[U \ {c[U]}]>>]
        BY <4>1
      <4>. QED BY <4>1, <4>2, <3>1
    <3>. QED BY <3>2, <3>3, <1>0
  <2>5. \E kt \in [SUBSET S -> V] : Upto(n + 1, kt)
    <3>. HIDE DEF jt, Upto
    <3>. QED BY <2>3, <2>4
  <2>6. n + 1 \in Nat
    OBVIOUS
  <2>. HIDE DEF Upto
  <2>. QED BY <2>5, <2>6
<1>3. Nat \subseteq N
  <2>. HIDE DEF N
  <2>. QED BY <1>1, <1>2, NatInd
<1>4. PICK it \in [SUBSET S -> V] : Upto(Cardinality(S), it)
  <2>1. Cardinality(S) \in N
    BY <1>3, FS_CardinalityType
  <2>. QED BY <2>1
<1>5. \A U \in SUBSET S : it[U] = IF U = {} THEN b ELSE g[<<U, it[U \ {c[U]}]>>]
  BY <1>4, <1>0
<1>. QED BY <1>4, <1>5 DEF IsFold


\* The sum of f over S as a function of the subsets.
SumStep(f, S, h) == h = [s \in SUBSET S |-> IF s = {} THEN 0 ELSE LET x == CHOOSE x \in s : TRUE IN f[x] + h[s \ {x}]]
IsSum(it, f, S) ==
  \A U \in SUBSET S : it[U] = IF U = {} THEN 0 ELSE f[CHOOSE x \in U : TRUE] + it[U \ {CHOOSE x \in U : TRUE}]

LEMMA SumsAgree ==
  ASSUME NEW S, NEW T, NEW f, NEW i, NEW j, IsSum(i, f, S), IsSum(j, f, T),
         NEW W, W \subseteq S, W \subseteq T, IsFiniteSet(W)
  PROVE  i[W] = j[W]
<1>. DEFINE N == {n \in Nat : \A U \in SUBSET W : Cardinality(U) = n => i[U] = j[U]}
<1>0. \A U \in SUBSET W : IsFiniteSet(U)
  BY FS_Subset
<1>1. 0 \in N
  BY <1>0, FS_EmptySet DEF IsSum
<1>2. ASSUME NEW n \in Nat, n \in N PROVE n + 1 \in N
  <2>. SUFFICES ASSUME NEW U \in SUBSET W, Cardinality(U) = n + 1 PROVE i[U] = j[U]
    OBVIOUS
  <2>. DEFINE x == CHOOSE y \in U : TRUE
  <2>1. U # {} /\ IsFiniteSet(U)
    BY <1>0, FS_EmptySet
  <2>2. x \in U
    BY <2>1
  <2>3. Cardinality(U \ {x}) = Cardinality(U) - 1
    BY <2>1, <2>2, FS_RemoveElement
  <2>4. i[U \ {x}] = j[U \ {x}]
    BY <1>2, <2>3
  <2>5. U \in SUBSET S /\ U \in SUBSET T /\ i[U] = f[x] + i[U \ {x}] /\ j[U] = f[x] + j[U \ {x}]
    BY <2>1 DEF IsSum
  <2>. QED BY <2>4, <2>5
<1>3. Nat \subseteq N
  <2>. HIDE DEF N
  <2>. QED BY <1>1, <1>2, NatInd
<1>4. Cardinality(W) \in N
  BY <1>0, <1>3, FS_CardinalityType
<1>. QED BY <1>4

LEMMA SumIter ==
  ASSUME NEW S, IsFiniteSet(S), NEW f, \A x \in S : f[x] \in Int
  PROVE  \E it \in [SUBSET S -> Int] : IsSum(it, f, S) /\ SumFunctionOnSet(f, S) = it[S]
<1>. DEFINE c == [U \in SUBSET S |-> CHOOSE x \in U : TRUE]
            g == [p \in (SUBSET S) \X Int |-> f[c[p[1]]] + p[2]]
            it == CHOOSE h : SumStep(f, S, h)
<1>1. SumFunctionOnSet(f, S) = it[S]
  BY DEF SumFunctionOnSet, FoldFunctionOnSet, MapThenFoldSet, SumStep
<1>2. \A U \in SUBSET S : c[U] = CHOOSE x \in U : TRUE
  OBVIOUS
<1>3. \A U \in SUBSET S : U # {} => c[U] \in U
  BY <1>2
<1>4. \A U \in SUBSET S, v \in Int : g[<<U, v>>] = f[c[U]] + v
  OBVIOUS
<1>5. PICK jt \in [SUBSET S -> Int] : \A U \in SUBSET S : jt[U] = IF U = {} THEN 0 ELSE g[<<U, jt[U \ {c[U]}]>>]
  <2>. HIDE DEF c, g
  <2>1. PicksFrom(c, S) /\ StepsIn(g, S, Int) /\ 0 \in Int
    BY <1>3, <1>4 DEF PicksFrom, StepsIn
  <2>2. PICK jt : IsFold(jt, S, Int, 0, c, g)
    BY <2>1, FoldExists
  <2>. QED BY <2>2 DEF IsFold
<1>6. \A U \in SUBSET S : jt[U] = IF U = {} THEN 0 ELSE f[c[U]] + jt[U \ {c[U]}]
  <2>. HIDE DEF c, g
  <2>. TAKE U \in SUBSET S
  <2>1. U \ {c[U]} \in SUBSET S /\ jt[U \ {c[U]}] \in Int
    OBVIOUS
  <2>. QED BY <1>4, <1>5, <2>1
<1>7. SumStep(f, S, jt)
  BY <1>2, <1>6 DEF SumStep
<1>8. SumStep(f, S, it)
  <2>. QED BY <1>7
<1>9. IsSum(it, f, S)
  <2>. HIDE DEF it
  <2>. QED BY <1>8 DEF SumStep, IsSum
<1>10. IsSum(jt, f, S)
  BY <1>2, <1>6 DEF IsSum
<1>11. it[S] = jt[S]
  <2>. HIDE DEF it
  <2>. QED BY <1>9, <1>10, SumsAgree
<1>. QED BY <1>1, <1>10, <1>11

\* A sum takes the elements of its set out one by one.
LEMMA SumChosen ==
  ASSUME NEW S, IsFiniteSet(S), NEW f, \A x \in S : f[x] \in Int
  PROVE  /\ SumFunctionOnSet(f, S) \in Int
         /\ S = {} => SumFunctionOnSet(f, S) = 0
         /\ S # {} => \E x \in S : x = (CHOOSE y \in S : TRUE)
                                  /\ SumFunctionOnSet(f, S) = f[x] + SumFunctionOnSet(f, S \ {x})
<1>1. PICK it \in [SUBSET S -> Int] : IsSum(it, f, S) /\ SumFunctionOnSet(f, S) = it[S]
  BY SumIter
<1>2. SumFunctionOnSet(f, S) \in Int /\ (S = {} => SumFunctionOnSet(f, S) = 0)
  BY <1>1 DEF IsSum
<1>3. ASSUME S # {} PROVE \E x \in S : x = (CHOOSE y \in S : TRUE)
                                  /\ SumFunctionOnSet(f, S) = f[x] + SumFunctionOnSet(f, S \ {x})
  <2>. DEFINE x == CHOOSE y \in S : TRUE
  <2>1. x \in S
    BY <1>3
  <2>2. it[S] = f[x] + it[S \ {x}]
    BY <1>1, <1>3 DEF IsSum
  <2>3. IsFiniteSet(S \ {x}) /\ S \ {x} \subseteq S
    BY FS_Subset
  <2>4. PICK jt \in [SUBSET (S \ {x}) -> Int] : IsSum(jt, f, S \ {x}) /\ SumFunctionOnSet(f, S \ {x}) = jt[S \ {x}]
    BY <2>3, SumIter
  <2>5. it[S \ {x}] = jt[S \ {x}]
    BY <1>1, <2>3, <2>4, SumsAgree
  <2>. QED BY <1>1, <2>1, <2>2, <2>4, <2>5
<1>. QED BY <1>2, <1>3

LEMMA SumTakes ==
  ASSUME NEW S, IsFiniteSet(S), NEW f, \A x \in S : f[x] \in Int
  PROVE  \A x \in S : SumFunctionOnSet(f, S) = f[x] + SumFunctionOnSet(f, S \ {x})
<1>. DEFINE Takes(U) == \A x \in U : SumFunctionOnSet(f, U) = f[x] + SumFunctionOnSet(f, U \ {x})
            N == {n \in Nat : \A U \in SUBSET S : Cardinality(U) = n => Takes(U)}
<1>0. \A U \in SUBSET S : IsFiniteSet(U) /\ \A x \in U : f[x] \in Int
  BY FS_Subset
<1>1. 0 \in N
  BY <1>0, FS_EmptySet
<1>2. ASSUME NEW n \in Nat, n \in N PROVE n + 1 \in N
  <2>. SUFFICES ASSUME NEW U \in SUBSET S, Cardinality(U) = n + 1, NEW x \in U
                PROVE  SumFunctionOnSet(f, U) = f[x] + SumFunctionOnSet(f, U \ {x})
    OBVIOUS
  <2>1. U # {} /\ IsFiniteSet(U) /\ f[x] \in Int
    BY <1>0
  <2>2. PICK y \in U : SumFunctionOnSet(f, U) = f[y] + SumFunctionOnSet(f, U \ {y})
    BY <1>0, <2>1, SumChosen
  <2>3. CASE x = y
    BY <2>2, <2>3
  <2>4. CASE x # y
    <3>1. \A z \in U : U \ {z} \in SUBSET S /\ IsFiniteSet(U \ {z}) /\ Cardinality(U \ {z}) = n
      <4>. TAKE z \in U
      <4>1. Cardinality(U \ {z}) = Cardinality(U) - 1
        BY <2>1, FS_RemoveElement
      <4>. QED BY <1>0, <4>1
    <3>2. \A z \in U : \A w \in U \ {z} : SumFunctionOnSet(f, U \ {z}) = f[w] + SumFunctionOnSet(f, (U \ {z}) \ {w})
      BY <1>2, <3>1
    <3>3. SumFunctionOnSet(f, U \ {y}) = f[x] + SumFunctionOnSet(f, (U \ {y}) \ {x})
      BY <2>4, <3>2
    <3>4. SumFunctionOnSet(f, U \ {x}) = f[y] + SumFunctionOnSet(f, (U \ {x}) \ {y})
      BY <2>4, <3>2
    <3>5. (U \ {x}) \ {y} = (U \ {y}) \ {x}
      OBVIOUS
    <3>6. f[y] \in Int /\ SumFunctionOnSet(f, (U \ {y}) \ {x}) \in Int
      <4>1. IsFiniteSet((U \ {y}) \ {x}) /\ \A z \in (U \ {y}) \ {x} : f[z] \in Int
        BY <1>0
      <4>. QED BY <4>1, <1>0, SumChosen
    <3>. DEFINE a == SumFunctionOnSet(f, (U \ {y}) \ {x})
    <3>7. SumFunctionOnSet(f, U \ {y}) = f[x] + a /\ SumFunctionOnSet(f, U \ {x}) = f[y] + a
      BY <3>3, <3>4, <3>5
    <3>. HIDE DEF a
    <3>8. SumFunctionOnSet(f, U) = f[y] + (f[x] + a)
      BY <2>2, <3>7
    <3>9. f[y] + (f[x] + a) = f[x] + (f[y] + a)
      BY <2>1, <3>6 DEF a
    <3>. QED BY <3>7, <3>8, <3>9
  <2>. QED BY <2>3, <2>4
<1>3. Nat \subseteq N
  <2>. HIDE DEF N
  <2>. QED BY <1>1, <1>2, NatInd
<1>4. Cardinality(S) \in N
  BY <1>0, <1>3, FS_CardinalityType
<1>. QED BY <1>4

LEMMA SumEmpty == ASSUME NEW f PROVE SumFunctionOnSet(f, {}) = 0
  BY FS_EmptySet, SumChosen

LEMMA SumAdds ==
  ASSUME NEW S, IsFiniteSet(S), NEW y, y \notin S, NEW f, \A x \in S \cup {y} : f[x] \in Int
  PROVE  SumFunctionOnSet(f, S \cup {y}) = f[y] + SumFunctionOnSet(f, S)
<1>1. IsFiniteSet(S \cup {y}) /\ (S \cup {y}) \ {y} = S
  BY FS_AddElement
<1>. QED BY <1>1, SumTakes
LEMMA SumIsNat ==
  ASSUME NEW S, IsFiniteSet(S), NEW f, \A x \in S : f[x] \in Nat
  PROVE  SumFunctionOnSet(f, S) \in Nat
<1>. DEFINE F == {U \in SUBSET S : SumFunctionOnSet(f, U) \in Nat}
<1>1. {} \in F
  BY SumEmpty
<1>2. \A U \in SUBSET S, x \in S : U \in F /\ x \notin U => U \cup {x} \in F
  <2>. SUFFICES ASSUME NEW U \in SUBSET S, NEW x \in S, U \in F, x \notin U PROVE U \cup {x} \in F
    OBVIOUS
  <2>0. IsFiniteSet(U) /\ \A y \in U \cup {x} : f[y] \in Int
    BY FS_Subset
  <2>1. SumFunctionOnSet(f, U \cup {x}) = f[x] + SumFunctionOnSet(f, U)
    BY <2>0, SumAdds
  <2>. QED BY <2>1
<1>3. S \in F
  <2>. HIDE DEF F
  <2>. QED BY <1>1, <1>2, FinInd
<1>. QED BY <1>3

LEMMA SumSame ==
  ASSUME NEW S, IsFiniteSet(S), NEW f, NEW g, \A x \in S : f[x] \in Int /\ f[x] = g[x]
  PROVE  SumFunctionOnSet(f, S) = SumFunctionOnSet(g, S)
<1>. DEFINE F == {U \in SUBSET S : SumFunctionOnSet(f, U) = SumFunctionOnSet(g, U)}
<1>1. {} \in F
  BY SumEmpty
<1>2. \A U \in SUBSET S, x \in S : U \in F /\ x \notin U => U \cup {x} \in F
  <2>. SUFFICES ASSUME NEW U \in SUBSET S, NEW x \in S, U \in F, x \notin U PROVE U \cup {x} \in F
    OBVIOUS
  <2>0. IsFiniteSet(U) /\ \A y \in U \cup {x} : f[y] \in Int
    BY FS_Subset
  <2>1. SumFunctionOnSet(f, U \cup {x}) = f[x] + SumFunctionOnSet(f, U)
    BY <2>0, SumAdds
  <2>2. SumFunctionOnSet(g, U \cup {x}) = g[x] + SumFunctionOnSet(g, U)
    BY FS_Subset, SumAdds
  <2>. QED BY <2>1, <2>2
<1>3. S \in F
  <2>. HIDE DEF F
  <2>. QED BY <1>1, <1>2, FinInd
<1>. QED BY <1>3

LEMMA SumOfZeros ==
  ASSUME NEW S, IsFiniteSet(S), NEW f, \A x \in S : f[x] = 0
  PROVE  SumFunctionOnSet(f, S) = 0
<1>. DEFINE F == {U \in SUBSET S : SumFunctionOnSet(f, U) = 0}
<1>1. {} \in F
  BY SumEmpty
<1>2. \A U \in SUBSET S, x \in S : U \in F /\ x \notin U => U \cup {x} \in F
  <2>. SUFFICES ASSUME NEW U \in SUBSET S, NEW x \in S, U \in F, x \notin U PROVE U \cup {x} \in F
    OBVIOUS
  <2>0. IsFiniteSet(U) /\ \A y \in U \cup {x} : f[y] \in Int
    BY FS_Subset
  <2>1. SumFunctionOnSet(f, U \cup {x}) = f[x] + SumFunctionOnSet(f, U)
    BY <2>0, SumAdds
  <2>. QED BY <2>1
<1>3. S \in F
  <2>. HIDE DEF F
  <2>. QED BY <1>1, <1>2, FinInd
<1>. QED BY <1>3

LEMMA SumPlus ==
  ASSUME NEW S, IsFiniteSet(S), NEW f, NEW g, NEW h,
         \A x \in S : f[x] \in Int /\ g[x] \in Int /\ h[x] = f[x] + g[x]
  PROVE  SumFunctionOnSet(h, S) = SumFunctionOnSet(f, S) + SumFunctionOnSet(g, S)
<1>. DEFINE F == {U \in SUBSET S : SumFunctionOnSet(h, U) = SumFunctionOnSet(f, U) + SumFunctionOnSet(g, U)}
<1>1. {} \in F
  BY SumEmpty
<1>2. \A U \in SUBSET S, x \in S : U \in F /\ x \notin U => U \cup {x} \in F
  <2>. SUFFICES ASSUME NEW U \in SUBSET S, NEW x \in S, U \in F, x \notin U PROVE U \cup {x} \in F
    OBVIOUS
  <2>0. IsFiniteSet(U)
    BY FS_Subset
  <2>1. SumFunctionOnSet(f, U \cup {x}) = f[x] + SumFunctionOnSet(f, U) /\ SumFunctionOnSet(f, U) \in Int
    BY <2>0, SumAdds, SumChosen
  <2>2. SumFunctionOnSet(g, U \cup {x}) = g[x] + SumFunctionOnSet(g, U) /\ SumFunctionOnSet(g, U) \in Int
    BY <2>0, SumAdds, SumChosen
  <2>3. SumFunctionOnSet(h, U \cup {x}) = h[x] + SumFunctionOnSet(h, U)
    <3>1. \A y \in U \cup {x} : h[y] \in Int
      OBVIOUS
    <3>. QED BY <2>0, <3>1, SumAdds
  <2>. QED BY <2>1, <2>2, <2>3
<1>3. S \in F
  <2>. HIDE DEF F
  <2>. QED BY <1>1, <1>2, FinInd
<1>. QED BY <1>3

LEMMA SumOfOne ==
  ASSUME NEW S, IsFiniteSet(S), NEW q \in S, NEW a \in Int, NEW f, \A x \in S : f[x] = IF x = q THEN a ELSE 0
  PROVE  SumFunctionOnSet(f, S) = a
<1>1. SumFunctionOnSet(f, S \ {q}) = 0
  <2>1. IsFiniteSet(S \ {q}) /\ \A x \in S \ {q} : f[x] = 0
    BY FS_Subset
  <2>. QED BY <2>1, SumOfZeros
<1>2. SumFunctionOnSet(f, S) = f[q] + SumFunctionOnSet(f, S \ {q})
  BY SumTakes
<1>. QED BY <1>1, <1>2

ClassIn(S, class, p) == {x \in S : class[x] = p}

\* Whatever is summed over a set may be summed over its classes.
LEMMA SumByClasses ==
  ASSUME NEW S, IsFiniteSet(S), NEW P, IsFiniteSet(P), NEW class \in [S -> P], NEW f, \A x \in S : f[x] \in Int,
         NEW h, \A p \in P : h[p] = SumFunctionOnSet(f, ClassIn(S, class, p))
  PROVE  SumFunctionOnSet(f, S) = SumFunctionOnSet(h, P)
<1>. DEFINE Part(U, p) == {x \in U : class[x] = p}
            By(U) == [p \in P |-> SumFunctionOnSet(f, Part(U, p))]
            F == {U \in SUBSET S : SumFunctionOnSet(f, U) = SumFunctionOnSet(By(U), P)}
<1>0. \A U \in SUBSET S : IsFiniteSet(U) /\ \A p \in P : IsFiniteSet(Part(U, p)) /\ By(U)[p] \in Int
  <2>. TAKE U \in SUBSET S
  <2>1. IsFiniteSet(U)
    BY FS_Subset
  <2>2. \A p \in P : IsFiniteSet(Part(U, p)) /\ \A x \in Part(U, p) : f[x] \in Int
    BY <2>1, FS_Subset
  <2>. QED BY <2>1, <2>2, SumChosen
<1>1. {} \in F
  <2>1. \A p \in P : By({})[p] = 0
    <3>1. \A p \in P : Part({}, p) = {}
      OBVIOUS
    <3>. QED BY <3>1, SumEmpty
  <2>2. SumFunctionOnSet(By({}), P) = 0
    <3>. HIDE DEF By
    <3>. QED BY <2>1, SumOfZeros
  <2>. QED BY <2>2, SumEmpty
<1>2. \A U \in SUBSET S, x \in S : U \in F /\ x \notin U => U \cup {x} \in F
  <2>. SUFFICES ASSUME NEW U \in SUBSET S, NEW x \in S, U \in F, x \notin U PROVE U \cup {x} \in F
    OBVIOUS
  <2>. DEFINE one == [p \in P |-> IF p = class[x] THEN f[x] ELSE 0]
  <2>1. SumFunctionOnSet(f, U \cup {x}) = f[x] + SumFunctionOnSet(f, U)
    BY <1>0, SumAdds
  <2>2. \A p \in P : By(U \cup {x})[p] = one[p] + By(U)[p]
    <3>. TAKE p \in P
    <3>1. CASE p = class[x]
      <4>1. Part(U \cup {x}, p) = Part(U, p) \cup {x} /\ x \notin Part(U, p)
        BY <3>1
      <4>2. \A y \in Part(U, p) \cup {x} : f[y] \in Int
        OBVIOUS
      <4>3. SumFunctionOnSet(f, Part(U, p) \cup {x}) = f[x] + SumFunctionOnSet(f, Part(U, p))
        BY <1>0, <4>1, <4>2, SumAdds
      <4>. QED BY <3>1, <4>1, <4>3
    <3>2. CASE p # class[x]
      <4>1. Part(U \cup {x}, p) = Part(U, p)
        BY <3>2
      <4>2. By(U \cup {x})[p] = By(U)[p] /\ By(U)[p] \in Int
        BY <4>1, <1>0
      <4>. QED BY <3>2, <4>2
    <3>. QED BY <3>1, <3>2
  <2>3. \A p \in P : one[p] \in Int /\ By(U)[p] \in Int
    BY <1>0
  <2>4. SumFunctionOnSet(By(U \cup {x}), P) = SumFunctionOnSet(one, P) + SumFunctionOnSet(By(U), P)
    <3>. DEFINE new == By(U \cup {x})
                old == By(U)
    <3>1. \A p \in P : one[p] \in Int /\ old[p] \in Int /\ new[p] = one[p] + old[p]
      BY <2>2, <2>3
    <3>. HIDE DEF new, old, one
    <3>2. SumFunctionOnSet(new, P) = SumFunctionOnSet(one, P) + SumFunctionOnSet(old, P)
      BY <3>1, SumPlus
    <3>. QED BY <3>2 DEF new, old
  <2>5. SumFunctionOnSet(one, P) = f[x]
    <3>1. \A p \in P : one[p] = IF p = class[x] THEN f[x] ELSE 0
      OBVIOUS
    <3>. HIDE DEF one
    <3>. QED BY <3>1, SumOfOne
  <2>. HIDE DEF By, one
  <2>. QED BY <2>1, <2>4, <2>5
<1>3. S \in F
  <2>. HIDE DEF F
  <2>. QED BY <1>1, <1>2, FinInd
<1>4. SumFunctionOnSet(By(S), P) = SumFunctionOnSet(h, P)
  <2>1. \A p \in P : By(S)[p] \in Int /\ By(S)[p] = h[p]
    BY <1>0 DEF ClassIn
  <2>. HIDE DEF By
  <2>. QED BY <2>1, SumSame
<1>. QED BY <1>3, <1>4

LEMMA CountIsSum ==
  ASSUME NEW S, IsFiniteSet(S), NEW f, \A x \in S : f[x] = 1
  PROVE  Cardinality(S) = SumFunctionOnSet(f, S)
<1>. DEFINE F == {U \in SUBSET S : Cardinality(U) = SumFunctionOnSet(f, U)}
<1>1. {} \in F
  BY SumEmpty, FS_EmptySet
<1>2. \A U \in SUBSET S, x \in S : U \in F /\ x \notin U => U \cup {x} \in F
  <2>. SUFFICES ASSUME NEW U \in SUBSET S, NEW x \in S, U \in F, x \notin U PROVE U \cup {x} \in F
    OBVIOUS
  <2>0. IsFiniteSet(U) /\ \A y \in U \cup {x} : f[y] \in Int
    BY FS_Subset
  <2>1. SumFunctionOnSet(f, U \cup {x}) = f[x] + SumFunctionOnSet(f, U)
    BY <2>0, SumAdds
  <2>2. Cardinality(U \cup {x}) = Cardinality(U) + 1 /\ Cardinality(U) \in Nat
    BY <2>0, FS_AddElement, FS_CardinalityType
  <2>. QED BY <2>1, <2>2
<1>3. S \in F
  <2>. HIDE DEF F
  <2>. QED BY <1>1, <1>2, FinInd
<1>. QED BY <1>3

\* The classes of a set together hold each of its elements once.
LEMMA CountByClasses ==
  ASSUME NEW S, IsFiniteSet(S), NEW P, IsFiniteSet(P), NEW class \in [S -> P],
         NEW h, \A p \in P : h[p] = Cardinality(ClassIn(S, class, p))
  PROVE  Cardinality(S) = SumFunctionOnSet(h, P)
<1>. DEFINE one == [x \in S |-> 1]
<1>1. \A x \in S : one[x] = 1
  OBVIOUS
<1>. HIDE DEF one
<1>2. \A p \in P : h[p] = SumFunctionOnSet(one, ClassIn(S, class, p))
  <2>. TAKE p \in P
  <2>. DEFINE mine == ClassIn(S, class, p)
  <2>1. IsFiniteSet(mine) /\ \A x \in mine : one[x] = 1
    BY <1>1, FS_Subset DEF ClassIn
  <2>2. Cardinality(mine) = SumFunctionOnSet(one, mine)
    BY <2>1, CountIsSum
  <2>. QED BY <2>2
<1>3. SumFunctionOnSet(one, S) = SumFunctionOnSet(h, P)
  BY <1>1, <1>2, SumByClasses
<1>. QED BY <1>1, <1>3, CountIsSum

LEMMA ImageIsFinite ==
  ASSUME NEW S, IsFiniteSet(S), NEW f, NEW T, \A t \in T : \E x \in S : t = f[x]
  PROVE  IsFiniteSet(T)
<1> DEFINE g == [x \in S |-> f[x]]
           R == {f[x] : x \in S}
<1>1. g \in Surjection(S, R)
  BY DEF Surjection
<1> HIDE DEF g
<1>2. IsFiniteSet(R) /\ T \subseteq R
  BY <1>1, FS_Surjection
<1> QED BY <1>2, FS_Subset

LEMMA SumOfNone ==
  ASSUME NEW S, IsFiniteSet(S), NEW f, \A x \in S : f[x] \in Nat, SumFunctionOnSet(f, S) = 0
  PROVE  \A x \in S : f[x] = 0
<1> TAKE x \in S
<1>1. IsFiniteSet(S \ {x})
  BY FS_Subset
<1>2. SumFunctionOnSet(f, S \ {x}) \in Nat
  BY <1>1, SumIsNat
<1>3. SumFunctionOnSet(f, S) = f[x] + SumFunctionOnSet(f, S \ {x})
  BY SumTakes
<1> QED BY <1>2, <1>3

--------------------------------------------------------------------------------
(* A function on 0 .. n may be given by its first value and its steps.     *)
Recurs(F, n, b, g) == F[0] = b /\ \A k \in 1 .. n : F[k] = g[<<k, F[k - 1]>>]

LEMMA RecursExists ==
  ASSUME NEW n \in Nat, NEW V, NEW b \in V, NEW g, \A k \in 1 .. n, v \in V : g[<<k, v>>] \in V
  PROVE  \E F \in [0 .. n -> V] : Recurs(F, n, b, g)
<1> DEFINE T == {m \in Nat : m <= n => \E F \in [0 .. m -> V] : Recurs(F, m, b, g)}
<1>1. 0 \in T
  <2> DEFINE F == [k \in 0 .. 0 |-> b]
  <2>1. F \in [0 .. 0 -> V] /\ Recurs(F, 0, b, g)
    BY DEF Recurs
  <2> QED BY <2>1
<1>2. ASSUME NEW m \in Nat, m \in T PROVE m + 1 \in T
  <2> SUFFICES ASSUME m + 1 <= n PROVE \E F \in [0 .. (m + 1) -> V] : Recurs(F, m + 1, b, g)
    OBVIOUS
  <2>1. PICK F \in [0 .. m -> V] : Recurs(F, m, b, g)
    BY <1>2
  <2> DEFINE next == g[<<m + 1, F[m]>>]
             G == [k \in 0 .. (m + 1) |-> IF k = m + 1 THEN next ELSE F[k]]
  <2>2. F[m] \in V /\ next \in V
    BY <1>2
  <2>3. G \in [0 .. (m + 1) -> V]
    BY <2>2
  <2>4. G[0] = b
    BY <2>1 DEF Recurs
  <2>5. ASSUME NEW k \in 1 .. (m + 1) PROVE G[k] = g[<<k, G[k - 1]>>]
    <3>1. CASE k = m + 1
      BY <3>1
    <3>2. CASE k # m + 1
      <4>1. k \in 1 .. m /\ k - 1 \in 0 .. m /\ k - 1 # m + 1
        BY <3>2
      <4> QED BY <2>1, <4>1 DEF Recurs
    <3> QED BY <3>1, <3>2
  <2> HIDE DEF G
  <2>6. Recurs(G, m + 1, b, g)
    BY <2>4, <2>5 DEF Recurs
  <2> QED BY <2>3, <2>6
<1> HIDE DEF T
<1>3. Nat \subseteq T
  BY <1>1, <1>2, NatInd
<1> QED BY <1>3 DEF T

(* What is joined by steps is the whole.                                   *)
JoinsBy(F, seqs) ==
  F = [i \in 1 .. Len(seqs) |-> IF i = 1 THEN seqs[i] ELSE F[i - 1] \o seqs[i]]

LEMMA FlattenBy ==
  ASSUME NEW seqs, Len(seqs) \in Nat \ {0}, NEW F, JoinsBy(F, seqs)
  PROVE  FlattenSeq(seqs) = F[Len(seqs)]
<1> DEFINE n == Len(seqs)
           G == CHOOSE H : JoinsBy(H, seqs)
<1>1. FlattenSeq(seqs) = G[n]
  BY DEF FlattenSeq, JoinsBy
<1>2. JoinsBy(G, seqs)
  OBVIOUS
<1>3. \A i \in 1 .. n : /\ F[i] = IF i = 1 THEN seqs[i] ELSE F[i - 1] \o seqs[i]
                        /\ G[i] = IF i = 1 THEN seqs[i] ELSE G[i - 1] \o seqs[i]
  <2> HIDE DEF G
  <2> QED BY <1>2 DEF JoinsBy
<1> HIDE DEF G
<1> DEFINE T == {m \in Nat : m + 1 <= n => F[m + 1] = G[m + 1]}
<1>4. 0 \in T
  BY <1>3
<1>5. ASSUME NEW m \in Nat, m \in T PROVE m + 1 \in T
  <2> SUFFICES ASSUME (m + 1) + 1 <= n PROVE F[(m + 1) + 1] = G[(m + 1) + 1]
    OBVIOUS
  <2>1. F[m + 1] = G[m + 1] /\ (m + 1) + 1 \in 1 .. n /\ (m + 1) + 1 # 1 /\ ((m + 1) + 1) - 1 = m + 1
    BY <1>5
  <2> QED BY <1>3, <2>1
<1> HIDE DEF T
<1>6. Nat \subseteq T
  BY <1>4, <1>5, NatInd
<1>7. n - 1 \in T
  BY <1>6
<1> QED BY <1>1, <1>7 DEF T

LEMMA MinOfTwo ==
  ASSUME NEW a \in Int, NEW b \in Int PROVE Min({a, b}) = IF a <= b THEN a ELSE b
<1> DEFINE m == IF a <= b THEN a ELSE b
<1>1. m \in {a, b} /\ \A x \in {a, b} : m <= x
  OBVIOUS
<1>2. \A y \in {a, b} : (\A x \in {a, b} : y <= x) => y = m
  OBVIOUS
<1> HIDE DEF m
<1>3. Min({a, b}) \in {a, b} /\ \A x \in {a, b} : Min({a, b}) <= x
  BY <1>1 DEF Min
<1>4. Min({a, b}) = m
  BY <1>2, <1>3
<1> QED BY <1>4 DEF m

LEMMA CutsJoin ==
  ASSUME NEW V, NEW s \in Seq(V), NEW a \in Nat, NEW b \in Nat, a <= b, b <= Len(s)
  PROVE  SubSeq(s, 1, a) \o SubSeq(s, a + 1, b) = SubSeq(s, 1, b)
<1> DEFINE l == SubSeq(s, 1, a)
           r == SubSeq(s, a + 1, b)
           w == SubSeq(s, 1, b)
<1>0. Len(s) \in Nat /\ DOMAIN s = 1 .. Len(s) /\ \A i \in 1 .. Len(s) : s[i] \in V
  BY LenProperties, ElementOfSeq
<1>1. l \in Seq(V) /\ Len(l) = a /\ \A i \in 1 .. a : l[i] = s[i]
  BY <1>0
<1>2. r \in Seq(V) /\ Len(r) = b - a /\ \A i \in 1 .. b - a : r[i] = s[a + i]
  BY <1>0
<1>3. w \in Seq(V) /\ Len(w) = b /\ \A i \in 1 .. b : w[i] = s[i]
  BY <1>0
<1> HIDE DEF l, r, w
<1>l. l \in Seq(V)
  BY <1>1
<1>r. r \in Seq(V)
  BY <1>2
<1>4. /\ l \o r \in Seq(V) /\ Len(l \o r) = Len(l) + Len(r)
      /\ \A i \in 1 .. Len(l) + Len(r) : (l \o r)[i] = IF i <= Len(l) THEN l[i] ELSE r[i - Len(l)]
  BY <1>l, <1>r, ConcatProperties
<1>5. ASSUME NEW i \in 1 .. b PROVE (l \o r)[i] = w[i]
  <2>1. CASE i <= a
    <3>1. i \in 1 .. a /\ i \in 1 .. Len(l) + Len(r) /\ i <= Len(l)
      BY <1>1, <1>2, <2>1
    <3>2. (l \o r)[i] = l[i]
      BY <1>4, <3>1
    <3> QED BY <1>1, <1>3, <3>1, <3>2
  <2>2. CASE ~(i <= a)
    <3>1. i - a \in 1 .. b - a /\ (l \o r)[i] = r[i - a]
      BY <1>1, <1>2, <1>4, <2>2
    <3>2. r[i - a] = s[a + (i - a)] /\ a + (i - a) = i
      BY <1>2, <3>1
    <3> QED BY <1>3, <3>1, <3>2
  <2> QED BY <2>1, <2>2
<1>6. Len(l \o r) = Len(w) /\ Len(w) = b
  BY <1>1, <1>2, <1>3, <1>4
<1> QED BY <1>3, <1>4, <1>5, <1>6, SeqEqual DEF l, r, w

LEMMA PagesJoin ==
  ASSUME NEW V, NEW rows \in Seq(V), NEW m \in Nat, Len(rows) <= m, NEW size \in 1 .. m,
         NEW pages, Len(pages) = m,
         \A k \in 1 .. m : pages[k] = SubSeq(rows, (k - 1) * size + 1, Min({k * size, Len(rows)}))
  PROVE  FlattenSeq(pages) = SubSeq(rows, 1, Len(rows))
<1> DEFINE n == Len(rows)
           upto(k) == IF k * size <= n THEN k * size ELSE n
           F == [k \in 1 .. m |-> SubSeq(rows, 1, upto(k))]
<1>0. n \in Nat /\ m \in Nat \ {0} /\ size \in Nat /\ size > 0
  BY LenProperties
<1>1. \A k \in 1 .. m : k * size \in Nat /\ Min({k * size, n}) = upto(k) /\ upto(k) \in Nat /\ upto(k) <= n
  <2> TAKE k \in 1 .. m
  <2>1. k * size \in Nat
    BY <1>0
  <2> QED BY <1>0, <2>1, MinOfTwo
<1>2. ASSUME NEW k \in 1 .. m
      PROVE  F[k] = IF k = 1 THEN pages[k] ELSE F[k - 1] \o pages[k]
  <2>1. CASE k = 1
    <3>1. (k - 1) * size + 1 = 1
      BY <1>0, <2>1
    <3> QED BY <1>1, <2>1, <3>1
  <2>2. CASE k # 1
    <3> DEFINE a == (k - 1) * size
    <3>0. k - 1 \in 1 .. m /\ a \in Nat /\ k * size = a + size
      <4>1. k - 1 \in 1 .. m
        BY <2>2
      <4>2. a \in Nat
        BY <1>1, <4>1
      <4>3. k * size = (k - 1) * size + size
        BY <1>0
      <4> QED BY <4>1, <4>2, <4>3
    <3>1. CASE a <= n
      <4>1. F[k - 1] = SubSeq(rows, 1, a) /\ pages[k] = SubSeq(rows, a + 1, upto(k)) /\ F[k] = SubSeq(rows, 1, upto(k))
        BY <1>1, <3>0, <3>1
      <4>2. a <= upto(k)
        BY <1>0, <3>0, <3>1
      <4>3. SubSeq(rows, 1, a) \o SubSeq(rows, a + 1, upto(k)) = SubSeq(rows, 1, upto(k))
        BY <1>1, <3>0, <4>2, CutsJoin
      <4> QED BY <2>2, <4>1, <4>3
    <3>2. CASE ~(a <= n)
      <4>1. F[k - 1] = SubSeq(rows, 1, n) /\ pages[k] = SubSeq(rows, a + 1, n) /\ F[k] = SubSeq(rows, 1, n)
        <5>1. upto(k) = n
          BY <1>0, <3>0, <3>2
        <5> QED BY <1>1, <3>0, <3>2, <5>1
      <4>2. SubSeq(rows, a + 1, n) = <<>>
        BY <1>0, <3>0, <3>2
      <4>3. SubSeq(rows, 1, n) \in Seq(V)
        BY <1>0
      <4> QED BY <2>2, <4>1, <4>2, <4>3, ConcatEmptySeq
    <3> QED BY <3>1, <3>2
  <2> QED BY <2>1, <2>2
<1>3. JoinsBy(F, pages)
  <2> DEFINE G == [i \in 1 .. Len(pages) |-> IF i = 1 THEN pages[i] ELSE F[i - 1] \o pages[i]]
  <2>1. \A k \in 1 .. m : F[k] = G[k]
    BY <1>2
  <2>2. F = G
    BY <2>1
  <2> QED BY <2>2 DEF JoinsBy
<1>4. FlattenSeq(pages) = F[m]
  <2> HIDE DEF F
  <2> QED BY <1>0, <1>3, FlattenBy
<1>5. upto(m) = n
  <2>1. m * size >= m
    BY <1>0
  <2> QED BY <1>0, <2>1
<1> QED BY <1>0, <1>4, <1>5

LEMMA SumOfTwo ==
  ASSUME NEW A, NEW B, IsFiniteSet(A), IsFiniteSet(B), A \cap B = {}, NEW f, \A x \in A \cup B : f[x] \in Int
  PROVE  SumFunctionOnSet(f, A \cup B) = SumFunctionOnSet(f, A) + SumFunctionOnSet(f, B)
<1> DEFINE F == {U \in SUBSET B : SumFunctionOnSet(f, A \cup U) = SumFunctionOnSet(f, A) + SumFunctionOnSet(f, U)}
<1>0. \A U \in SUBSET B : IsFiniteSet(U) /\ IsFiniteSet(A \cup U) /\ SumFunctionOnSet(f, U) \in Int
  <2> TAKE U \in SUBSET B
  <2>1. IsFiniteSet(U)
    BY FS_Subset
  <2> QED BY <2>1, FS_Union, SumChosen
<1>a. SumFunctionOnSet(f, A) \in Int
  BY SumChosen
<1>1. {} \in F
  <2>1. SumFunctionOnSet(f, A \cup {}) = SumFunctionOnSet(f, A) + SumFunctionOnSet(f, {})
    BY <1>a, SumEmpty
  <2> QED BY <2>1
<1>2. \A U \in SUBSET B, x \in B : U \in F /\ x \notin U => U \cup {x} \in F
  <2> SUFFICES ASSUME NEW U \in SUBSET B, NEW x \in B, U \in F, x \notin U PROVE U \cup {x} \in F
    OBVIOUS
  <2>1. x \notin A \cup U /\ (A \cup U) \cup {x} = A \cup (U \cup {x})
    OBVIOUS
  <2>a. IsFiniteSet(A \cup U) /\ \A y \in (A \cup U) \cup {x} : f[y] \in Int
    BY <1>0
  <2> DEFINE D == A \cup U
  <2>b. x \notin D /\ IsFiniteSet(D) /\ \A y \in D \cup {x} : f[y] \in Int
    BY <2>1, <2>a
  <2>2. SumFunctionOnSet(f, (A \cup U) \cup {x}) = f[x] + SumFunctionOnSet(f, A \cup U)
    <3>1. SumFunctionOnSet(f, D \cup {x}) = f[x] + SumFunctionOnSet(f, D)
      <4> HIDE DEF D
      <4> QED BY <2>b, SumAdds
    <3> QED BY <3>1
  <2>3. SumFunctionOnSet(f, U \cup {x}) = f[x] + SumFunctionOnSet(f, U)
    BY <1>0, SumAdds
  <2>4. SumFunctionOnSet(f, A \cup U) = SumFunctionOnSet(f, A) + SumFunctionOnSet(f, U) /\ f[x] \in Int
    OBVIOUS
  <2>5. SumFunctionOnSet(f, A \cup (U \cup {x})) = SumFunctionOnSet(f, A) + SumFunctionOnSet(f, U \cup {x})
    <3>1. SumFunctionOnSet(f, U) \in Int
      BY <1>0
    <3>2. SumFunctionOnSet(f, (A \cup U) \cup {x}) = SumFunctionOnSet(f, A) + SumFunctionOnSet(f, U \cup {x})
      BY <1>a, <2>2, <2>3, <2>4, <3>1
    <3> QED BY <2>1, <3>2
  <2> QED BY <2>5
<1> HIDE DEF F
<1>3. B \in F
  BY <1>1, <1>2, FinInd
<1> QED BY <1>3 DEF F

(* A definition that follows the steps is the function of these steps.     *)
Stays(g, n, V) == \A k \in 1 .. n, v \in V : g[<<k, v>>] \in V
TakesSteps(F, n, b, g, V) ==
  /\ F = [k \in 0 .. n |-> F[k]] /\ F[0] = b
  /\ \A k \in 1 .. n : F[k - 1] \in V => F[k] = g[<<k, F[k - 1]>>]

LEMMA RecursOnly ==
  ASSUME NEW n \in Nat, NEW V, NEW b \in V, NEW g, Stays(g, n, V), NEW F, TakesSteps(F, n, b, g, V)
  PROVE  F \in [0 .. n -> V] /\ Recurs(F, n, b, g)
<1> USE DEF Stays, TakesSteps
<1> DEFINE T == {m \in Nat : m <= n => F[m] \in V}
<1>1. 0 \in T
  OBVIOUS
<1>2. ASSUME NEW m \in Nat, m \in T PROVE m + 1 \in T
  <2> SUFFICES ASSUME m + 1 <= n PROVE F[m + 1] \in V
    OBVIOUS
  <2> DEFINE p == m + 1
  <2>1. p \in 1 .. n /\ p - 1 = m /\ F[m] \in V
    BY <1>2
  <2>2. F[p] = g[<<p, F[p - 1]>>]
    BY <2>1
  <2>3. F[p - 1] \in V
    BY <2>1
  <2> QED BY <2>1, <2>2, <2>3
<1> HIDE DEF T
<1>3. Nat \subseteq T
  BY <1>1, <1>2, NatInd
<1>4. \A k \in 0 .. n : F[k] \in V
  BY <1>3 DEF T
<1>5. F \in [0 .. n -> V]
  BY <1>4
<1>6. ASSUME NEW k \in 1 .. n PROVE F[k] = g[<<k, F[k - 1]>>]
  <2>1. k - 1 \in 0 .. n
    OBVIOUS
  <2> QED BY <1>4, <2>1
<1> QED BY <1>5, <1>6 DEF Recurs

(* A list of lists joined from its beginning.                              *)
Joined(F, seqs) == F[0] = <<>> /\ \A k \in 1 .. Len(seqs) : F[k] = F[k - 1] \o seqs[k]

LEMMA FlattenSteps ==
  ASSUME NEW V, NEW seqs \in Seq(Seq(V))
  PROVE  \E F \in [0 .. Len(seqs) -> Seq(V)] : Joined(F, seqs) /\ FlattenSeq(seqs) = F[Len(seqs)]
<1> DEFINE n == Len(seqs)
           W == Seq(V)
           g == [p \in (1 .. n) \X W |-> p[2] \o seqs[p[1]]]
<1>0. n \in Nat /\ \A k \in 1 .. n : seqs[k] \in W
  BY LenProperties, ElementOfSeq
<1>1. \A k \in 1 .. n, v \in W : g[<<k, v>>] = v \o seqs[k] /\ g[<<k, v>>] \in W
  <2> TAKE k \in 1 .. n, v \in W
  <2>1. g[<<k, v>>] = v \o seqs[k]
    OBVIOUS
  <2> HIDE DEF g
  <2> QED BY <1>0, <2>1, ConcatProperties
<1>2. <<>> \in W
  OBVIOUS
<1> HIDE DEF g
<1>3. PICK F \in [0 .. n -> W] : Recurs(F, n, <<>>, g)
  <2> HIDE DEF W, n
  <2> QED BY <1>0, <1>1, <1>2, RecursExists
<1>4. ASSUME NEW k \in 1 .. n PROVE F[k] = F[k - 1] \o seqs[k]
  <2>1. k - 1 \in 0 .. n
    BY <1>0
  <2>2. F[k] = g[<<k, F[k - 1]>>] /\ F[k - 1] \in W
    BY <1>3, <2>1 DEF Recurs
  <2> QED BY <1>1, <2>2
<1>5. Joined(F, seqs)
  BY <1>3, <1>4 DEF Joined, Recurs
<1>6. CASE n = 0
  <2>1. FlattenSeq(seqs) = seqs /\ seqs = <<>>
    BY <1>6, EmptySeq DEF FlattenSeq
  <2> QED BY <1>3, <1>5, <1>6, <2>1 DEF Joined
<1>7. CASE n # 0
  <2> DEFINE G == [i \in 1 .. n |-> F[i]]
             H == [i \in 1 .. n |-> IF i = 1 THEN seqs[i] ELSE G[i - 1] \o seqs[i]]
  <2>1. ASSUME NEW i \in 1 .. n PROVE G[i] = H[i]
    <3>1. CASE i = 1
      <4>0. 1 \in 1 .. n /\ 1 - 1 = 0 /\ F[0] = <<>> /\ seqs[1] \in W
        BY <1>0, <1>3, <1>7 DEF Recurs
      <4>1. F[1] = F[1 - 1] \o seqs[1]
        BY <1>4, <4>0
      <4>2. F[1] = seqs[1]
        BY <4>0, <4>1, ConcatEmptySeq
      <4> QED BY <3>1, <4>2
    <3>2. CASE i # 1
      <4>1. i - 1 \in 1 .. n
        BY <1>0, <3>2
      <4> QED BY <1>4, <3>2, <4>1
    <3> QED BY <3>1, <3>2
  <2>2. JoinsBy(G, seqs)
    <3>1. G = H
      BY <2>1
    <3> QED BY <3>1 DEF JoinsBy
  <2> HIDE DEF G
  <2>3. FlattenSeq(seqs) = G[n]
    BY <1>0, <1>7, <2>2, FlattenBy
  <2>4. G[n] = F[n]
    BY <1>0, <1>7 DEF G
  <2> QED BY <1>5, <2>3, <2>4
<1> QED BY <1>6, <1>7

LEMMA FlattenInSeq ==
  ASSUME NEW V, NEW seqs \in Seq(Seq(V)) PROVE FlattenSeq(seqs) \in Seq(V)
<1>1. Len(seqs) \in Nat
  BY LenProperties
<1> QED BY <1>1, FlattenSteps

(* Joining, by name: what the provers need not look into.                  *)
Join(s, t) == s \o t

LEMMA JoinThree ==
  ASSUME NEW V, NEW x \in Seq(V), NEW y \in Seq(V), NEW z \in Seq(V)
  PROVE  Join(Join(x, y), z) = Join(x, Join(y, z))
BY ConcatAssociative DEF Join

(* Joining two lists of lists joins what they are joined to.               *)
LEMMA FlattenJoins ==
  ASSUME NEW V, NEW a \in Seq(Seq(V)), NEW b \in Seq(Seq(V))
  PROVE  FlattenSeq(a \o b) = FlattenSeq(a) \o FlattenSeq(b)
<1> DEFINE c == a \o b
           n == Len(a)
           m == Len(b)
<1>1. /\ c \in Seq(Seq(V)) /\ Len(c) = n + m /\ n \in Nat /\ m \in Nat
      /\ \A i \in 1 .. n + m : c[i] = IF i <= n THEN a[i] ELSE b[i - n]
      /\ \A i \in 1 .. n : a[i] \in Seq(V)
      /\ \A i \in 1 .. m : b[i] \in Seq(V)
  BY ConcatProperties, LenProperties, ElementOfSeq
<1> HIDE DEF c
<1>2. PICK A \in [0 .. n -> Seq(V)] : Joined(A, a) /\ FlattenSeq(a) = A[n]
  BY FlattenSteps
<1>3. PICK B \in [0 .. m -> Seq(V)] : Joined(B, b) /\ FlattenSeq(b) = B[m]
  BY FlattenSteps
<1>4. PICK C \in [0 .. n + m -> Seq(V)] : Joined(C, c) /\ FlattenSeq(c) = C[n + m]
  BY <1>1, FlattenSteps
<1> DEFINE T == {k \in Nat : k <= n => C[k] = A[k]}
           after(j) == A[n] \o B[j]
           U == {j \in Nat : j <= m => C[n + j] = after(j)}
<1>5. 0 \in T
  BY <1>2, <1>4 DEF Joined
<1>6. ASSUME NEW k \in Nat, k \in T PROVE k + 1 \in T
  <2> SUFFICES ASSUME k + 1 <= n PROVE C[k + 1] = A[k + 1]
    OBVIOUS
  <2> DEFINE p == k + 1
  <2>1. p \in 1 .. n /\ p \in 1 .. n + m /\ p - 1 = k /\ C[k] = A[k] /\ p <= n
    BY <1>1, <1>6
  <2>2. C[p] = C[p - 1] \o c[p] /\ A[p] = A[p - 1] \o a[p] /\ c[p] = a[p]
    BY <1>1, <1>2, <1>4, <2>1 DEF Joined
  <2> HIDE DEF p
  <2> QED BY <2>1, <2>2 DEF p
<1>7. 0 \in U
  <2>1. C[n] = A[n]
    <3> HIDE DEF T
    <3>1. Nat \subseteq T
      BY <1>5, <1>6, NatInd
    <3> QED BY <1>1, <3>1 DEF T
  <2>2. B[0] = <<>> /\ A[n] \in Seq(V)
    BY <1>1, <1>2, <1>3 DEF Joined
  <2>3. A[n] \o <<>> = A[n] /\ n + 0 = n
    BY <1>1, <2>2, ConcatEmptySeq
  <2> QED BY <2>1, <2>2, <2>3
<1> HIDE DEF after
<1>8. ASSUME NEW k \in Nat, k \in U PROVE k + 1 \in U
  <2> DEFINE p == k + 1
             q == n + p
  <2> SUFFICES ASSUME p <= m PROVE C[q] = after(p)
    BY <1>1
  <2>a. n \in Nat /\ m \in Nat /\ k <= m
    BY <1>1
  <2>0. C[n + k] = A[n] \o B[k]
    BY <1>8, <2>a DEF after
  <2>b. /\ p \in 1 .. m /\ q \in 1 .. n + m /\ p - 1 = k /\ q - 1 = n + k /\ ~(q <= n) /\ q - n = p
        /\ k \in 0 .. m /\ n \in 0 .. n
    BY <2>a
  <2>1. /\ p \in 1 .. m /\ q \in 1 .. n + m /\ p - 1 = k /\ q - 1 = n + k /\ ~(q <= n) /\ q - n = p
        /\ C[n + k] = A[n] \o B[k] /\ k \in 0 .. m /\ n \in 0 .. n
    BY <2>0, <2>b
  <2> HIDE DEF q, p
  <2>2. C[q] = C[q - 1] \o c[q] /\ B[p] = B[p - 1] \o b[p] /\ c[q] = b[q - n]
    BY <1>1, <1>3, <1>4, <2>1 DEF Joined
  <2>3. A[n] \in Seq(V) /\ B[k] \in Seq(V) /\ b[p] \in Seq(V)
    BY <1>1, <2>1
  <2> DEFINE x == A[n]
             y == B[k]
             z == b[p]
  <2>4. x \in Seq(V) /\ y \in Seq(V) /\ z \in Seq(V)
    BY <2>3
  <2>5. C[q] = Join(Join(x, y), z) /\ B[p] = Join(y, z)
    BY <2>1, <2>2 DEF Join
  <2> HIDE DEF x, y, z
  <2>6. Join(Join(x, y), z) = Join(x, Join(y, z))
    BY <2>4, JoinThree
  <2>7. C[q] = Join(x, B[p])
    BY <2>5, <2>6
  <2>8. C[q] = A[n] \o B[p]
    BY <2>7 DEF Join, x
  <2> QED BY <2>8 DEF after
<1> HIDE DEF U
<1>9. Nat \subseteq U
  BY <1>7, <1>8, NatInd
<1>10. C[n + m] = A[n] \o B[m]
  <2>1. m \in U /\ m <= m
    BY <1>1, <1>9
  <2> QED BY <2>1 DEF U, after
<1> QED BY <1>2, <1>3, <1>4, <1>10 DEF c

LEMMA FlattenOne == ASSUME NEW s PROVE FlattenSeq(<<s>>) = s
<1> DEFINE q == <<s>>
           F == [i \in 1 .. 1 |-> s]
<1>1. Len(q) = 1 /\ q[1] = s /\ Len(q) \in Nat \ {0}
  OBVIOUS
<1> HIDE DEF q
<1>2. JoinsBy(F, q)
  <2>1. F = [i \in 1 .. Len(q) |-> IF i = 1 THEN q[i] ELSE F[i - 1] \o q[i]]
    BY <1>1
  <2> QED BY <2>1 DEF JoinsBy
<1>3. F[1] = s
  OBVIOUS
<1> HIDE DEF F
<1>4. FlattenSeq(q) = F[Len(q)]
  BY <1>1, <1>2, FlattenBy
<1> QED BY <1>1, <1>3, <1>4 DEF q

-----------------------------------------------------------------------------
(* Notices: of the alerts of a month the one that set the key sends; while *)
(* the reviews are used up it has, one is on its way, or one was missed.   *)
AlertPlaces == {"idle", "read", "mark", "send"}

NoticeShape ==
  /\ noticeNow \in Nat /\ reviewsUsed \in Nat /\ delivered \in Nat
  /\ webhook \in {"none", "good", "broken"}
  /\ usedUp \in BOOLEAN /\ marked \in BOOLEAN /\ gap \in BOOLEAN /\ missed \in BOOLEAN /\ monthTurned \in BOOLEAN
  /\ alertOp \in [AlertOps -> AlertPlaces]

Taken == marked /\ ~gap
OneSends ==
  /\ \A o, p \in AlertOps : alertOp[o] = "send" /\ alertOp[p] = "send" => o = p
  /\ \A o \in AlertOps : alertOp[o] = "send" => Taken /\ delivered = 0
  /\ delivered <= 1 /\ (delivered = 1 => Taken)
  /\ Taken => delivered = 1 \/ missed \/ \E o \in AlertOps : alertOp[o] = "send"

TellsOfQuota ==
  /\ Taken \/ (\E o \in AlertOps : alertOp[o] = "mark") \/ reviewsUsed >= ReviewQuota => usedUp
  /\ reviewsUsed >= ReviewQuota => Taken \/ missed \/ \E o \in AlertOps : alertOp[o] \in {"read", "mark"}

NoticeInv == NoticeShape /\ (~monthTurned => OneSends /\ TellsOfQuota)

LEMMA NoticeInitially ==
  ASSUME NoticeInit PROVE NoticeInv
<1>1. \A o \in AlertOps : alertOp[o] = "idle"
  BY DEF NoticeInit
<1>2. NoticeShape
  BY DEF NoticeInit, NoticeShape, AlertPlaces
<1>3. marked = FALSE /\ missed = FALSE /\ delivered = 0 /\ ~(reviewsUsed >= ReviewQuota)
  BY NoticeAssumption DEF NoticeInit
<1>4. OneSends
  BY <1>1, <1>3 DEF OneSends, Taken
<1>5. TellsOfQuota
  BY <1>1, <1>3 DEF TellsOfQuota, Taken
<1> QED BY <1>2, <1>4, <1>5 DEF NoticeInv

LEMMA NoticePreserved ==
  ASSUME NoticeInv, [NoticeNext]_noticeVars PROVE NoticeInv'
<1> USE NoticeAssumption DEF NoticeInv, Taken
<1>k. ASSUME UNCHANGED <<reviewsUsed, usedUp, marked, gap, alertOp, delivered, missed, monthTurned>>, NoticeShape'
      PROVE  NoticeInv'
  BY <1>k DEF OneSends, TellsOfQuota
<1>w. WorthTelling <=> reviewsUsed >= ReviewQuota
  BY DEF WorthTelling, NoticeShape
<1>1. CASE UNCHANGED noticeVars
  BY <1>1, <1>k DEF noticeVars, alertVars, NoticeShape
<1>2. CASE NoticeTick
  BY <1>2, <1>k DEF NoticeTick, alertVars, NoticeShape
<1>3. CASE CleansContracts
  BY <1>3, <1>k DEF CleansContracts, alertVars, NoticeShape
<1>4. CASE SaveFeishu \/ DeleteFeishu \/ SecretChanges
  BY <1>4, <1>k DEF SaveFeishu, DeleteFeishu, SecretChanges, alertVars, NoticeShape
<1>5. CASE SendDigest
  BY <1>5, <1>k DEF SendDigest, alertVars, NoticeShape
<1>6. CASE CountReview
  <2>1. PICK o \in AlertOps : alertOp[o] = "idle" /\ alertOp' = [alertOp EXCEPT ![o] = "read"]
    BY <1>6 DEF CountReview
  <2>2. /\ reviewsUsed' = reviewsUsed + 1 /\ usedUp' = (usedUp \/ reviewsUsed' >= ReviewQuota)
        /\ UNCHANGED <<noticeNow, webhook, marked, gap, delivered, missed, monthTurned>>
    BY <1>6 DEF CountReview
  <2>3. NoticeShape'
    BY <2>1, <2>2 DEF NoticeShape, AlertPlaces
  <2>4. \A p \in AlertOps : alertOp'[p] = IF p = o THEN "read" ELSE alertOp[p]
    BY <2>1 DEF NoticeShape
  <2>5. OneSends => OneSends'
    BY <2>1, <2>2, <2>4 DEF OneSends, NoticeShape
  <2>6. TellsOfQuota => TellsOfQuota'
    BY <2>1, <2>2, <2>4 DEF TellsOfQuota, NoticeShape
  <2> QED BY <2>2, <2>3, <2>5, <2>6
<1>7. CASE TurnMonth
  <2>1. /\ reviewsUsed' = 0 /\ usedUp' = FALSE /\ delivered' = 0 /\ missed' = FALSE /\ gap' = TRUE
        /\ monthTurned' = \E o \in AlertOps : alertOp[o] # "idle"
        /\ UNCHANGED <<noticeNow, webhook, marked, alertOp>>
    BY <1>7 DEF TurnMonth
  <2>2. monthTurned' \in BOOLEAN
    BY <2>1
  <2>3. NoticeShape'
    BY <2>1, <2>2 DEF NoticeShape
  <2>4. ~monthTurned' => \A o \in AlertOps : alertOp'[o] = "idle"
    BY <2>1
  <2> QED BY <2>1, <2>3, <2>4 DEF OneSends, TellsOfQuota
<1>8. ASSUME NEW o \in AlertOps, ReadAlert(o) PROVE NoticeInv'
  <2>1. /\ alertOp[o] = "read" /\ alertOp' = [alertOp EXCEPT ![o] = IF WorthTelling THEN "mark" ELSE "idle"]
        /\ UNCHANGED <<noticeNow, reviewsUsed, usedUp, webhook, marked, gap, delivered, missed, monthTurned>>
    BY <1>8 DEF ReadAlert
  <2>2. NoticeShape'
    BY <2>1 DEF NoticeShape, AlertPlaces
  <2>3. \A p \in AlertOps : alertOp'[p] = IF p = o THEN IF WorthTelling THEN "mark" ELSE "idle" ELSE alertOp[p]
    BY <2>1 DEF NoticeShape
  <2>5. OneSends => OneSends'
    BY <2>1, <2>3 DEF OneSends
  <2>6. TellsOfQuota => TellsOfQuota'
    BY <1>w, <2>1, <2>3 DEF TellsOfQuota
  <2> QED BY <2>1, <2>2, <2>5, <2>6
<1>9. ASSUME NEW o \in AlertOps, MarkAlert(o) PROVE NoticeInv'
  <2>1. /\ alertOp[o] = "mark" /\ marked' = TRUE /\ monthTurned' = (monthTurned \/ gap)
        /\ alertOp' = [alertOp EXCEPT ![o] = IF ~marked THEN "send" ELSE "idle"]
        /\ UNCHANGED <<noticeNow, reviewsUsed, usedUp, webhook, gap, delivered, missed>>
    BY <1>9 DEF MarkAlert, Acquire
  <2>2. NoticeShape'
    BY <2>1 DEF NoticeShape, AlertPlaces
  <2>3. \A p \in AlertOps : alertOp'[p] = IF p = o THEN IF ~marked THEN "send" ELSE "idle" ELSE alertOp[p]
    BY <2>1 DEF NoticeShape
  <2>4. OneSends /\ ~gap => OneSends'
    <3>1. CASE marked
      BY <2>1, <2>3, <3>1 DEF OneSends
    <3>2. CASE ~marked
      BY <2>1, <2>3, <3>2 DEF OneSends, NoticeShape
    <3> QED BY <3>1, <3>2
  <2>5. TellsOfQuota /\ ~gap => TellsOfQuota'
    BY <2>1, <2>3 DEF TellsOfQuota
  <2> QED BY <2>1, <2>2, <2>4, <2>5
<1>10. ASSUME NEW o \in AlertOps, SendAlert(o) PROVE NoticeInv'
  <2>1. PICK sent \in BOOLEAN : /\ delivered' = IF sent THEN delivered + 1 ELSE delivered
                                /\ missed' = (missed \/ ~sent)
    BY <1>10 DEF SendAlert
  <2>2. /\ alertOp[o] = "send" /\ alertOp' = [alertOp EXCEPT ![o] = "idle"]
        /\ UNCHANGED <<noticeNow, reviewsUsed, usedUp, webhook, marked, gap, monthTurned>>
    BY <1>10 DEF SendAlert
  <2>3. NoticeShape'
    BY <2>1, <2>2 DEF NoticeShape, AlertPlaces
  <2>4. \A p \in AlertOps : alertOp'[p] = IF p = o THEN "idle" ELSE alertOp[p]
    BY <2>2 DEF NoticeShape
  <2>5. OneSends => OneSends'
    BY <2>1, <2>2, <2>4 DEF OneSends, NoticeShape
  <2>6. TellsOfQuota => TellsOfQuota'
    <3>1. \A p \in AlertOps : alertOp'[p] \in {"read", "mark"} <=> alertOp[p] \in {"read", "mark"}
      BY <2>2, <2>4
    <3>2. \A p \in AlertOps : alertOp'[p] = "mark" <=> alertOp[p] = "mark"
      BY <2>2, <2>4
    <3>3. missed => missed'
      BY <2>1
    <3> QED BY <2>2, <3>1, <3>2, <3>3 DEF TellsOfQuota
  <2> QED BY <2>2, <2>3, <2>5, <2>6
<1>11. ASSUME NEW o \in AlertOps, ReadFails(o) PROVE NoticeInv'
  <2>1. /\ alertOp[o] = "read" /\ alertOp' = [alertOp EXCEPT ![o] = "idle"] /\ missed' = (missed \/ WorthTelling)
        /\ UNCHANGED <<noticeNow, reviewsUsed, usedUp, webhook, marked, gap, delivered, monthTurned>>
    BY <1>11 DEF ReadFails
  <2>2. NoticeShape'
    BY <1>w, <2>1 DEF NoticeShape, AlertPlaces
  <2>3. \A p \in AlertOps : alertOp'[p] = IF p = o THEN "idle" ELSE alertOp[p]
    BY <2>1 DEF NoticeShape
  <2>4. (missed => missed') /\ (WorthTelling => missed')
    BY <2>1
  <2>5. \A p \in AlertOps : alertOp'[p] = "send" <=> alertOp[p] = "send"
    BY <2>1, <2>3
  <2>6. OneSends => OneSends'
    BY <2>1, <2>4, <2>5 DEF OneSends
  <2>7. \A p \in AlertOps : alertOp'[p] = "mark" <=> alertOp[p] = "mark"
    BY <2>1, <2>3
  <2>8. TellsOfQuota => TellsOfQuota'
    BY <1>w, <2>1, <2>4, <2>7 DEF TellsOfQuota
  <2> QED BY <2>1, <2>2, <2>6, <2>8
<1>12. ASSUME NEW o \in AlertOps, MarkFails(o) PROVE NoticeInv'
  <2>1. /\ alertOp[o] = "mark" /\ alertOp' = [alertOp EXCEPT ![o] = "idle"] /\ missed' = TRUE
        /\ marked' \in {marked, TRUE} /\ monthTurned' = (monthTurned \/ gap)
        /\ UNCHANGED <<noticeNow, reviewsUsed, usedUp, webhook, gap, delivered>>
    BY <1>12 DEF MarkFails
  <2>2. NoticeShape'
    BY <2>1 DEF NoticeShape, AlertPlaces
  <2>3. \A p \in AlertOps : alertOp'[p] = IF p = o THEN "idle" ELSE alertOp[p]
    BY <2>1 DEF NoticeShape
  <2>4. OneSends /\ ~gap => OneSends'
    <3>1. marked => marked'
      BY <2>1
    <3>2. \A p \in AlertOps : alertOp'[p] = "send" <=> alertOp[p] = "send"
      BY <2>1, <2>3
    <3> QED BY <2>1, <3>1, <3>2 DEF OneSends
  <2>5. TellsOfQuota /\ ~gap => TellsOfQuota'
    BY <2>1, <2>3 DEF TellsOfQuota
  <2> QED BY <2>1, <2>2, <2>4, <2>5
<1>13. CASE ReviewsGo
  <2>1. PICK n \in 0 .. reviewsUsed - 1 : reviewsUsed' = n
    BY <1>13 DEF ReviewsGo
  <2>2. UNCHANGED <<noticeNow, usedUp, webhook, marked, gap, alertOp, delivered, missed, monthTurned>>
    BY <1>13 DEF ReviewsGo
  <2>3. NoticeShape'
    BY <2>1, <2>2 DEF NoticeShape
  <2>4. reviewsUsed' >= ReviewQuota => reviewsUsed >= ReviewQuota
    BY <2>1 DEF NoticeShape
  <2>5. OneSends => OneSends'
    BY <2>2 DEF OneSends
  <2>6. TellsOfQuota => TellsOfQuota'
    BY <2>2, <2>4 DEF TellsOfQuota
  <2> QED BY <2>2, <2>3, <2>5, <2>6
<1>14. CASE AlertsStop
  <2>1. /\ alertOp' = [o \in AlertOps |-> "idle"]
        /\ missed' = (missed \/ WorthTelling \/ \E o \in AlertOps : alertOp[o] = "send")
        /\ UNCHANGED <<noticeNow, reviewsUsed, usedUp, webhook, marked, gap, delivered, monthTurned>>
    BY <1>14 DEF AlertsStop
  <2>2. missed' \in BOOLEAN /\ \A o \in AlertOps : alertOp'[o] = "idle"
    BY <2>1
  <2>3. NoticeShape'
    BY <2>1, <2>2 DEF NoticeShape, AlertPlaces
  <2>4. OneSends => OneSends'
    BY <2>1, <2>2 DEF OneSends
  <2>5. TellsOfQuota => TellsOfQuota'
    BY <1>w, <2>1, <2>2 DEF TellsOfQuota
  <2> QED BY <2>1, <2>3, <2>4, <2>5
<1>15. CASE KeyExpires
  <2>1. /\ gap /\ gap' = FALSE /\ marked' = FALSE
        /\ UNCHANGED <<noticeNow, reviewsUsed, usedUp, webhook, alertOp, delivered, missed, monthTurned>>
    BY <1>15 DEF KeyExpires
  <2>2. NoticeShape'
    BY <2>1 DEF NoticeShape
  <2> QED BY <2>1, <2>2 DEF OneSends, TellsOfQuota
<1> QED BY <1>1, <1>2, <1>3, <1>4, <1>5, <1>6, <1>7, <1>8, <1>9, <1>10, <1>11, <1>12, <1>13, <1>14, <1>15 DEF NoticeNext

(* Of a set of numbers that fits, the earliest are all of it; of any that  *)
(* is not empty, some are.                                                 *)
LEMMA EarliestIsAll ==
  ASSUME NEW S, S \subseteq Int, IsFiniteSet(S), NEW n \in Nat, Cardinality(S) <= n
  PROVE  Earliest(S, n) = S
<1>1. ASSUME NEW c \in S PROVE Cardinality({d \in S : d < c}) < n
  <2>1. {d \in S : d < c} \subseteq S \ {c}
    OBVIOUS
  <2>2. Cardinality(S \ {c}) = Cardinality(S) - 1 /\ IsFiniteSet(S \ {c}) /\ Cardinality(S) \in Nat
    BY FS_RemoveElement, FS_CardinalityType
  <2>3. Cardinality({d \in S : d < c}) <= Cardinality(S \ {c}) /\ Cardinality({d \in S : d < c}) \in Nat
    BY <2>1, <2>2, FS_Subset, FS_CardinalityType
  <2> QED BY <2>2, <2>3
<1> QED BY <1>1 DEF Earliest

LEMMA EarliestIsSome ==
  ASSUME NEW S, S \subseteq Nat, S # {}, NEW n \in Nat \ {0}
  PROVE  Earliest(S, n) # {}
<1>1. PICK c \in S : \A d \in S : c <= d
  BY LeastOf
<1>2. {d \in S : d < c} = {}
  <2>1. ASSUME NEW d \in S PROVE ~(d < c)
    <3>1. c <= d /\ c \in Nat /\ d \in Nat
      BY <1>1
    <3> QED BY <3>1
  <2> QED BY <2>1
<1>3. Cardinality({d \in S : d < c}) < n
  BY <1>2, FS_EmptySet
<1> QED BY <1>3 DEF Earliest

LEMMA NoticesAgree ==
  ASSUME NoticeInv PROVE NoticeTypeOK /\ AlertedOnce /\ NothingDueIsMissed
<1>1. NoticeTypeOK
  BY DEF NoticeInv, NoticeShape, NoticeTypeOK, AlertPlaces
<1>2. AlertedOnce
  BY NoticeAssumption DEF NoticeInv, NoticeShape, OneSends, TellsOfQuota, Taken, AlertedOnce
<1>0. noticeNow \in Nat
  BY DEF NoticeInv, NoticeShape
<1>3. ASSUME NEW s \in Staff, s.end <= noticeNow + s.remind
      PROVE  \E n \in NoticeList(TRUE) : n.type = "LEDGER_EXPIRY" /\ n.of = s
  <2> DEFINE n == [type |-> "LEDGER_EXPIRY", of |-> s, danger |-> RoundDays(s.end - noticeNow) <= 7]
  <2>1. s.end \in Int /\ s.remind \in Int /\ s.remind <= 180
    BY NoticeAssumption DEF Days
  <2>2. Loaded(s) /\ s.end - noticeNow <= s.remind
    BY <1>0, <1>3, <2>1 DEF Loaded, Days
  <2>3. n \in LedgerNotices
    BY <2>2 DEF LedgerNotices
  <2>4. n.type = "LEDGER_EXPIRY" /\ n.of = s
    OBVIOUS
  <2> HIDE DEF n
  <2> QED BY <2>3, <2>4 DEF NoticeList
<1>4. ASSUME NEW s \in Staff, s.probation \in noticeNow .. noticeNow + Days(7)
      PROVE  \E n \in NoticeList(TRUE) : n.type = "PROBATION_EXPIRY" /\ n.of = s
  <2> DEFINE n == [type |-> "PROBATION_EXPIRY", of |-> s, danger |-> FALSE]
  <2>1. s.probation \in Int /\ s.probation >= noticeNow /\ s.probation - noticeNow <= 14
    BY <1>0, <1>4 DEF Days
  <2>2. RoundDays(s.probation - noticeNow) <= 7
    BY <1>0, <2>1 DEF RoundDays
  <2>3. n \in LedgerNotices
    BY <1>4, <2>1, <2>2 DEF LedgerNotices, Loaded
  <2>4. n.type = "PROBATION_EXPIRY" /\ n.of = s
    OBVIOUS
  <2> HIDE DEF n
  <2> QED BY <2>3, <2>4 DEF NoticeList
<1>6. \A c \in Kept7 : c \in Int
  BY NoticeAssumption
<1>5. LET overdue == {c \in Kept7 \ cleaned : c < noticeNow}
          pending == {c \in Kept7 \ cleaned : c \in noticeNow .. noticeNow + Days(1)}
      IN  Cardinality(overdue \cup pending) <= RetainTake => (pending = {} <=> RetainNotices = {})
  <2> DEFINE overdue == {c \in Kept7 \ cleaned : c < noticeNow}
             pending == {c \in Kept7 \ cleaned : c \in noticeNow .. noticeNow + Days(1)}
             listed == {c \in Kept7 \ cleaned : c <= noticeNow + Days(1)}
             due == Earliest(listed, RetainTake)
             shown == {c \in due : c >= noticeNow}
  <2>1. SUFFICES ASSUME Cardinality(overdue \cup pending) <= RetainTake
                 PROVE  pending = {} <=> RetainNotices = {}
    OBVIOUS
  <2>2. listed = overdue \cup pending /\ listed \subseteq Int /\ IsFiniteSet(listed)
    <3>1. listed = overdue \cup pending
      <4>1. \A c \in Kept7 : c \in noticeNow .. noticeNow + 2 <=> noticeNow <= c /\ c <= noticeNow + 2
        BY <1>0, <1>6
      <4>2. \A c \in Kept7 : c <= noticeNow + 2 <=> (c < noticeNow \/ c \in noticeNow .. noticeNow + 2)
        BY <1>0, <1>6
      <4>3. Days(1) = 2
        BY DEF Days
      <4> QED BY <4>2, <4>3
    <3>2. listed \subseteq Kept7
      OBVIOUS
    <3> QED BY <3>1, <3>2, NoticeAssumption, FS_Subset
  <2>3. due = listed
    <3> HIDE DEF listed
    <3> QED BY <2>1, <2>2, EarliestIsAll, NoticeAssumption
  <2>4. shown = pending
    BY <1>0, <2>3, NoticeAssumption DEF Days
  <2>5. pending \subseteq Nat
    BY <1>0, <1>6
  <2>6. RetainNotices = {[type |-> "RETAIN_WARNING", of |-> c] : c \in Earliest(shown, RetainShown)}
      \cup (IF Cardinality(shown) > RetainShown THEN {[type |-> "RETAIN_WARNING", of |-> -1]} ELSE {})
    BY DEF RetainNotices
  <2> HIDE DEF pending, shown
  <2>7. ASSUME pending = {} PROVE RetainNotices = {}
    <3>1. Earliest(shown, RetainShown) = {} /\ Cardinality(shown) = 0
      BY <2>4, <2>7, FS_EmptySet DEF Earliest
    <3> QED BY <2>6, <3>1, NoticeAssumption
  <2>8. ASSUME pending # {} PROVE RetainNotices # {}
    <3>1. Earliest(shown, RetainShown) # {}
      BY <2>4, <2>5, <2>8, EarliestIsSome, NoticeAssumption
    <3> QED BY <2>6, <3>1
  <2> QED BY <2>7, <2>8
<1> QED BY <1>1, <1>2, <1>3, <1>4, <1>5 DEF NothingDueIsMissed

-----------------------------------------------------------------------------
(* The revision desk: a generation that was not forced writes rows that    *)
(* were blank when it read them; a decision is on rows with a text, which  *)
(* no step takes back.                                                     *)
ModelCalls ==
  [pc : {"model", "write"}, forced : BOOLEAN, batch : SUBSET DeskRisks, blank : SUBSET DeskRisks]
DecideCalls == [pc : {"decide"}, rows : SUBSET DeskRisks, status : RevStatus]
ExtractCalls == [pc : {"extract"}, forced : BOOLEAN, blank : BOOLEAN]
RevCalls == {RevIdle} \cup ModelCalls \cup DecideCalls \cup ExtractCalls

RevisionShape ==
  /\ rev \in [DeskRisks -> [text : Nat, status : RevStatus]]
  /\ kept \in BOOLEAN /\ deepAccess \in BOOLEAN /\ revRaced \in BOOLEAN
  /\ texts \in 0 .. RevTexts /\ facts \in 0 .. texts
  /\ \A r \in DeskRisks : rev[r].text <= texts
  /\ revOp \in [RevOps -> RevCalls]

BlankWhenRead(op) ==
  /\ op.pc \in {"model", "write"} /\ ~op.forced => op.batch \subseteq op.blank
  /\ op.pc = "extract" /\ ~op.forced => op.blank

DecidesOnTexts(op) == op.pc = "decide" => \A r \in op.rows : rev[r].text # 0

RevisionInv ==
  /\ RevisionShape /\ AcceptedHasText
  /\ \A o \in RevOps : BlankWhenRead(revOp[o]) /\ DecidesOnTexts(revOp[o])

LEMMA RevisionInitially ==
  ASSUME RevisionInit PROVE RevisionInv
<1>1. \A o \in RevOps : revOp[o] = RevIdle
  BY DEF RevisionInit
<1>2. \A r \in DeskRisks : rev[r].text = 0 /\ rev[r].status = "NONE"
  BY DEF RevisionInit
<1>3. RevisionShape
  <2>1. rev \in [DeskRisks -> [text : Nat, status : RevStatus]]
    BY DEF RevisionInit, RevStatus
  <2>2. texts = 0 /\ facts = 0 /\ texts \in 0 .. RevTexts /\ facts \in 0 .. texts
    BY RevisionAssumption DEF RevisionInit
  <2>3. \A r \in DeskRisks : rev[r].text <= texts
    BY <1>2, <2>2
  <2> QED BY <2>1, <2>2, <2>3 DEF RevisionInit, RevisionShape, RevCalls
<1> QED BY <1>1, <1>2, <1>3 DEF RevisionInv, AcceptedHasText, BlankWhenRead, DecidesOnTexts, RevIdle

(* A handler moves, no row is written.                                     *)
LEMMA DeskCallMoves ==
  ASSUME RevisionInv, NEW o \in RevOps, NEW op \in RevCalls, BlankWhenRead(op), DecidesOnTexts(op),
         revOp' = [revOp EXCEPT ![o] = op], UNCHANGED <<rev, kept, deepAccess, texts, facts, revRaced>>
  PROVE  RevisionInv'
<1>1. \A p \in RevOps : revOp'[p] = IF p = o THEN op ELSE revOp[p]
  BY DEF RevisionInv, RevisionShape
<1>2. RevisionShape'
  BY DEF RevisionInv, RevisionShape
<1>3. AcceptedHasText'
  BY DEF RevisionInv, AcceptedHasText
<1>4. \A p \in RevOps : BlankWhenRead(revOp'[p]) /\ DecidesOnTexts(revOp[p])'
  BY <1>1 DEF RevisionInv, BlankWhenRead, DecidesOnTexts
<1> QED BY <1>2, <1>3, <1>4 DEF RevisionInv, BlankWhenRead

LEMMA RevisionPreserved ==
  ASSUME RevisionInv, [RevisionNext]_revisionVars
  PROVE  RevisionInv' /\ RewritesAreAsked
<1> USE RevisionAssumption
<1>i. RevIdle \in RevCalls /\ BlankWhenRead(RevIdle) /\ DecidesOnTexts(RevIdle)
  BY DEF RevCalls, RevIdle, BlankWhenRead, DecidesOnTexts
<1>k. ASSUME UNCHANGED <<rev, facts>> PROVE RewritesAreAsked
  BY <1>k DEF RewritesAreAsked
<1>1. CASE UNCHANGED <<rev, texts, facts, revOp, revRaced>> /\ kept' \in BOOLEAN /\ deepAccess' \in BOOLEAN
  <2>1. RevisionInv'
    BY <1>1 DEF RevisionInv, RevisionShape, AcceptedHasText, BlankWhenRead, DecidesOnTexts
  <2> QED BY <1>1, <1>k, <2>1
<1>2. ASSUME NEW o \in RevOps, Generate(o) PROVE RevisionInv' /\ RewritesAreAsked
  <2>1. PICK force \in BOOLEAN :
          revOp' = [revOp EXCEPT ![o] =
            [pc |-> "model", forced |-> force, batch |-> BatchOf(Targets(force)), blank |-> BlankRows]]
    BY <1>2 DEF Generate
  <2> DEFINE op == [pc |-> "model", forced |-> force, batch |-> BatchOf(Targets(force)), blank |-> BlankRows]
  <2>2. /\ BatchOf(Targets(force)) \subseteq DeskRisks /\ BlankRows \subseteq DeskRisks
        /\ ~force => BatchOf(Targets(force)) \subseteq BlankRows
    BY DEF BatchOf, Targets, BlankRows
  <2>3. op \in RevCalls /\ BlankWhenRead(op) /\ DecidesOnTexts(op)
    BY <2>2 DEF RevCalls, ModelCalls, BlankWhenRead, DecidesOnTexts
  <2>4. revOp' = [revOp EXCEPT ![o] = op]
    BY <2>1
  <2>5. UNCHANGED <<rev, kept, deepAccess, texts, facts, revRaced>>
    BY <1>2 DEF Generate
  <2> HIDE DEF op
  <2> QED BY <1>k, <2>3, <2>4, <2>5, DeskCallMoves
<1>3. ASSUME NEW o \in RevOps, Regenerate(o) PROVE RevisionInv' /\ RewritesAreAsked
  <2>1. PICK r \in DeskRisks :
          revOp' = [revOp EXCEPT ![o] = [pc |-> "model", forced |-> TRUE, batch |-> {r}, blank |-> {}]]
    BY <1>3 DEF Regenerate
  <2> DEFINE op == [pc |-> "model", forced |-> TRUE, batch |-> {r}, blank |-> {}]
  <2>2. op \in RevCalls /\ BlankWhenRead(op) /\ DecidesOnTexts(op)
    BY DEF RevCalls, ModelCalls, BlankWhenRead, DecidesOnTexts
  <2>3. UNCHANGED <<rev, kept, deepAccess, texts, facts, revRaced>>
    BY <1>3 DEF Regenerate
  <2>4. revOp' = [revOp EXCEPT ![o] = op]
    BY <2>1
  <2> HIDE DEF op
  <2> QED BY <1>k, <2>2, <2>3, <2>4, DeskCallMoves
<1>c. ASSUME NEW o \in RevOps
      PROVE  /\ BlankWhenRead(revOp[o]) /\ DecidesOnTexts(revOp[o])
             /\ revOp[o].pc \in {"model", "write"} => revOp[o] \in ModelCalls
             /\ revOp[o].pc = "decide" => revOp[o] \in DecideCalls
             /\ revOp[o].pc = "extract" => revOp[o] \in ExtractCalls
  BY DEF RevisionInv, RevisionShape, RevCalls, RevIdle, ModelCalls, DecideCalls, ExtractCalls
<1>4. ASSUME NEW o \in RevOps, ModelWrites(o) PROVE RevisionInv' /\ RewritesAreAsked
  <2> DEFINE op == revOp[o]
  <2>1. op \in ModelCalls /\ BlankWhenRead(op) /\ op.pc = "model"
    BY <1>4, <1>c DEF ModelWrites
  <2>2. PICK items \in SUBSET op.batch :
          revOp' = [revOp EXCEPT ![o] = IF items = {} THEN RevIdle
                                        ELSE [op EXCEPT !.pc = "write", !.batch = items]]
    BY <1>4 DEF ModelWrites, RevisionInv, RevisionShape
  <2>3. UNCHANGED <<rev, kept, deepAccess, texts, facts, revRaced>>
    BY <1>4 DEF ModelWrites
  <2>4. CASE items = {}
    BY <1>i, <1>k, <2>2, <2>3, <2>4, DeskCallMoves
  <2>5. CASE items # {}
    <3> DEFINE up == [op EXCEPT !.pc = "write"]
               to == [up EXCEPT !.batch = items]
    <3>1. revOp' = [revOp EXCEPT ![o] = to]
      BY <2>2, <2>5
    <3>2. up \in ModelCalls /\ up.pc = "write" /\ up.batch = op.batch /\ up.blank = op.blank /\ up.forced = op.forced
      BY <2>1 DEF ModelCalls
    <3>3. items \in SUBSET DeskRisks
      BY <2>1 DEF ModelCalls
    <3> HIDE DEF up
    <3>4. to \in ModelCalls /\ to.pc = "write" /\ to.batch = items /\ to.blank = op.blank /\ to.forced = op.forced
      BY <3>2, <3>3 DEF ModelCalls
    <3> HIDE DEF to
    <3>5. BlankWhenRead(to) /\ DecidesOnTexts(to) /\ to \in RevCalls
      BY <2>1, <3>4 DEF BlankWhenRead, DecidesOnTexts, RevCalls
    <3> QED BY <1>k, <2>3, <3>1, <3>5, DeskCallMoves
  <2> QED BY <2>4, <2>5
<1>5. ASSUME NEW o \in RevOps, WriteText(o) PROVE RevisionInv' /\ RewritesAreAsked
  <2> DEFINE op == revOp[o]
  <2>1. op \in ModelCalls /\ BlankWhenRead(op) /\ op.pc = "write" /\ texts < RevTexts
        /\ UNCHANGED <<kept, deepAccess, facts>>
    BY <1>5, <1>c DEF WriteText
  <2>2. CASE RevEnd(o) /\ UNCHANGED <<rev, texts, revRaced>>
    BY <1>i, <1>k, <2>1, <2>2, DeskCallMoves DEF RevEnd
  <2>3. CASE \E r \in op.batch :
               /\ texts' = texts + 1
               /\ rev' = [rev EXCEPT ![r] = [text |-> texts + 1, status |-> "PENDING"]]
               /\ revRaced' = (revRaced \/ (r \in op.blank /\ rev[r].text # 0))
               /\ revOp' = [revOp EXCEPT ![o] = IF op.batch = {r} THEN RevIdle
                                                ELSE [op EXCEPT !.batch = op.batch \ {r}]]
    <3>1. PICK r \in op.batch :
               /\ texts' = texts + 1
               /\ rev' = [rev EXCEPT ![r] = [text |-> texts + 1, status |-> "PENDING"]]
               /\ revRaced' = (revRaced \/ (r \in op.blank /\ rev[r].text # 0))
               /\ revOp' = [revOp EXCEPT ![o] = IF op.batch = {r} THEN RevIdle
                                                ELSE [op EXCEPT !.batch = op.batch \ {r}]]
      BY <2>3
    <3>2. r \in DeskRisks /\ (op.forced \/ r \in op.blank)
      BY <2>1 DEF ModelCalls, BlankWhenRead
    <3> DEFINE row == [text |-> texts + 1, status |-> "PENDING"]
               less == [op EXCEPT !.batch = op.batch \ {r}]
               to == IF op.batch = {r} THEN RevIdle ELSE less
    <3>3. texts + 1 \in Nat /\ texts + 1 # 0 /\ texts' \in 0 .. RevTexts /\ texts' = texts + 1 /\ texts \in Nat
      BY <2>1, <3>1 DEF RevisionInv, RevisionShape
    <3>4. row \in [text : Nat, status : RevStatus] /\ row.text = texts + 1
      BY <3>3 DEF RevStatus
    <3>5. less \in ModelCalls /\ less.pc = "write" /\ less.forced = op.forced /\ less.blank = op.blank
          /\ less.batch \subseteq op.batch
      BY <2>1 DEF ModelCalls
    <3>6. rev' = [rev EXCEPT ![r] = row] /\ revOp' = [revOp EXCEPT ![o] = to]
      BY <3>1
    <3> HIDE DEF row, less
    <3>7. \A s \in DeskRisks : rev'[s] = IF s = r THEN row ELSE rev[s]
      BY <3>2, <3>6 DEF RevisionInv, RevisionShape
    <3>8. BlankWhenRead(less) /\ less \in RevCalls
      BY <2>1, <3>5 DEF BlankWhenRead, RevCalls
    <3>9. to \in RevCalls /\ BlankWhenRead(to) /\ to.pc # "decide"
      BY <1>i, <3>5, <3>8 DEF RevIdle
    <3> HIDE DEF to
    <3>10. \A p \in RevOps : revOp'[p] = IF p = o THEN to ELSE revOp[p]
      BY <3>6 DEF RevisionInv, RevisionShape
    <3>11. \A s \in DeskRisks : rev[s].text \in Nat /\ rev[s].text <= texts
      BY DEF RevisionInv, RevisionShape
    <3>12. RevisionShape'
      <4>1. rev' \in [DeskRisks -> [text : Nat, status : RevStatus]]
        BY <3>4, <3>6 DEF RevisionInv, RevisionShape
      <4>2. \A s \in DeskRisks : rev'[s].text <= texts'
        BY <3>3, <3>4, <3>7, <3>11
      <4>3. revOp' \in [RevOps -> RevCalls]
        BY <3>6, <3>9 DEF RevisionInv, RevisionShape
      <4>4. facts' \in 0 .. texts'
        BY <2>1, <3>3 DEF RevisionInv, RevisionShape
      <4>5. revRaced' \in BOOLEAN /\ kept' \in BOOLEAN /\ deepAccess' \in BOOLEAN
        BY <2>1, <3>1 DEF RevisionInv, RevisionShape
      <4> QED BY <3>3, <4>1, <4>2, <4>3, <4>4, <4>5 DEF RevisionShape
    <3>13. AcceptedHasText'
      BY <3>3, <3>4, <3>7 DEF RevisionInv, AcceptedHasText
    <3>14. ASSUME NEW p \in RevOps PROVE BlankWhenRead(revOp'[p]) /\ DecidesOnTexts(revOp[p])'
      <4>1. BlankWhenRead(revOp'[p])
        BY <3>9, <3>10 DEF RevisionInv
      <4>2. CASE p = o
        BY <3>9, <3>10, <4>1, <4>2 DEF DecidesOnTexts
      <4>3. CASE p # o
        <5>1. revOp'[p] = revOp[p] /\ DecidesOnTexts(revOp[p])
          BY <1>c, <3>10, <4>3
        <5>2. revOp[p].pc = "decide" => revOp[p].rows \subseteq DeskRisks
          BY <1>c DEF DecideCalls
        <5> QED BY <3>3, <3>4, <3>7, <4>1, <5>1, <5>2 DEF DecidesOnTexts
      <4> QED BY <4>2, <4>3
    <3>15. RewritesAreAsked
      <4>1. op.forced => Overwrites(o)
        BY <2>1 DEF Overwrites
      <4>2. rev[r].text # 0 => revRaced' \/ op.forced
        BY <3>1, <3>2
      <4> QED BY <2>1, <3>7, <4>1, <4>2 DEF RewritesAreAsked
    <3> QED BY <3>12, <3>13, <3>14, <3>15 DEF RevisionInv, BlankWhenRead
  <2> QED BY <1>5, <2>2, <2>3 DEF WriteText
<1>6. ASSUME NEW o \in RevOps, LoadDecision(o) PROVE RevisionInv' /\ RewritesAreAsked
  <2> DEFINE written == {r \in DeskRisks : rev[r].text # 0}
  <2>1. PICK rows \in SUBSET written, status \in RevStatus :
          revOp' = [revOp EXCEPT ![o] = [pc |-> "decide", rows |-> rows, status |-> status]]
    <3>1. CASE \E r \in written, status \in RevStatus \ {"NONE"} :
                 revOp' = [revOp EXCEPT ![o] = [pc |-> "decide", rows |-> {r}, status |-> status]]
      <4>1. PICK r \in written, status \in RevStatus :
              revOp' = [revOp EXCEPT ![o] = [pc |-> "decide", rows |-> {r}, status |-> status]]
        BY <3>1
      <4>2. {r} \in SUBSET written
        OBVIOUS
      <4> QED BY <4>1, <4>2
    <3>2. CASE revOp' = [revOp EXCEPT ![o] = [pc |-> "decide", rows |-> written, status |-> "ACCEPTED"]]
      BY <3>2 DEF RevStatus
    <3> QED BY <1>6, <3>1, <3>2 DEF LoadDecision
  <2> DEFINE op == [pc |-> "decide", rows |-> rows, status |-> status]
  <2>2. op \in RevCalls /\ BlankWhenRead(op) /\ DecidesOnTexts(op)
    BY DEF RevCalls, DecideCalls, BlankWhenRead, DecidesOnTexts
  <2>3. UNCHANGED <<rev, kept, deepAccess, texts, facts, revRaced>>
    BY <1>6 DEF LoadDecision
  <2>4. revOp' = [revOp EXCEPT ![o] = op]
    BY <2>1
  <2> HIDE DEF op
  <2> QED BY <1>k, <2>2, <2>3, <2>4, DeskCallMoves
<1>7. ASSUME NEW o \in RevOps, WriteDecision(o) PROVE RevisionInv' /\ RewritesAreAsked
  <2> DEFINE op == revOp[o]
  <2>1. op \in DecideCalls /\ DecidesOnTexts(op) /\ op.pc = "decide"
    BY <1>7, <1>c DEF WriteDecision
  <2>2. /\ rev' = IF kept THEN [r \in DeskRisks |->
                      IF r \in op.rows THEN [rev[r] EXCEPT !.status = op.status] ELSE rev[r]]
                  ELSE rev
        /\ revOp' = [revOp EXCEPT ![o] = RevIdle]
        /\ UNCHANGED <<kept, deepAccess, texts, facts, revRaced>>
    BY <1>7 DEF WriteDecision, RevEnd
  <2>3. \A row \in [text : Nat, status : RevStatus] :
          /\ [row EXCEPT !.status = op.status] \in [text : Nat, status : RevStatus]
          /\ [row EXCEPT !.status = op.status].text = row.text
    BY <2>1 DEF DecideCalls
  <2>4. \A r \in DeskRisks : rev[r] \in [text : Nat, status : RevStatus]
    BY DEF RevisionInv, RevisionShape
  <2>5. rev' \in [DeskRisks -> [text : Nat, status : RevStatus]]
    BY <2>2, <2>3, <2>4 DEF RevisionInv, RevisionShape
  <2>6. \A r \in DeskRisks : rev'[r].text = rev[r].text /\ (r \notin op.rows => rev'[r] = rev[r])
    BY <2>2, <2>3, <2>4
  <2>7. \A p \in RevOps : revOp'[p] = IF p = o THEN RevIdle ELSE revOp[p]
    BY <2>2 DEF RevisionInv, RevisionShape
  <2>8. RevisionShape'
    BY <1>i, <2>2, <2>5, <2>6 DEF RevisionInv, RevisionShape
  <2>9. AcceptedHasText'
    BY <2>1, <2>6 DEF RevisionInv, AcceptedHasText, DecidesOnTexts
  <2>10. ASSUME NEW p \in RevOps PROVE BlankWhenRead(revOp'[p]) /\ DecidesOnTexts(revOp[p])'
    <3>1. BlankWhenRead(revOp'[p])
      BY <1>i, <2>7 DEF RevisionInv
    <3>2. CASE p = o
      BY <2>7, <3>1, <3>2 DEF DecidesOnTexts, RevIdle
    <3>3. CASE p # o
      <4>1. revOp'[p] = revOp[p] /\ DecidesOnTexts(revOp[p])
        BY <1>c, <2>7, <3>3
      <4>2. revOp[p].pc = "decide" => revOp[p].rows \subseteq DeskRisks
        BY <1>c DEF DecideCalls
      <4> QED BY <2>6, <3>1, <4>1, <4>2 DEF DecidesOnTexts
    <3> QED BY <3>2, <3>3
  <2>11. RewritesAreAsked
    BY <2>2, <2>6 DEF RewritesAreAsked
  <2> QED BY <2>8, <2>9, <2>10, <2>11 DEF RevisionInv, BlankWhenRead
<1>8. ASSUME NEW o \in RevOps, ReadFacts(o) PROVE RevisionInv' /\ RewritesAreAsked
  <2>1. UNCHANGED <<rev, kept, deepAccess, texts, facts, revRaced>>
    BY <1>8 DEF ReadFacts
  <2>2. CASE UNCHANGED revOp
    <3>1. kept' \in BOOLEAN /\ deepAccess' \in BOOLEAN
      BY <2>1 DEF RevisionInv, RevisionShape
    <3> QED BY <1>1, <2>1, <2>2, <3>1
  <2>3. CASE \E force \in BOOLEAN :
               /\ force \/ facts = 0
               /\ revOp' = [revOp EXCEPT ![o] = [pc |-> "extract", forced |-> force, blank |-> facts = 0]]
    <3>1. PICK force \in BOOLEAN :
               /\ force \/ facts = 0
               /\ revOp' = [revOp EXCEPT ![o] = [pc |-> "extract", forced |-> force, blank |-> facts = 0]]
      BY <2>3
    <3> DEFINE op == [pc |-> "extract", forced |-> force, blank |-> facts = 0]
    <3>2. (facts = 0) \in BOOLEAN
      OBVIOUS
    <3>3. op \in RevCalls /\ BlankWhenRead(op) /\ DecidesOnTexts(op)
      BY <3>1, <3>2 DEF RevCalls, ExtractCalls, BlankWhenRead, DecidesOnTexts
    <3>4. revOp' = [revOp EXCEPT ![o] = op]
      BY <3>1
    <3> HIDE DEF op
    <3> QED BY <1>k, <2>1, <3>3, <3>4, DeskCallMoves
  <2> QED BY <1>8, <2>2, <2>3 DEF ReadFacts
<1>9. ASSUME NEW o \in RevOps, WriteFacts(o) PROVE RevisionInv' /\ RewritesAreAsked
  <2> DEFINE op == revOp[o]
  <2>1. op \in ExtractCalls /\ BlankWhenRead(op) /\ op.pc = "extract"
        /\ revOp' = [revOp EXCEPT ![o] = RevIdle] /\ UNCHANGED <<rev, kept, deepAccess>>
    BY <1>9, <1>c DEF WriteFacts, RevEnd
  <2>2. CASE UNCHANGED <<facts, texts, revRaced>>
    BY <1>i, <1>k, <2>1, <2>2, DeskCallMoves
  <2>3. CASE /\ texts < RevTexts /\ facts' = texts + 1 /\ texts' = texts + 1
             /\ revRaced' = (revRaced \/ (op.blank /\ facts # 0))
    <3>1. texts' \in 0 .. RevTexts /\ facts' \in 0 .. texts'
      BY <2>3 DEF RevisionInv, RevisionShape
    <3>2. \A r \in DeskRisks : rev[r].text <= texts'
      BY <2>3 DEF RevisionInv, RevisionShape
    <3>3. RevisionShape'
      BY <1>i, <2>1, <2>3, <3>1, <3>2 DEF RevisionInv, RevisionShape
    <3>4. \A p \in RevOps : revOp'[p] = IF p = o THEN RevIdle ELSE revOp[p]
      BY <2>1 DEF RevisionInv, RevisionShape
    <3>5. AcceptedHasText'
      BY <2>1 DEF RevisionInv, AcceptedHasText
    <3>6. \A p \in RevOps : BlankWhenRead(revOp'[p]) /\ DecidesOnTexts(revOp[p])'
      BY <1>c, <1>i, <2>1, <3>4 DEF DecidesOnTexts, RevIdle
    <3>7. op.forced => Overwrites(o)
      BY <2>1 DEF Overwrites
    <3>8. facts # 0 => revRaced' \/ op.forced
      BY <2>1, <2>3 DEF BlankWhenRead
    <3>9. RewritesAreAsked
      BY <2>1, <3>7, <3>8 DEF RewritesAreAsked
    <3> QED BY <3>3, <3>5, <3>6, <3>9 DEF RevisionInv, BlankWhenRead
  <2> QED BY <1>9, <2>2, <2>3 DEF WriteFacts
<1>10. CASE DeepEnds \/ DeskRemoved \/ UNCHANGED revisionVars
  BY <1>1, <1>10 DEF DeepEnds, DeskRemoved, revisionVars, RevisionInv, RevisionShape
<1> QED BY <1>2, <1>3, <1>4, <1>5, <1>6, <1>7, <1>8, <1>9, <1>10 DEF RevisionNext

LEMMA RevisionInType ==
  ASSUME RevisionInv PROVE RevisionTypeOK /\ AcceptedHasText
<1>1. \A r \in DeskRisks : rev[r].text \in 0 .. texts /\ rev[r].status \in RevStatus
  BY RevisionAssumption DEF RevisionInv, RevisionShape
<1> QED BY <1>1 DEF RevisionInv, RevisionShape, RevisionTypeOK

-----------------------------------------------------------------------------
(* Conversations with the knowledge base: while requests do not overlap,   *)
(* the one under way is the newest question, and what the memory holds     *)
(* beside it is older and paired.                                          *)
RagMessages == [role : {"user", "assistant"}, q : Nat]
RagCalls == {RagIdle} \cup
  [pc : {"retrieve", "compress", "answer"}, q : Nat, stream : BOOLEAN,
   before : Seq(RagMessages), prompt : Seq(RagMessages)]

RagShape ==
  /\ talk \in Seq(RagMessages) /\ Len(talk) <= HistoryMax
  /\ ragAsked \in 0 .. RagAskMax /\ ragRaced \in BOOLEAN
  /\ ragOp \in [RagOps -> RagCalls]

Asking(o) == ragOp[o].pc # "idle"
Noted(o) == ragOp[o].pc \in {"compress", "answer"} /\ ragOp[o].stream
OlderThan(messages, q) == \A i \in DOMAIN messages : messages[i].q < q

(* The memory of a session nobody noted a question in, and of one where    *)
(* question q waits for its answer.                                        *)
Settled(messages) ==
  Paired(messages) /\ (messages # <<>> => messages[Len(messages)].role = "assistant")
Awaits(messages, q) ==
  /\ Paired(messages) /\ messages # <<>> /\ messages[Len(messages)] = Said("user", q)
  /\ \A i \in 1 .. Len(messages) - 1 : messages[i].q < q

OneAsks ==
  /\ \A o, p \in RagOps : Asking(o) /\ Asking(p) => o = p
  /\ \A o \in RagOps : Asking(o) => ragOp[o].q = ragAsked
  /\ \A o \in RagOps : Asking(o) /\ ~Noted(o) => Settled(talk) /\ OlderThan(talk, ragAsked)
  /\ \A o \in RagOps : Noted(o) => Awaits(talk, ragAsked)
  /\ (\A o \in RagOps : ~Asking(o)) => Settled(talk) /\ OlderThan(talk, ragAsked + 1)
  /\ \A o \in RagOps : ragOp[o].pc = "answer" =>
       Paired(ragOp[o].prompt) /\ OlderThan(ragOp[o].prompt, ragOp[o].q)

RagInv == RagShape /\ (~ragRaced => OneAsks)

LEMMA RagInitially ==
  ASSUME RagInit PROVE RagInv
<1>1. talk = <<>> /\ ragAsked = 0 /\ ragRaced = FALSE /\ \A o \in RagOps : ragOp[o] = RagIdle
  BY DEF RagInit
<1>2. Len(talk) = 0 /\ talk \in Seq(RagMessages) /\ DOMAIN talk = {}
  BY <1>1
<1>3. Settled(talk) /\ OlderThan(talk, ragAsked + 1)
  BY <1>1, <1>2 DEF Settled, OlderThan, Paired
<1>4. RagShape
  <2>1. Len(talk) <= HistoryMax /\ ragAsked \in 0 .. RagAskMax
    BY <1>1, <1>2, RagAssumption
  <2>2. ragOp \in [RagOps -> RagCalls]
    BY DEF RagInit, RagCalls
  <2> QED BY <1>1, <1>2, <2>1, <2>2 DEF RagShape
<1>5. OneAsks
  BY <1>1, <1>3 DEF OneAsks, Asking, Noted, RagIdle
<1> QED BY <1>4, <1>5 DEF RagInv

(* What addMessage keeps: the new message last, before it the newest ones. *)
LEMMA MessageAdded ==
  ASSUME NEW messages \in Seq(RagMessages), NEW msg \in RagMessages, Len(messages) <= HistoryMax
  PROVE  LET t == AddMessage(messages, msg) IN
         /\ t \in Seq(RagMessages) /\ Len(t) \in 1 .. HistoryMax /\ t[Len(t)] = msg
         /\ Len(t) <= Len(messages) + 1
         /\ \A i \in 1 .. Len(t) - 1 : t[i] = messages[i + (Len(messages) + 1 - Len(t))]
<1> DEFINE long == Append(messages, msg)
           from == IF Len(long) > HistoryMax THEN Len(long) - HistoryMax + 1 ELSE 1
           t == SubSeq(long, from, Len(long))
<1>1. /\ long \in Seq(RagMessages) /\ Len(long) = Len(messages) + 1 /\ long[Len(long)] = msg
      /\ \A i \in 1 .. Len(messages) : long[i] = messages[i]
  OBVIOUS
<1>2. AddMessage(messages, msg) = t
  BY DEF AddMessage, Trimmed, LastOf
<1>3. HistoryMax \in Nat /\ HistoryMax >= 1 /\ Len(messages) \in Nat
  BY RagAssumption
<1> HIDE DEF long
<1>l. Len(long) \in Nat /\ Len(long) >= 1
  BY <1>1, <1>3
<1>4. from \in 1 .. Len(long) /\ from \in Int /\ Len(long) \in Nat
  <2>1. CASE Len(long) > HistoryMax
    BY <1>3, <1>l, <2>1
  <2>2. CASE ~(Len(long) > HistoryMax)
    BY <1>3, <1>l, <2>2
  <2> QED BY <2>1, <2>2
<1>5. Len(long) - from + 1 \in 1 .. HistoryMax /\ Len(long) - from + 1 <= Len(messages) + 1
  <2>1. CASE Len(long) > HistoryMax
    BY <1>1, <1>3, <1>l, <2>1
  <2>2. CASE ~(Len(long) > HistoryMax)
    BY <1>1, <1>3, <1>l, <2>2
  <2> QED BY <2>1, <2>2
<1> HIDE DEF from
<1>6. t \in Seq(RagMessages) /\ Len(t) = Len(long) - from + 1
  BY <1>1, <1>4
<1>7. \A i \in 1 .. Len(t) : t[i] = long[i + from - 1]
  BY <1>1, <1>4, <1>6
<1>8. t[Len(t)] = msg
  BY <1>1, <1>4, <1>5, <1>6, <1>7
<1>9. ASSUME NEW i \in 1 .. Len(t) - 1 PROVE t[i] = messages[i + (Len(messages) + 1 - Len(t))]
  <2>1. t[i] = long[i + from - 1] /\ i + from - 1 \in 1 .. Len(messages)
    BY <1>1, <1>3, <1>4, <1>6, <1>7
  <2>2. i + from - 1 = i + (Len(messages) + 1 - Len(t))
    BY <1>1, <1>3, <1>4, <1>6
  <2> QED BY <1>1, <2>1, <2>2
<1> HIDE DEF t
<1> QED BY <1>1, <1>2, <1>5, <1>6, <1>8, <1>9

LEMMA QuestionNoted ==
  ASSUME NEW messages \in Seq(RagMessages), Len(messages) <= HistoryMax, NEW q \in Nat,
         Settled(messages), OlderThan(messages, q)
  PROVE  /\ AddMessage(messages, Said("user", q)) \in Seq(RagMessages)
         /\ Len(AddMessage(messages, Said("user", q))) <= HistoryMax
         /\ Awaits(AddMessage(messages, Said("user", q)), q)
<1> DEFINE msg == Said("user", q)
           t == AddMessage(messages, msg)
           k == Len(messages) + 1 - Len(t)
<1>0. msg \in RagMessages /\ msg.role = "user"
  BY DEF Said, RagMessages
<1>1. /\ t \in Seq(RagMessages) /\ Len(t) \in 1 .. HistoryMax /\ t[Len(t)] = msg
      /\ Len(t) <= Len(messages) + 1
      /\ \A i \in 1 .. Len(t) - 1 : t[i] = messages[i + k]
  BY <1>0, MessageAdded
<1> HIDE DEF t, msg
<1>2. Len(t) \in Nat /\ Len(messages) \in Nat /\ k \in Nat /\ k = Len(messages) + 1 - Len(t) /\ HistoryMax \in Nat
  BY <1>1, RagAssumption
<1> HIDE DEF k
<1>3. \A i \in 1 .. Len(t) - 1 : i + k \in DOMAIN messages
  BY <1>2
<1>4. \A i \in 1 .. Len(t) - 1 : t[i].q < q
  BY <1>1, <1>3 DEF OlderThan
<1>5. ASSUME NEW i \in DOMAIN t, t[i].role = "user", i < Len(t) PROVE t[i + 1] = Said("assistant", t[i].q)
  <2>1. i \in 1 .. Len(t) - 1 /\ t[i] = messages[i + k] /\ i + k \in DOMAIN messages
    BY <1>1, <1>2, <1>3, <1>5
  <2>2. i + k < Len(messages)
    <3>1. CASE i + k = Len(messages)
      BY <1>5, <2>1, <3>1 DEF Settled
    <3> QED BY <2>1, <1>2, <3>1
  <2>i. i \in Nat /\ i >= 1
    BY <2>1
  <2>3. i + 1 \in 1 .. Len(t) - 1 /\ (i + 1) + k = (i + k) + 1
    BY <1>2, <2>i, <2>2
  <2>4. t[i + 1] = messages[(i + k) + 1]
    BY <1>1, <2>3
  <2> QED BY <1>5, <2>1, <2>2, <2>4 DEF Settled, Paired
<1>6. t # <<>> /\ Len(t) <= HistoryMax
  BY <1>1, <1>2
<1> QED BY <1>1, <1>4, <1>5, <1>6 DEF Awaits, Paired, t, msg

LEMMA AnswerNoted ==
  ASSUME NEW messages \in Seq(RagMessages), Len(messages) <= HistoryMax, NEW q \in Nat, Awaits(messages, q)
  PROVE  LET t == AddMessage(messages, Said("assistant", q)) IN
         /\ t \in Seq(RagMessages) /\ Len(t) <= HistoryMax
         /\ Settled(t) /\ OlderThan(t, q + 1)
<1> DEFINE msg == Said("assistant", q)
           t == AddMessage(messages, msg)
           k == Len(messages) + 1 - Len(t)
<1>0. msg \in RagMessages /\ msg.role = "assistant" /\ msg.q = q
  BY DEF Said, RagMessages
<1>1. /\ t \in Seq(RagMessages) /\ Len(t) \in 1 .. HistoryMax /\ t[Len(t)] = msg
      /\ Len(t) <= Len(messages) + 1
      /\ \A i \in 1 .. Len(t) - 1 : t[i] = messages[i + k]
  BY <1>0, MessageAdded
<1>m. msg = Said("assistant", q)
  OBVIOUS
<1> HIDE DEF t, msg
<1>2. Len(t) \in Nat /\ Len(messages) \in Nat /\ k \in Nat /\ k = Len(messages) + 1 - Len(t) /\ HistoryMax \in Nat
  BY <1>1, RagAssumption
<1> HIDE DEF k
<1>3. \A i \in 1 .. Len(t) - 1 : i + k \in 1 .. Len(messages)
  BY <1>2
<1>a. messages[Len(messages)] = Said("user", q) /\ \A i \in 1 .. Len(messages) - 1 : messages[i].q < q
  BY DEF Awaits
<1>b. Said("user", q).q = q /\ Said("user", q).role = "user"
  BY DEF Said
<1>n. \A i \in 1 .. Len(messages) : messages[i].q \in Nat
  <2>1. \A i \in 1 .. Len(messages) : messages[i] \in RagMessages
    OBVIOUS
  <2> QED BY <2>1 DEF RagMessages
<1>4. \A i \in DOMAIN t : t[i].q < q + 1
  <2> TAKE i \in DOMAIN t
  <2>1. CASE i = Len(t)
    BY <1>0, <1>1, <2>1
  <2>2. CASE i # Len(t)
    <3>1. i \in 1 .. Len(t) - 1 /\ t[i] = messages[i + k] /\ i + k \in 1 .. Len(messages)
      BY <1>1, <1>2, <1>3, <2>2
    <3>2. CASE i + k = Len(messages)
      BY <1>a, <1>b, <3>1, <3>2
    <3>3. CASE i + k # Len(messages)
      <4>1. i + k \in 1 .. Len(messages) - 1
        BY <1>2, <3>1, <3>3
      <4>2. messages[i + k].q < q /\ messages[i + k].q \in Nat
        BY <1>a, <1>n, <3>1, <4>1
      <4> QED BY <3>1, <4>2
    <3> QED BY <3>2, <3>3
  <2> QED BY <2>1, <2>2
<1>5. ASSUME NEW i \in DOMAIN t, t[i].role = "user", i < Len(t) PROVE t[i + 1] = Said("assistant", t[i].q)
  <2>1. i \in 1 .. Len(t) - 1 /\ t[i] = messages[i + k] /\ i + k \in 1 .. Len(messages)
    BY <1>1, <1>2, <1>3, <1>5
  <2>2. CASE i + k = Len(messages)
    <3>1. i + 1 = Len(t)
      BY <1>2, <2>1, <2>2
    <3> QED BY <1>1, <1>m, <1>a, <1>b, <2>1, <2>2, <3>1
  <2>3. CASE i + k # Len(messages)
    <3>1. i + k < Len(messages) /\ i + 1 \in 1 .. Len(t) - 1 /\ (i + 1) + k = (i + k) + 1
      BY <1>2, <2>1, <2>3
    <3>2. t[i + 1] = messages[(i + k) + 1]
      BY <1>1, <3>1
    <3> QED BY <1>5, <2>1, <3>1, <3>2 DEF Awaits, Paired
  <2> QED BY <2>2, <2>3
<1>6. Len(t) <= HistoryMax /\ t[Len(t)].role = "assistant"
  BY <1>0, <1>1, <1>2
<1> QED BY <1>1, <1>4, <1>5, <1>6 DEF Settled, OlderThan, Paired, t, msg

LEMMA RoundNoted ==
  ASSUME NEW messages \in Seq(RagMessages), Len(messages) <= HistoryMax, NEW q \in Nat,
         Settled(messages), OlderThan(messages, q)
  PROVE  /\ AddRound(messages, q) \in Seq(RagMessages) /\ Len(AddRound(messages, q)) <= HistoryMax
         /\ Settled(AddRound(messages, q)) /\ OlderThan(AddRound(messages, q), q + 1)
<1> DEFINE half == AddMessage(messages, Said("user", q))
<1>1. half \in Seq(RagMessages) /\ Len(half) <= HistoryMax /\ Awaits(half, q)
  BY QuestionNoted
<1>2. AddRound(messages, q) = AddMessage(half, Said("assistant", q))
  BY DEF AddRound
<1> HIDE DEF half
<1> QED BY <1>1, <1>2, AnswerNoted

(* In any memory, the shape of what addMessage leaves.                     *)
LEMMA NotedInShape ==
  ASSUME NEW messages \in Seq(RagMessages), Len(messages) <= HistoryMax, NEW q \in Nat,
         NEW role \in {"user", "assistant"}
  PROVE  /\ AddMessage(messages, Said(role, q)) \in Seq(RagMessages)
         /\ Len(AddMessage(messages, Said(role, q))) <= HistoryMax
<1>1. Said(role, q) \in RagMessages
  BY DEF Said, RagMessages
<1> QED BY <1>1, MessageAdded, RagAssumption

LEMMA RagPreserved ==
  ASSUME RagInv, [RagNext]_ragVars PROVE RagInv'
<1> USE RagAssumption DEF RagInv
<1>i. RagIdle \in RagCalls /\ RagIdle.pc = "idle"
  BY DEF RagCalls, RagIdle
<1>b. ASSUME NEW o \in RagOps, Asking(o)
      PROVE  ragOp[o] \in RagCalls \ {RagIdle} /\ ragOp[o].q \in Nat
  BY <1>b, <1>i DEF RagShape, RagCalls, Asking
<1>n. ragAsked \in Nat /\ talk \in Seq(RagMessages) /\ Len(talk) <= HistoryMax /\ ragRaced \in BOOLEAN
  BY DEF RagShape
(* The request of o ends and leaves a memory in which nothing waits.       *)
<1>e. ASSUME NEW o \in RagOps, Asking(o), ragOp' = [ragOp EXCEPT ![o] = RagIdle], UNCHANGED ragAsked,
             talk' \in Seq(RagMessages), Len(talk') <= HistoryMax, ragRaced' \in BOOLEAN,
             ~ragRaced' => ~ragRaced,
             ~ragRaced' => Settled(talk') /\ OlderThan(talk', ragAsked + 1)
      PROVE  RagInv'
  <2>1. \A p \in RagOps : ragOp'[p] = IF p = o THEN RagIdle ELSE ragOp[p]
    BY <1>e DEF RagShape
  <2>2. RagShape'
    BY <1>e, <1>i DEF RagShape
  <2>3. ASSUME ~ragRaced' PROVE OneAsks'
    <3>1. \A p \in RagOps : ragOp'[p] = RagIdle
      BY <1>e, <1>i, <2>1, <2>3 DEF OneAsks, RagShape, RagCalls, Asking
    <3>2. Settled(talk)' /\ OlderThan(talk, ragAsked + 1)'
      BY <1>e, <2>3 DEF Settled, OlderThan, Paired
    <3> QED BY <1>i, <3>1, <3>2 DEF OneAsks, Asking, Noted
  <2> QED BY <2>2, <2>3
(* The request of o goes on.                                               *)
<1>g. ASSUME NEW o \in RagOps, Asking(o), NEW op \in RagCalls \ {RagIdle}, ragOp' = [ragOp EXCEPT ![o] = op],
             op.q = ragOp[o].q, op.pc # "retrieve", UNCHANGED ragAsked,
             talk' \in Seq(RagMessages), Len(talk') <= HistoryMax, ragRaced' \in BOOLEAN,
             ~ragRaced' => ~ragRaced,
             ~ragRaced' /\ op.stream => Awaits(talk', ragAsked),
             ~ragRaced' /\ ~op.stream => Settled(talk') /\ OlderThan(talk', ragAsked),
             ~ragRaced' /\ op.pc = "answer" => Paired(op.prompt) /\ OlderThan(op.prompt, op.q)
      PROVE  RagInv'
  <2>1. \A p \in RagOps : ragOp'[p] = IF p = o THEN op ELSE ragOp[p]
    BY <1>g DEF RagShape
  <2>2. RagShape'
    BY <1>g DEF RagShape
  <2>c. op.pc \in {"compress", "answer"}
    BY <1>g DEF RagCalls
  <2>3. ASSUME ~ragRaced' PROVE OneAsks'
    <3>1. \A p \in RagOps : Asking(p)' <=> p = o
      BY <1>g, <2>1, <2>3, <2>c DEF OneAsks, Asking
    <3>2. Asking(o)' /\ (Noted(o)' <=> op.stream) /\ ragOp'[o] = op /\ op.q = ragAsked
      BY <1>g, <2>1, <2>3, <2>c DEF OneAsks, Asking, Noted
    <3>3. \A p \in RagOps : Noted(p)' => p = o
      BY <3>1 DEF Noted, Asking
    <3>4. \A p \in RagOps : (ragOp'[p].pc = "answer") => p = o
      BY <3>1 DEF Asking
    <3>5. op.stream => Awaits(talk, ragAsked)'
      BY <1>g, <2>3 DEF Awaits, Paired
    <3>6. ~op.stream => Settled(talk)' /\ OlderThan(talk, ragAsked)'
      BY <1>g, <2>3 DEF Settled, Paired, OlderThan
    <3>7. op.pc = "answer" => Paired(op.prompt) /\ OlderThan(op.prompt, op.q)
      BY <1>g, <2>3
    <3>8. \A p \in RagOps : ragOp'[p].pc = "answer" => (Paired(ragOp[p].prompt) /\ OlderThan(ragOp[p].prompt, ragOp[p].q))'
      BY <3>2, <3>4, <3>7 DEF Paired, OlderThan
    <3>9. \A p \in RagOps : Asking(p)' => ragOp'[p].q = ragAsked'
      BY <1>g, <3>1, <3>2
    <3> QED BY <3>1, <3>2, <3>3, <3>5, <3>6, <3>8, <3>9 DEF OneAsks
  <2> QED BY <2>2, <2>3
<1>1. CASE UNCHANGED ragVars
  <2>1. OneAsks => OneAsks'
    BY <1>1 DEF ragVars, OneAsks, Asking, Noted, Settled, Awaits, OlderThan, Paired
  <2> QED BY <1>1, <2>1 DEF ragVars, RagShape
<1>2. CASE ClearRag
  <2>1. /\ talk' = <<>> /\ UNCHANGED <<ragOp, ragAsked>>
        /\ ragRaced' = (ragRaced \/ \E o \in RagOps : Asking(o))
    BY <1>2 DEF ClearRag, Asking
  <2>2. talk' \in Seq(RagMessages) /\ Len(talk') = 0 /\ DOMAIN talk' = {}
    BY <2>1
  <2>3. RagShape'
    BY <2>1, <2>2 DEF RagShape
  <2>4. ASSUME ~ragRaced' PROVE OneAsks'
    <3>1. \A o \in RagOps : ~Asking(o)
      BY <2>1, <2>4
    <3>2. \A o \in RagOps : ~Asking(o)' /\ ~Noted(o)' /\ ragOp'[o].pc # "answer"
      BY <2>1, <3>1 DEF Asking, Noted
    <3>3. Settled(talk)' /\ OlderThan(talk, ragAsked + 1)'
      BY <2>1, <2>2 DEF Settled, OlderThan, Paired
    <3> QED BY <3>2, <3>3 DEF OneAsks
  <2> QED BY <2>3, <2>4
<1>3. ASSUME NEW o \in RagOps, AskRag(o) PROVE RagInv'
  <2>1. PICK stream \in BOOLEAN :
          ragOp' = [ragOp EXCEPT ![o] =
            [pc |-> "retrieve", q |-> ragAsked + 1, stream |-> stream, before |-> talk, prompt |-> <<>>]]
    BY <1>3 DEF AskRag
  <2> DEFINE op == [pc |-> "retrieve", q |-> ragAsked + 1, stream |-> stream, before |-> talk, prompt |-> <<>>]
  <2>2. /\ ragOp[o] = RagIdle /\ ragAsked < RagAskMax /\ ragAsked' = ragAsked + 1 /\ UNCHANGED talk
        /\ ragRaced' = (ragRaced \/ OthersAsk(o))
    BY <1>3 DEF AskRag
  <2>3. op \in RagCalls /\ op.pc = "retrieve" /\ op.q = ragAsked + 1
    BY <1>n DEF RagCalls
  <2>4. ragOp' = [ragOp EXCEPT ![o] = op]
    BY <2>1
  <2> HIDE DEF op
  <2>5. \A p \in RagOps : ragOp'[p] = IF p = o THEN op ELSE ragOp[p]
    BY <2>4 DEF RagShape
  <2>6. RagShape'
    <3>1. ragAsked' \in 0 .. RagAskMax
      BY <1>n, <2>2
    <3> QED BY <2>2, <2>3, <2>4, <3>1 DEF RagShape, OthersAsk
  <2>7. ASSUME ~ragRaced' PROVE OneAsks'
    <3>1. \A p \in RagOps : ~Asking(p)
      BY <1>i, <2>2, <2>7 DEF OthersAsk, Asking
    <3>2. Settled(talk) /\ OlderThan(talk, ragAsked + 1)
      BY <2>2, <2>7, <3>1 DEF OneAsks
    <3>3. \A p \in RagOps : /\ Asking(p)' <=> p = o
                            /\ ~Noted(p)' /\ ragOp'[p].pc # "answer"
      BY <2>3, <2>5, <3>1 DEF Asking, Noted
    <3>4. Settled(talk)' /\ OlderThan(talk, ragAsked)'
      BY <2>2, <3>2 DEF Settled, Paired, OlderThan
    <3> QED BY <2>2, <2>3, <2>5, <3>3, <3>4 DEF OneAsks
  <2> QED BY <2>6, <2>7
<1>4. ASSUME NEW o \in RagOps, Retrieved(o) PROVE RagInv'
  <2> DEFINE op == ragOp[o]
             to == [op EXCEPT !.pc = "compress"]
  <2>1. op.pc = "retrieve" /\ Asking(o) /\ UNCHANGED ragAsked /\ op \in RagCalls \ {RagIdle} /\ op.q \in Nat
    BY <1>4, <1>b DEF Retrieved, Asking
  <2>2. to \in RagCalls \ {RagIdle} /\ to.q = op.q /\ to.stream = op.stream /\ to.pc = "compress"
    <3>1. to \in RagCalls /\ to.q = op.q /\ to.stream = op.stream /\ to.pc = "compress"
      BY <2>1 DEF RagCalls
    <3> QED BY <1>i, <3>1
  <2>3. ~ragRaced => op.q = ragAsked /\ Settled(talk) /\ OlderThan(talk, ragAsked)
    BY <2>1 DEF OneAsks, Noted
  <2>4. PICK hitAny \in BOOLEAN :
          \/ /\ op.stream /\ talk' = AddMessage(talk, Said("user", op.q))
             /\ ragOp' = [ragOp EXCEPT ![o] = IF hitAny THEN to ELSE RagIdle]
             /\ ragRaced' = (ragRaced \/ ~hitAny)
          \/ /\ ~op.stream /\ hitAny /\ ragOp' = [ragOp EXCEPT ![o] = to] /\ UNCHANGED <<talk, ragRaced>>
          \/ /\ ~op.stream /\ ~hitAny /\ talk' = AddRound(talk, op.q)
             /\ ragOp' = [ragOp EXCEPT ![o] = RagIdle] /\ UNCHANGED ragRaced
    BY <1>4 DEF Retrieved, RagShape
  <2>5. CASE /\ op.stream /\ talk' = AddMessage(talk, Said("user", op.q))
             /\ ragOp' = [ragOp EXCEPT ![o] = IF hitAny THEN to ELSE RagIdle]
             /\ ragRaced' = (ragRaced \/ ~hitAny)
    <3>1. talk' \in Seq(RagMessages) /\ Len(talk') <= HistoryMax
      BY <1>n, <2>1, <2>5, NotedInShape
    <3>2. CASE hitAny
      <4>1. ragRaced' = ragRaced /\ ragOp' = [ragOp EXCEPT ![o] = to]
        BY <1>n, <2>5, <3>2
      <4>2. ~ragRaced => Awaits(talk', ragAsked)
        BY <1>n, <2>3, <2>5, QuestionNoted
      <4> HIDE DEF to
      <4> QED BY <1>g, <1>n, <2>1, <2>2, <2>5, <3>1, <4>1, <4>2
    <3>3. CASE ~hitAny
      <4>1. ragRaced' = TRUE /\ ragOp' = [ragOp EXCEPT ![o] = RagIdle]
        BY <2>5, <3>3
      <4> QED BY <1>e, <2>1, <3>1, <4>1
    <3> QED BY <3>2, <3>3
  <2>6. CASE ~op.stream /\ hitAny /\ ragOp' = [ragOp EXCEPT ![o] = to] /\ UNCHANGED <<talk, ragRaced>>
    <3> HIDE DEF to
    <3> QED BY <1>g, <1>n, <2>1, <2>2, <2>3, <2>6
  <2>7. CASE /\ ~op.stream /\ ~hitAny /\ talk' = AddRound(talk, op.q)
             /\ ragOp' = [ragOp EXCEPT ![o] = RagIdle] /\ UNCHANGED ragRaced
    <3>1. talk' \in Seq(RagMessages) /\ Len(talk') <= HistoryMax
      <4>1. /\ AddMessage(talk, Said("user", op.q)) \in Seq(RagMessages)
            /\ Len(AddMessage(talk, Said("user", op.q))) <= HistoryMax
        BY <1>n, <2>1, NotedInShape
      <4> QED BY <2>1, <2>7, <4>1, NotedInShape DEF AddRound
    <3>2. ~ragRaced => Settled(talk') /\ OlderThan(talk', ragAsked + 1)
      BY <1>n, <2>3, <2>7, RoundNoted
    <3> QED BY <1>e, <1>n, <2>1, <2>7, <3>1, <3>2
  <2> QED BY <2>4, <2>5, <2>6, <2>7
<1>5. ASSUME NEW o \in RagOps, Compressed(o) PROVE RagInv'
  <2> DEFINE op == ragOp[o]
             at == [op EXCEPT !.pc = "answer"]
             to == [at EXCEPT !.prompt = PromptHistory(op)]
  <2>1. op.pc = "compress" /\ Asking(o) /\ UNCHANGED <<talk, ragAsked, ragRaced>> /\ op \in RagCalls \ {RagIdle}
    BY <1>5, <1>b DEF Compressed, Asking
  <2>2. ragOp' = [ragOp EXCEPT ![o] = to]
    BY <1>5 DEF Compressed
  <2>3. PromptHistory(op) \in Seq(RagMessages)
    <3>1. talk # <<>> => SubSeq(talk, 1, Len(talk) - 1) \in Seq(RagMessages)
      BY <1>n
    <3> QED BY <1>n, <3>1 DEF PromptHistory, WithoutLast, Front
  <2>4. at \in RagCalls \ {RagIdle} /\ at.q = op.q /\ at.stream = op.stream /\ at.pc = "answer"
    <3>1. at \in RagCalls /\ at.q = op.q /\ at.stream = op.stream /\ at.pc = "answer"
      BY <2>1 DEF RagCalls
    <3> QED BY <1>i, <3>1
  <2> HIDE DEF at
  <2>5. /\ to \in RagCalls \ {RagIdle} /\ to.q = op.q /\ to.stream = op.stream /\ to.pc = "answer"
        /\ to.prompt = PromptHistory(op)
    <3>1. /\ to \in RagCalls /\ to.q = op.q /\ to.stream = op.stream /\ to.pc = "answer"
          /\ to.prompt = PromptHistory(op)
      BY <2>3, <2>4 DEF RagCalls, RagIdle
    <3> QED BY <1>i, <3>1
  <2> HIDE DEF to
  <2>6. ASSUME ~ragRaced, op.stream
        PROVE  /\ op.q = ragAsked /\ Awaits(talk, ragAsked)
               /\ Paired(PromptHistory(op)) /\ OlderThan(PromptHistory(op), ragAsked)
    <3>1. op.q = ragAsked /\ Awaits(talk, ragAsked)
      BY <2>1, <2>6 DEF OneAsks, Noted
    <3> DEFINE front == SubSeq(talk, 1, Len(talk) - 1)
    <3>2. PromptHistory(op) = front
      BY <2>6, <3>1 DEF PromptHistory, WithoutLast, Front, Awaits
    <3>3. /\ Len(talk) \in Nat /\ Len(talk) >= 1 /\ Len(front) = Len(talk) - 1
          /\ \A i \in 1 .. Len(talk) - 1 : front[i] = talk[i]
      <4>1. talk # <<>>
        BY <3>1 DEF Awaits
      <4>2. Len(talk) \in Nat /\ Len(talk) >= 1
        BY <1>n, <4>1
      <4>3. Len(talk) - 1 \in 0 .. Len(talk)
        BY <4>2
      <4>4. Len(front) = Len(talk) - 1
        <5>1. \A i \in 1 .. Len(talk) - 1 : talk[i] \in RagMessages
          BY <1>n, <4>2
        <5>2. Len(front) = IF 1 <= Len(talk) - 1 THEN (Len(talk) - 1) - 1 + 1 ELSE 0
          BY <4>2, <5>1, SubSeqProperties
        <5> QED BY <4>2, <5>2
      <4>5. \A i \in 1 .. Len(talk) - 1 : front[i] = talk[i]
        BY <1>n, <4>2, <4>3
      <4> QED BY <4>2, <4>4, <4>5
    <3>4. DOMAIN front = 1 .. Len(talk) - 1
      BY <1>n, <3>3
    <3> HIDE DEF front
    <3>5. OlderThan(front, ragAsked)
      BY <3>1, <3>3, <3>4 DEF Awaits, OlderThan
    <3>6. ASSUME NEW i \in DOMAIN front, front[i].role = "user", i < Len(front)
          PROVE  front[i + 1] = Said("assistant", front[i].q)
      <4>1. i \in DOMAIN talk /\ i + 1 \in 1 .. Len(talk) - 1 /\ i < Len(talk)
        BY <1>n, <3>3, <3>4, <3>6
      <4> QED BY <3>1, <3>3, <3>4, <3>6, <4>1 DEF Awaits, Paired
    <3> QED BY <3>1, <3>2, <3>5, <3>6 DEF Paired
  <2>7. ASSUME ~ragRaced, ~op.stream
        PROVE  /\ op.q = ragAsked /\ Settled(talk) /\ OlderThan(talk, ragAsked)
               /\ PromptHistory(op) = talk
    BY <2>1, <2>7 DEF OneAsks, Noted, PromptHistory
  <2>8. ~ragRaced => Paired(to.prompt) /\ OlderThan(to.prompt, to.q)
    BY <2>5, <2>6, <2>7 DEF Settled
  <2> HIDE DEF op
  <2> QED BY <1>g, <1>n, <2>1, <2>2, <2>5, <2>6, <2>7, <2>8 DEF op
<1>6. ASSUME NEW o \in RagOps, RagAnswers(o) PROVE RagInv'
  <2> DEFINE op == ragOp[o]
  <2>1. /\ op.pc = "answer" /\ Asking(o) /\ UNCHANGED <<ragAsked, ragRaced>> /\ op.q \in Nat
        /\ ragOp' = [ragOp EXCEPT ![o] = RagIdle]
    BY <1>6, <1>b DEF RagAnswers, Asking
  <2>2. talk' = IF op.stream THEN AddMessage(talk, Said("assistant", op.q)) ELSE AddRound(talk, op.q)
    BY <1>6 DEF RagAnswers
  <2>3. talk' \in Seq(RagMessages) /\ Len(talk') <= HistoryMax
    <3>1. \A role \in {"user", "assistant"} :
            /\ AddMessage(talk, Said(role, op.q)) \in Seq(RagMessages)
            /\ Len(AddMessage(talk, Said(role, op.q))) <= HistoryMax
      BY <1>n, <2>1, NotedInShape
    <3>2. AddRound(talk, op.q) \in Seq(RagMessages) /\ Len(AddRound(talk, op.q)) <= HistoryMax
      BY <2>1, <3>1, NotedInShape DEF AddRound
    <3> QED BY <2>2, <3>1, <3>2
  <2>4. ~ragRaced => Settled(talk') /\ OlderThan(talk', ragAsked + 1)
    <3>1. CASE op.stream
      <4>1. ~ragRaced => op.q = ragAsked /\ Awaits(talk, ragAsked)
        BY <2>1, <3>1 DEF OneAsks, Noted
      <4> QED BY <1>n, <2>2, <3>1, <4>1, AnswerNoted
    <3>2. CASE ~op.stream
      <4>1. ~ragRaced => op.q = ragAsked /\ Settled(talk) /\ OlderThan(talk, ragAsked)
        BY <2>1, <3>2 DEF OneAsks, Noted
      <4> QED BY <1>n, <2>2, <3>2, <4>1, RoundNoted
    <3> QED BY <3>1, <3>2
  <2> QED BY <1>e, <1>n, <2>1, <2>3, <2>4
<1>7. ASSUME NEW o \in RagOps, RagFails(o) PROVE RagInv'
  <2>1. /\ Asking(o) /\ ragOp' = [ragOp EXCEPT ![o] = RagIdle] /\ UNCHANGED <<talk, ragAsked>>
        /\ ragRaced' = (ragRaced \/ (ragOp[o].stream /\ ragOp[o].pc \in {"compress", "answer"}))
    BY <1>7 DEF RagFails, Asking
  <2>2. ragRaced' \in BOOLEAN /\ (~ragRaced' => ~ragRaced)
    BY <1>n, <2>1
  <2>3. ASSUME ~ragRaced' PROVE Settled(talk) /\ OlderThan(talk, ragAsked + 1)
    <3>1. ~ragRaced /\ ~Noted(o)
      BY <2>1, <2>3 DEF Noted
    <3>2. Settled(talk) /\ OlderThan(talk, ragAsked)
      BY <2>1, <3>1 DEF OneAsks
    <3>3. \A i \in DOMAIN talk : talk[i].q \in Nat
      <4>1. \A i \in DOMAIN talk : talk[i] \in RagMessages
        BY <1>n
      <4> QED BY <4>1 DEF RagMessages
    <3> QED BY <1>n, <3>2, <3>3 DEF OlderThan
  <2> QED BY <1>e, <1>n, <2>1, <2>2, <2>3
<1> QED BY <1>1, <1>2, <1>3, <1>4, <1>5, <1>6, <1>7 DEF RagNext

LEMMA RagAgrees ==
  ASSUME RagInv PROVE RagTypeOK /\ HistoryUnlessRaced
<1>1. RagTypeOK
  BY DEF RagInv, RagShape, RagCalls, RagIdle, RagTypeOK
<1>2. ASSUME ~ragRaced
      PROVE  /\ Paired(talk)
             /\ \A o \in RagOps : ragOp[o].pc = "answer" =>
                  /\ Paired(ragOp[o].prompt)
                  /\ \A i \in DOMAIN ragOp[o].prompt : ragOp[o].prompt[i].q # ragOp[o].q
  <2>1. OneAsks
    BY <1>2 DEF RagInv
  <2>2. Paired(talk)
    BY <2>1 DEF OneAsks, Settled, Awaits
  <2>3. ASSUME NEW o \in RagOps, ragOp[o].pc = "answer"
        PROVE  /\ Paired(ragOp[o].prompt)
               /\ \A i \in DOMAIN ragOp[o].prompt : ragOp[o].prompt[i].q # ragOp[o].q
    <3>1. ragOp[o].prompt \in Seq(RagMessages) /\ ragOp[o].q \in Nat
      BY <2>3 DEF RagInv, RagShape, RagCalls, RagIdle
    <3>2. \A i \in DOMAIN ragOp[o].prompt : ragOp[o].prompt[i] \in RagMessages
      BY <3>1
    <3>3. \A i \in DOMAIN ragOp[o].prompt : ragOp[o].prompt[i].q \in Nat
      BY <3>2 DEF RagMessages
    <3>4. Paired(ragOp[o].prompt) /\ OlderThan(ragOp[o].prompt, ragOp[o].q)
      BY <2>1, <2>3 DEF OneAsks
    <3> QED BY <3>1, <3>3, <3>4 DEF OlderThan
  <2> QED BY <2>2, <2>3
<1> QED BY <1>1, <1>2 DEF HistoryUnlessRaced

-----------------------------------------------------------------------------
LEMMA SeqOfFun ==
  ASSUME NEW S, NEW n \in Nat, NEW f \in [1 .. n -> S]
  PROVE  f \in Seq(S) /\ Len(f) = n
<1>1. f \in Seq(S)
  BY SeqDef
<1>2. Len(f) \in Nat /\ DOMAIN f = 1 .. Len(f)
  BY <1>1, LenProperties
<1>3. 1 .. Len(f) = 1 .. n
  BY <1>2
<1> QED BY <1>1, <1>2, <1>3

(* The agent: events count what the calls of the last message have done,   *)
(* and every step that may still start tools has its calls left to start.  *)
CallRows == [tool : ToolNames, state : {"waiting", "started", "settled"}]
AgentRuns ==
  [pc : {"new", "agent", "tools", "end", "trace", "closed"}, key : BOOLEAN, steps : Nat, calls : Seq(CallRows), threw : Nat]
InState(called, state) == {i \in DOMAIN called : called[i].state = state}

AgentShape ==
  /\ agent \in AgentRuns /\ agentSent \in [AgentEvents -> Nat]
  /\ agent.steps <= MaxSteps /\ Len(agent.calls) <= CallsPerTurn
Accounted == agentSent["tool_call"] = agentSent["tool_result"] + agent.threw + Cardinality(UnderWay)
StepsLeft ==
  agent.pc \in {"new", "agent", "tools"} =>
    /\ agent.steps < MaxSteps
    /\ agentSent["tool_call"] + Cardinality(InState(agent.calls, "waiting")) <= agent.steps * CallsPerTurn
RunEnds ==
  /\ agent.pc \in {"new", "agent"} => agent.calls = <<>>
  /\ agent.pc \notin {"trace", "closed"} => agentSent["done"] = 0
  /\ agent.pc # "closed" => agentSent["error"] = 0
  /\ agentSent["done"] <= 1 /\ agentSent["error"] <= 1
  /\ agent.pc \in {"end", "trace"} \/ agentSent["done"] > 0 => UnderWay = {} /\ (agent.calls = <<>> \/ agent.steps = MaxSteps)
KeyedTools == \A i \in UnderWay : agent.calls[i].tool = "web_search" => agent.key
AgentInv ==
  /\ AgentShape /\ Accounted /\ StepsLeft /\ RunEnds /\ KeyedTools
  /\ agentSent["tool_call"] <= (MaxSteps - 1) * CallsPerTurn

LEMMA NoneInState == \A state : InState(<<>>, state) = {} /\ Cardinality({}) = 0
BY FS_EmptySet DEF InState

LEMMA InStateFinite ==
  ASSUME NEW called \in Seq(CallRows), NEW state
  PROVE  IsFiniteSet(InState(called, state)) /\ Cardinality(InState(called, state)) \in Nat
<1>1. Len(called) \in Nat /\ DOMAIN called = 1 .. Len(called)
  BY LenProperties
<1>2. IsFiniteSet(1 .. Len(called))
  BY <1>1, FS_Interval
<1> QED BY <1>1, <1>2, FS_Subset, FS_CardinalityType DEF InState

LEMMA StepsTimes ==
  ASSUME NEW k \in Nat, NEW n \in Nat, NEW c \in Nat, k < n
  PROVE  k * c <= (n - 1) * c /\ (k + 1) * c = k * c + c /\ k * c \in Nat
<1>1. PICK d \in Nat : n - 1 = k + d
  <2>1. n - 1 - k \in Nat /\ n - 1 = k + (n - 1 - k)
    OBVIOUS
  <2> QED BY <2>1
<1>2. (k + d) * c = k * c + d * c /\ d * c \in Nat /\ k * c \in Nat
  OBVIOUS
<1> QED BY <1>1, <1>2

(* A call goes on: it was waiting or under way, and is elsewhere after.    *)
Moves(later, called, i, state) ==
  /\ later \in Seq(CallRows) /\ DOMAIN later = DOMAIN called /\ Len(later) = Len(called)
  /\ later[i].tool = called[i].tool /\ later[i].state = state
  /\ \A j \in DOMAIN called \ {i} : later[j] = called[j]
LEMMA CalledMoves ==
  ASSUME NEW called \in Seq(CallRows), NEW i \in DOMAIN called
  PROVE  /\ Moves([called EXCEPT ![i].state = "started"], called, i, "started")
         /\ Moves([called EXCEPT ![i].state = "settled"], called, i, "settled")
<1> DEFINE c1 == [called[i] EXCEPT !.state = "started"]
           c2 == [called[i] EXCEPT !.state = "settled"]
<1>1. DOMAIN called = 1 .. Len(called) /\ called[i] \in CallRows
  BY LenProperties, ElementOfSeq
<1>2. /\ c1 \in CallRows /\ c1.tool = called[i].tool /\ c1.state = "started"
      /\ c2 \in CallRows /\ c2.tool = called[i].tool /\ c2.state = "settled"
  BY <1>1 DEF CallRows
<1>3. ASSUME NEW e \in CallRows
      PROVE  /\ [called EXCEPT ![i] = e] \in Seq(CallRows) /\ Len([called EXCEPT ![i] = e]) = Len(called)
             /\ DOMAIN [called EXCEPT ![i] = e] = DOMAIN called
             /\ \A j \in DOMAIN called : [called EXCEPT ![i] = e][j] = IF j = i THEN e ELSE called[j]
  BY <1>1, ExceptSeq
<1> HIDE DEF c1, c2
<1>4. Moves([called EXCEPT ![i] = c1], called, i, "started")
  BY <1>2, <1>3 DEF Moves
<1>5. Moves([called EXCEPT ![i] = c2], called, i, "settled")
  BY <1>2, <1>3 DEF Moves
<1> QED BY <1>4, <1>5 DEF c1, c2

LEMMA MovedInState ==
  ASSUME NEW called \in Seq(CallRows), NEW i \in DOMAIN called, NEW state, NEW later, Moves(later, called, i, state),
         called[i].state # state
  PROVE  /\ Cardinality(InState(later, state)) = Cardinality(InState(called, state)) + 1
         /\ Cardinality(InState(later, called[i].state)) = Cardinality(InState(called, called[i].state)) - 1
         /\ "waiting" \notin {state, called[i].state} => InState(later, "waiting") = InState(called, "waiting")
         /\ "started" \notin {state, called[i].state} => InState(later, "started") = InState(called, "started")
<1>1. /\ InState(later, state) = InState(called, state) \cup {i} /\ i \notin InState(called, state)
      /\ InState(later, called[i].state) = InState(called, called[i].state) \ {i} /\ i \in InState(called, called[i].state)
      /\ \A other : other \notin {state, called[i].state} => InState(later, other) = InState(called, other)
  BY DEF InState, Moves
<1>2. IsFiniteSet(InState(called, state)) /\ IsFiniteSet(InState(called, called[i].state))
  BY InStateFinite
<1>3. /\ Cardinality(InState(called, state) \cup {i}) = Cardinality(InState(called, state)) + 1
      /\ Cardinality(InState(called, called[i].state) \ {i}) = Cardinality(InState(called, called[i].state)) - 1
  BY <1>1, <1>2, FS_AddElement, FS_RemoveElement
<1> QED BY <1>1, <1>3

LEMMA AgentSends ==
  ASSUME agentSent \in [AgentEvents -> Nat], NEW types, AgentSend(types)
  PROVE  /\ agentSent' \in [AgentEvents -> Nat]
         /\ \A type \in AgentEvents : /\ type \in types => agentSent'[type] = agentSent[type] + 1
                                      /\ type \notin types => agentSent'[type] = agentSent[type]
BY DEF AgentSend

LEMMA AgentInitially ==
  ASSUME AgentInit PROVE AgentInv
<1>1. PICK key \in SearchKeys : agent = [pc |-> "new", key |-> key, steps |-> 0, calls |-> <<>>, threw |-> 0]
  BY DEF AgentInit
<1>2. agent \in AgentRuns /\ agent.pc = "new" /\ agent.steps = 0 /\ agent.threw = 0 /\ agent.calls = <<>>
  <2>1. <<>> \in Seq(CallRows) /\ key \in BOOLEAN
    BY AgentAssumption
  <2> QED BY <1>1, <2>1 DEF AgentRuns
<1>3. agentSent \in [AgentEvents -> Nat] /\ \A type \in AgentEvents : agentSent[type] = 0
  BY DEF AgentInit
<1>4. {"tool_call", "tool_result", "done", "error"} \subseteq AgentEvents
  BY DEF AgentEvents
<1>5. UnderWay = {} /\ Cardinality(UnderWay) = 0 /\ Cardinality(InState(agent.calls, "waiting")) = 0
  BY <1>2, NoneInState DEF UnderWay
<1>6. MaxSteps \in Nat \ {0} /\ CallsPerTurn \in Nat /\ 0 * CallsPerTurn = 0 /\ 0 <= (MaxSteps - 1) * CallsPerTurn
  <2>1. 0 < MaxSteps /\ MaxSteps \in Nat /\ CallsPerTurn \in Nat
    BY AgentAssumption
  <2>2. 0 * CallsPerTurn <= (MaxSteps - 1) * CallsPerTurn
    BY <2>1, StepsTimes
  <2> QED BY <2>1, <2>2
<1>7. AgentShape
  BY <1>2, <1>3, <1>6 DEF AgentShape
<1>8. Accounted /\ StepsLeft /\ RunEnds /\ KeyedTools
  BY <1>2, <1>3, <1>4, <1>5, <1>6 DEF Accounted, StepsLeft, RunEnds, KeyedTools
<1> QED BY <1>3, <1>4, <1>6, <1>7, <1>8 DEF AgentInv

LEMMA AgentPreserved ==
  ASSUME AgentInv, [AgentNext]_agentVars PROVE AgentInv'
<1>e. {"start", "tool_call", "tool_result", "token", "done", "error"} = AgentEvents
  BY DEF AgentEvents
<1>s. AgentShape /\ agent.steps \in Nat /\ agent.threw \in Nat /\ agent.calls \in Seq(CallRows) /\ agent.key \in BOOLEAN
      /\ agentSent \in [AgentEvents -> Nat] /\ \A type \in AgentEvents : agentSent[type] \in Nat
  BY DEF AgentInv, AgentShape, AgentRuns
<1>c. MaxSteps \in Nat /\ CallsPerTurn \in Nat /\ MaxSteps > 0
  BY AgentAssumption
<1>u. UnderWay = InState(agent.calls, "started") /\ UnderWay' = InState(agent'.calls, "started")
  BY DEF UnderWay, InState
<1>k. /\ Cardinality(InState(agent.calls, "started")) \in Nat /\ Cardinality(InState(agent.calls, "waiting")) \in Nat
      /\ agentSent["tool_call"] \in Nat /\ agentSent["tool_result"] \in Nat
  BY <1>e, <1>s, InStateFinite
<1>p. \A pc \in {"new", "agent", "tools", "end", "trace", "closed"} :
        LET to == [agent EXCEPT !.pc = pc] IN
        /\ to \in AgentRuns /\ to.pc = pc /\ to.steps = agent.steps /\ to.threw = agent.threw
        /\ to.calls = agent.calls /\ to.key = agent.key
  BY <1>s DEF AgentShape, AgentRuns
<1>r. \A calls \in Seq(CallRows) :
        /\ LET to == [agent EXCEPT !.calls = calls]
           IN /\ to \in AgentRuns /\ to.pc = agent.pc /\ to.steps = agent.steps /\ to.key = agent.key
              /\ to.threw = agent.threw /\ to.calls = calls
        /\ LET to == [agent EXCEPT !.calls = calls, !.threw = agent.threw + 1]
           IN /\ to \in AgentRuns /\ to.pc = agent.pc /\ to.steps = agent.steps /\ to.key = agent.key
              /\ to.threw = agent.threw + 1 /\ to.calls = calls
  <2>1. agent \in AgentRuns /\ agent.threw + 1 \in Nat
    BY <1>s DEF AgentShape
  <2> QED BY <2>1 DEF AgentRuns
\* Only the place changes, and what is sent is of no tool.
<1>q. ASSUME NEW pc \in {"agent", "trace", "closed"}, agent' = [agent EXCEPT !.pc = pc],
             NEW types, types \subseteq {"start", "token", "done", "error"}, AgentSend(types),
             pc = "agent" => agent.pc = "new", RunEnds'
      PROVE  AgentInv'
  <2>1. agentSent' \in [AgentEvents -> Nat] /\ agentSent'["tool_call"] = agentSent["tool_call"]
        /\ agentSent'["tool_result"] = agentSent["tool_result"]
    <3>1. "tool_call" \notin types /\ "tool_result" \notin types /\ "tool_call" \in AgentEvents /\ "tool_result" \in AgentEvents
      BY <1>e, <1>q
    <3> QED BY <1>q, <1>s, <3>1, AgentSends
  <2>2. agent' \in AgentRuns /\ agent'.pc = pc /\ agent'.steps = agent.steps /\ agent'.threw = agent.threw
        /\ agent'.calls = agent.calls /\ agent'.key = agent.key
    BY <1>p, <1>q
  <2>3. UnderWay' = UnderWay
    BY <1>u, <2>2
  <2>4. AgentShape'
    BY <1>s, <2>1, <2>2 DEF AgentShape
  <2>5. Accounted' /\ KeyedTools'
    BY <2>1, <2>2, <2>3 DEF AgentInv, Accounted, KeyedTools
  <2>6. StepsLeft'
    BY <1>q, <2>1, <2>2 DEF AgentInv, StepsLeft
  <2> QED BY <1>q, <2>1, <2>4, <2>5, <2>6 DEF AgentInv
<1>n. AgentSend({}) <=> UNCHANGED agentSent
  BY <1>s DEF AgentSend
\* One call of the message goes on.
<1>m. ASSUME NEW i, i \in DOMAIN agent.calls, agent.pc = "tools", NEW state \in {"started", "settled"},
             Moves(agent'.calls, agent.calls, i, state), agent.calls[i].state # state,
             agent' \in AgentRuns, agent'.pc = "tools", agent'.steps = agent.steps, agent'.key = agent.key,
             NEW types, AgentSend(types), "done" \notin types, "error" \notin types,
             Accounted', agentSent'["tool_call"] + Cardinality(InState(agent'.calls, "waiting")) <= agent.steps * CallsPerTurn,
             state = "started" => agent.calls[i].tool \in AgentTools(agent.key)
      PROVE  AgentInv'
  <2>1. agentSent' \in [AgentEvents -> Nat] /\ agentSent'["done"] = agentSent["done"] /\ agentSent'["error"] = agentSent["error"]
    BY <1>e, <1>m, <1>s, AgentSends
  <2>2. AgentShape' /\ agent'.calls \in Seq(CallRows)
    BY <1>m, <1>s, <2>1 DEF AgentShape, Moves
  <2>3. StepsLeft'
    BY <1>m DEF AgentInv, StepsLeft
  <2>4. RunEnds'
    BY <1>m, <2>1 DEF AgentInv, RunEnds
  <2>5. KeyedTools'
    <3>1. ASSUME NEW j \in InState(agent'.calls, "started"), agent'.calls[j].tool = "web_search" PROVE agent'.key
      <4>1. CASE j = i
        <5>1. state = "started" /\ agent.calls[i].tool = "web_search"
          BY <1>m, <3>1, <4>1 DEF InState, Moves
        <5> QED BY <1>m, <5>1 DEF AgentTools
      <4>2. CASE j # i
        <5>1. j \in InState(agent.calls, "started") /\ agent.calls[j].tool = "web_search"
          BY <1>m, <3>1, <4>2 DEF InState, Moves
        <5> QED BY <1>m, <1>u, <5>1 DEF AgentInv, KeyedTools
      <4> QED BY <4>1, <4>2
    <3> QED BY <1>u, <3>1 DEF KeyedTools
  <2>6. agentSent'["tool_call"] <= (MaxSteps - 1) * CallsPerTurn
    <3>1. agent.steps * CallsPerTurn <= (MaxSteps - 1) * CallsPerTurn /\ agent.steps * CallsPerTurn \in Nat
      BY <1>c, <1>m, <1>s, StepsTimes DEF AgentInv, StepsLeft
    <3>2. (MaxSteps - 1) * CallsPerTurn \in Int
      BY <1>c
    <3>3. Cardinality(InState(agent'.calls, "waiting")) \in Nat /\ agentSent'["tool_call"] \in Nat
      BY <1>e, <2>1, <2>2, InStateFinite
    <3> HIDE DEF AgentInv
    <3> QED BY <1>m, <3>1, <3>2, <3>3
  <2> QED BY <1>m, <2>2, <2>3, <2>4, <2>5, <2>6 DEF AgentInv
<1>1. CASE UNCHANGED agentVars
  BY <1>1 DEF agentVars, AgentInv, AgentShape, Accounted, StepsLeft, RunEnds, KeyedTools, UnderWay
<1>2. CASE RunAgent
  <2>1. agent.pc = "new" /\ agent.calls = <<>> /\ agentSent["done"] = 0 /\ agentSent["error"] = 0
    BY <1>2 DEF RunAgent, AgentInv, RunEnds
  <2>2. UnderWay = {}
    BY <1>u, <2>1, NoneInState
  <2>3. PICK pc \in {"agent", "closed"} : \E types \in {{"start"}, {"error"}, {}} :
          agent' = [agent EXCEPT !.pc = pc] /\ AgentSend(types) /\ (pc = "agent" => types = {"start"})
    <3>1. CASE agent' = [agent EXCEPT !.pc = "agent"] /\ AgentSend({"start"})
      BY <3>1
    <3>2. CASE agent' = [agent EXCEPT !.pc = "closed"] /\ AgentSend({"error"})
      BY <3>2
    <3>3. CASE agent' = [agent EXCEPT !.pc = "closed"] /\ UNCHANGED agentSent
      <4>1. AgentSend({})
        BY <1>n, <3>3
      <4> QED BY <3>3, <4>1
    <3> QED BY <1>2, <3>1, <3>2, <3>3 DEF RunAgent
  <2>4. PICK types \in {{"start"}, {"error"}, {}} :
          agent' = [agent EXCEPT !.pc = pc] /\ AgentSend(types) /\ (pc = "agent" => types = {"start"})
    BY <2>3
  <2>5. agentSent'["done"] = 0 /\ agentSent'["error"] \in {0, 1} /\ (pc = "agent" => agentSent'["error"] = 0)
    BY <1>e, <1>s, <2>1, <2>4, AgentSends
  <2>6. agent'.pc = pc /\ agent'.calls = <<>> /\ UnderWay' = {}
    BY <1>p, <1>u, <2>1, <2>2, <2>4
  <2>7. RunEnds'
    BY <2>5, <2>6 DEF RunEnds
  <2> QED BY <1>q, <2>1, <2>4, <2>7
<1>3. CASE AgentNode
  <2>1. PICK n \in 0 .. CallsPerTurn, told \in BOOLEAN : \E tools \in [1 .. n -> ToolNames] :
          /\ agent' = [agent EXCEPT !.steps = @ + 1,
                                    !.calls = [i \in 1 .. n |-> [tool |-> tools[i], state |-> "waiting"]],
                                    !.pc = IF ShouldContinue(agent.steps + 1, n) THEN "tools" ELSE "end"]
          /\ AgentSend(Spoken(told))
    BY <1>3 DEF AgentNode
  <2>2. PICK tools \in [1 .. n -> ToolNames] :
          agent' = [agent EXCEPT !.steps = @ + 1,
                                 !.calls = [i \in 1 .. n |-> [tool |-> tools[i], state |-> "waiting"]],
                                 !.pc = IF ShouldContinue(agent.steps + 1, n) THEN "tools" ELSE "end"]
    BY <2>1
  <2> DEFINE made == [i \in 1 .. n |-> [tool |-> tools[i], state |-> "waiting"]]
             pc == IF ShouldContinue(agent.steps + 1, n) THEN "tools" ELSE "end"
             k == agent.steps + 1
  <2>3. agent.pc = "agent" /\ agent.steps < MaxSteps /\ agent.calls = <<>> /\ agentSent["done"] = 0 /\ agentSent["error"] = 0
        /\ agentSent["tool_call"] <= agent.steps * CallsPerTurn
    <3>1. agent.pc = "agent" /\ agent.calls = <<>>
      BY <1>3 DEF AgentNode, AgentInv, RunEnds
    <3>2. Cardinality(InState(agent.calls, "waiting")) = 0
      BY <3>1, NoneInState
    <3>3. agentSent["tool_call"] + 0 <= agent.steps * CallsPerTurn /\ agent.steps < MaxSteps
      BY <3>1, <3>2 DEF AgentInv, StepsLeft
    <3> QED BY <1>k, <3>1, <3>3 DEF AgentInv, RunEnds
  <2>4. /\ made \in Seq(CallRows) /\ Len(made) = n /\ n \in Nat /\ n <= CallsPerTurn
        /\ InState(made, "waiting") = 1 .. n /\ InState(made, "started") = {} /\ (n = 0 => made = <<>>)
    <3>1. n \in Nat /\ n <= CallsPerTurn
      BY <1>c
    <3>2. made \in [1 .. n -> CallRows]
      BY DEF CallRows
    <3>3. made \in Seq(CallRows) /\ Len(made) = n
      BY <3>1, <3>2, SeqOfFun
    <3>4. InState(made, "waiting") = 1 .. n /\ InState(made, "started") = {}
      BY DEF InState
    <3>5. n = 0 => made = <<>>
      BY <3>3, EmptySeq
    <3> HIDE DEF made
    <3> QED BY <3>1, <3>3, <3>4, <3>5
  <2>5. /\ agent' \in AgentRuns /\ agent'.pc = pc /\ agent'.steps = k /\ agent'.calls = made /\ agent'.threw = agent.threw
        /\ agent'.key = agent.key
    <3>1. agent' = [agent EXCEPT !.steps = k, !.calls = made, !.pc = pc]
      BY <2>2
    <3>2. k \in Nat /\ pc \in {"tools", "end"} /\ made \in Seq(CallRows)
      BY <1>s, <2>4
    <3> HIDE DEF made, pc, k
    <3> QED BY <1>s, <3>1, <3>2 DEF AgentShape, AgentRuns
  <2>6. /\ agentSent' \in [AgentEvents -> Nat] /\ agentSent'["tool_call"] = agentSent["tool_call"]
        /\ agentSent'["tool_result"] = agentSent["tool_result"] /\ agentSent'["done"] = 0 /\ agentSent'["error"] = 0
    <3>1. "done" \notin Spoken(told) /\ "error" \notin Spoken(told) /\ "tool_call" \notin Spoken(told) /\ "tool_result" \notin Spoken(told)
      BY DEF Spoken
    <3> QED BY <1>e, <1>s, <2>1, <2>3, <3>1, AgentSends
  <2>7. UnderWay = {} /\ UnderWay' = {}
    BY <1>u, <2>3, <2>4, <2>5, NoneInState
  <2>8. k <= MaxSteps /\ k \in Nat /\ (pc = "tools" => k < MaxSteps) /\ pc \in {"tools", "end"} /\ (pc = "end" => n = 0 \/ k = MaxSteps)
    BY <1>c, <1>s, <2>3, <2>4 DEF ShouldContinue
  <2>9. Cardinality(1 .. n) = n
    BY <2>4, FS_Interval
  <2>10. agentSent["tool_call"] + n <= k * CallsPerTurn /\ agentSent["tool_call"] <= (MaxSteps - 1) * CallsPerTurn
    <3>1. /\ agent.steps * CallsPerTurn <= (MaxSteps - 1) * CallsPerTurn /\ k * CallsPerTurn = agent.steps * CallsPerTurn + CallsPerTurn
          /\ agent.steps * CallsPerTurn \in Nat
      BY <1>c, <1>s, <2>3, StepsTimes
    <3>2. (MaxSteps - 1) * CallsPerTurn \in Int
      BY <1>c
    <3> HIDE DEF k
    <3> QED BY <1>c, <1>k, <2>3, <2>4, <3>1, <3>2
  <2> HIDE DEF made, pc, k
  <2>11. AgentShape'
    BY <2>4, <2>5, <2>6, <2>8 DEF AgentShape
  <2>12. Accounted' /\ KeyedTools'
    BY <2>5, <2>6, <2>7 DEF AgentInv, Accounted, KeyedTools
  <2>13. StepsLeft'
    BY <2>4, <2>5, <2>6, <2>8, <2>9, <2>10 DEF StepsLeft
  <2>14. RunEnds'
    BY <2>4, <2>5, <2>6, <2>7, <2>8 DEF RunEnds
  <2> QED BY <2>6, <2>10, <2>11, <2>12, <2>13, <2>14 DEF AgentInv
<1>4. ASSUME NEW i \in 1 .. CallsPerTurn, RefuseCall(i) \/ StartTool(i) \/ ToolAnswers(i) \/ ToolThrows(i) PROVE AgentInv'
  <2>1. agent.pc = "tools" /\ i \in DOMAIN agent.calls
    BY <1>4 DEF RefuseCall, StartTool, ToolAnswers, ToolThrows, CallIs
  <2>2. agentSent["tool_call"] + Cardinality(InState(agent.calls, "waiting")) <= agent.steps * CallsPerTurn
        /\ agent.steps * CallsPerTurn \in Int
    BY <1>c, <1>s, <2>1 DEF AgentInv, StepsLeft
  <2>a. /\ agentSent["tool_call"] = agentSent["tool_result"] + agent.threw + Cardinality(InState(agent.calls, "started"))
        /\ agent.threw \in Nat
    BY <1>s, <1>u DEF AgentInv, Accounted
  <2> DEFINE settled == [agent.calls EXCEPT ![i].state = "settled"]
             started == [agent.calls EXCEPT ![i].state = "started"]
  <2>3. Moves(settled, agent.calls, i, "settled") /\ Moves(started, agent.calls, i, "started")
    BY <1>s, <2>1, CalledMoves
  <2>4. settled \in Seq(CallRows) /\ started \in Seq(CallRows)
    BY <2>3 DEF Moves
  <2>5. CASE RefuseCall(i)
    <3>1. agent.calls[i].state = "waiting" /\ agent' = [agent EXCEPT !.calls = settled] /\ AgentSend({})
      BY <1>n, <2>5 DEF RefuseCall, CallIs
    <3> HIDE DEF settled, started
    <3>2. agent' \in AgentRuns /\ agent'.pc = "tools" /\ agent'.steps = agent.steps /\ agent'.key = agent.key
          /\ agent'.threw = agent.threw /\ agent'.calls = settled
      BY <1>r, <2>1, <2>4, <3>1
    <3>3. /\ Cardinality(InState(settled, "waiting")) = Cardinality(InState(agent.calls, "waiting")) - 1
          /\ InState(settled, "started") = InState(agent.calls, "started")
      BY <1>s, <2>1, <2>3, <3>1, MovedInState
    <3>4. agentSent' = agentSent
      BY <1>n, <3>1
    <3>5. Accounted'
      BY <1>u, <2>a, <3>2, <3>3, <3>4 DEF Accounted
    <3>6. agentSent'["tool_call"] + Cardinality(InState(agent'.calls, "waiting")) <= agent.steps * CallsPerTurn
      BY <1>k, <2>2, <3>2, <3>3, <3>4
    <3> QED BY <1>m, <2>1, <2>3, <3>1, <3>2, <3>5, <3>6
  <2>6. CASE StartTool(i)
    <3>1. agent.calls[i].state = "waiting" /\ agent' = [agent EXCEPT !.calls = started] /\ AgentSend({"tool_call"})
          /\ agent.calls[i].tool \in AgentTools(agent.key)
      BY <2>6 DEF StartTool, CallIs
    <3> HIDE DEF settled, started
    <3>2. agent' \in AgentRuns /\ agent'.pc = "tools" /\ agent'.steps = agent.steps /\ agent'.key = agent.key
          /\ agent'.threw = agent.threw /\ agent'.calls = started
      BY <1>r, <2>1, <2>4, <3>1
    <3>3. /\ Cardinality(InState(started, "waiting")) = Cardinality(InState(agent.calls, "waiting")) - 1
          /\ Cardinality(InState(started, "started")) = Cardinality(InState(agent.calls, "started")) + 1
      BY <1>s, <2>1, <2>3, <3>1, MovedInState
    <3>4. agentSent'["tool_call"] = agentSent["tool_call"] + 1 /\ agentSent'["tool_result"] = agentSent["tool_result"]
      BY <1>e, <1>s, <3>1, AgentSends
    <3>5. Accounted'
      BY <1>k, <1>u, <2>a, <3>2, <3>3, <3>4 DEF Accounted
    <3>6. agentSent'["tool_call"] + Cardinality(InState(agent'.calls, "waiting")) <= agent.steps * CallsPerTurn
      BY <1>k, <2>2, <3>2, <3>3, <3>4
    <3> QED BY <1>m, <2>1, <2>3, <3>1, <3>2, <3>5, <3>6
  <2>7. CASE ToolAnswers(i)
    <3>1. PICK told \in BOOLEAN : AgentSend({"tool_result"} \cup Spoken(told))
      BY <2>7 DEF ToolAnswers
    <3>2. agent.calls[i].state = "started" /\ agent' = [agent EXCEPT !.calls = settled]
      BY <2>7 DEF ToolAnswers, CallIs
    <3> HIDE DEF settled, started
    <3> DEFINE types == {"tool_result"} \cup Spoken(told)
    <3>3. "tool_call" \notin types /\ "done" \notin types /\ "error" \notin types /\ "tool_result" \in types
      BY DEF Spoken
    <3> HIDE DEF types
    <3>4. agent' \in AgentRuns /\ agent'.pc = "tools" /\ agent'.steps = agent.steps /\ agent'.key = agent.key
          /\ agent'.threw = agent.threw /\ agent'.calls = settled
      BY <1>r, <2>1, <2>4, <3>2
    <3>5. /\ InState(settled, "waiting") = InState(agent.calls, "waiting")
          /\ Cardinality(InState(settled, "started")) = Cardinality(InState(agent.calls, "started")) - 1
      BY <1>s, <2>1, <2>3, <3>2, MovedInState
    <3>6. agentSent'["tool_call"] = agentSent["tool_call"] /\ agentSent'["tool_result"] = agentSent["tool_result"] + 1
      BY <1>e, <1>s, <3>1, <3>3, AgentSends DEF types
    <3>7. Accounted'
      <4>1. Cardinality(UnderWay') = Cardinality(InState(agent.calls, "started")) - 1
        BY <1>u, <3>4, <3>5
      <4> QED BY <1>k, <2>a, <3>4, <3>6, <4>1 DEF Accounted
    <3>8. agentSent'["tool_call"] + Cardinality(InState(agent'.calls, "waiting")) <= agent.steps * CallsPerTurn
      BY <2>2, <3>4, <3>5, <3>6
    <3>9. AgentSend(types)
      BY <3>1 DEF types
    <3> QED BY <1>m, <2>1, <2>3, <3>2, <3>3, <3>4, <3>7, <3>8, <3>9
  <2>8. CASE ToolThrows(i)
    <3>1. PICK told \in BOOLEAN : AgentSend(Spoken(told))
      BY <2>8 DEF ToolThrows
    <3>2. agent.calls[i].state = "started" /\ agent' = [agent EXCEPT !.calls = settled, !.threw = @ + 1]
      BY <2>8 DEF ToolThrows, CallIs
    <3> HIDE DEF settled, started
    <3> DEFINE types == Spoken(told)
    <3>3. "tool_call" \notin types /\ "done" \notin types /\ "error" \notin types /\ "tool_result" \notin types
      BY DEF Spoken
    <3> HIDE DEF types
    <3>4. agent' \in AgentRuns /\ agent'.pc = "tools" /\ agent'.steps = agent.steps /\ agent'.key = agent.key
          /\ agent'.threw = agent.threw + 1 /\ agent'.calls = settled
      BY <1>r, <2>1, <2>4, <3>2
    <3>5. /\ InState(settled, "waiting") = InState(agent.calls, "waiting")
          /\ Cardinality(InState(settled, "started")) = Cardinality(InState(agent.calls, "started")) - 1
      BY <1>s, <2>1, <2>3, <3>2, MovedInState
    <3>6. agentSent'["tool_call"] = agentSent["tool_call"] /\ agentSent'["tool_result"] = agentSent["tool_result"]
      BY <1>e, <1>s, <3>1, <3>3, AgentSends DEF types
    <3>7. Accounted'
      <4>1. Cardinality(UnderWay') = Cardinality(InState(agent.calls, "started")) - 1
        BY <1>u, <3>4, <3>5
      <4> QED BY <1>k, <2>a, <3>4, <3>6, <4>1 DEF Accounted
    <3>8. agentSent'["tool_call"] + Cardinality(InState(agent'.calls, "waiting")) <= agent.steps * CallsPerTurn
      BY <2>2, <3>4, <3>5, <3>6
    <3>9. AgentSend(types)
      BY <3>1 DEF types
    <3> QED BY <1>m, <2>1, <2>3, <3>2, <3>3, <3>4, <3>7, <3>8, <3>9
  <2> QED BY <1>4, <2>5, <2>6, <2>7, <2>8
<1>5. CASE ToolsReturn
  <2>1. /\ agent.pc = "tools" /\ agent' = [agent EXCEPT !.pc = "agent", !.calls = <<>>] /\ agentSent' = agentSent
        /\ \A i \in DOMAIN agent.calls : agent.calls[i].state = "settled"
    BY <1>5 DEF ToolsReturn
  <2>2. <<>> \in Seq(CallRows) /\ Len(<<>>) = 0 /\ Len(<<>>) <= CallsPerTurn
    BY <1>c
  <2>3. agent' \in AgentRuns /\ agent'.pc = "agent" /\ agent'.steps = agent.steps /\ agent'.threw = agent.threw
        /\ agent'.calls = <<>> /\ agent'.key = agent.key
    BY <1>s, <2>1, <2>2 DEF AgentShape, AgentRuns
  <2>4. InState(agent.calls, "started") = {} /\ InState(agent.calls, "waiting") = {}
    BY <2>1 DEF InState
  <2>5. UnderWay = {} /\ UnderWay' = {} /\ InState(agent'.calls, "waiting") = {}
    BY <1>u, <2>3, <2>4, NoneInState
  <2>6. AgentShape' /\ Accounted' /\ KeyedTools'
    BY <1>s, <2>1, <2>2, <2>3, <2>5 DEF AgentInv, AgentShape, Accounted, KeyedTools
  <2>7. StepsLeft'
    BY <2>1, <2>3, <2>4, <2>5 DEF AgentInv, StepsLeft
  <2>8. RunEnds'
    BY <2>1, <2>3, <2>5 DEF AgentInv, RunEnds
  <2> QED BY <2>1, <2>6, <2>7, <2>8 DEF AgentInv
<1>6. CASE AgentFails
  <2>1. PICK told \in BOOLEAN : AgentSend({"error"} \cup Spoken(told))
    BY <1>6 DEF AgentFails
  <2> DEFINE types == {"error"} \cup Spoken(told)
  <2>2. types \subseteq {"start", "token", "done", "error"} /\ "done" \notin types /\ "error" \in types
    BY DEF Spoken
  <2>3. AgentSend(types)
    BY <2>1
  <2> HIDE DEF types
  <2>4. agent.pc = "agent" /\ agent' = [agent EXCEPT !.pc = "closed"] /\ agent.calls = <<>>
        /\ agentSent["done"] = 0 /\ agentSent["error"] = 0
    BY <1>6 DEF AgentFails, AgentInv, RunEnds
  <2>5. agentSent'["done"] = 0 /\ agentSent'["error"] = 1
    BY <1>e, <1>s, <2>2, <2>3, <2>4, AgentSends
  <2>6. agent'.pc = "closed" /\ RunEnds'
    <3>1. agent'.pc = "closed"
      BY <1>p, <2>4
    <3> QED BY <2>5, <3>1 DEF RunEnds
  <2> QED BY <1>q, <2>2, <2>3, <2>4, <2>6
<1>7. CASE AgentDone
  <2>1. agent.pc = "end" /\ agent' = [agent EXCEPT !.pc = "trace"] /\ AgentSend({"done"}) /\ agentSent["done"] = 0 /\ agentSent["error"] = 0
        /\ UnderWay = {} /\ (agent.calls = <<>> \/ agent.steps = MaxSteps)
    BY <1>7 DEF AgentDone, AgentInv, RunEnds
  <2>2. agentSent'["done"] = 1 /\ agentSent'["error"] = 0
    BY <1>e, <1>s, <2>1, AgentSends
  <2>3. agent'.pc = "trace" /\ agent'.calls = agent.calls /\ agent'.steps = agent.steps /\ UnderWay' = {}
    BY <1>p, <1>u, <2>1
  <2>4. RunEnds'
    BY <2>1, <2>2, <2>3 DEF RunEnds
  <2> QED BY <1>q, <2>1, <2>4
<1>8. CASE AgentTraced
  <2>1. agent.pc = "trace" /\ agent' = [agent EXCEPT !.pc = "closed"] /\ agentSent["error"] = 0 /\ agentSent["done"] <= 1
        /\ UnderWay = {} /\ (agent.calls = <<>> \/ agent.steps = MaxSteps)
    BY <1>8 DEF AgentTraced, AgentInv, RunEnds
  <2>2. PICK types \in {{"error"}, {}} : AgentSend(types)
    BY <1>8, <1>n DEF AgentTraced
  <2>3. agentSent'["done"] = agentSent["done"] /\ agentSent'["error"] \in {0, 1}
    BY <1>e, <1>s, <2>1, <2>2, AgentSends
  <2>4. agent'.pc = "closed" /\ agent'.calls = agent.calls /\ agent'.steps = agent.steps /\ UnderWay' = {}
    BY <1>p, <1>u, <2>1
  <2>5. RunEnds'
    BY <2>1, <2>3, <2>4 DEF RunEnds
  <2>6. types \subseteq {"start", "token", "done", "error"}
    BY <2>2
  <2> QED BY <1>q, <2>1, <2>2, <2>5, <2>6
<1> QED BY <1>1, <1>2, <1>3, <1>4, <1>5, <1>6, <1>7, <1>8 DEF AgentNext

LEMMA AgentAgrees ==
  ASSUME AgentInv PROVE AgentTypeOK /\ RunIsAccounted
<1>1. agent.steps \in 0 .. MaxSteps /\ Len(agent.calls) <= CallsPerTurn /\ \A type \in AgentEvents : agentSent[type] \in Nat
  BY AgentAssumption DEF AgentInv, AgentShape, AgentRuns
<1>2. RunIsAccounted
  BY DEF AgentInv, Accounted, RunEnds, KeyedTools, RunIsAccounted
<1> QED BY <1>1, <1>2 DEF AgentTypeOK

-----------------------------------------------------------------------------
LEMMA PartOfSeq ==
  ASSUME NEW S, NEW s \in Seq(S), NEW m \in Nat \ {0}, NEW n \in Nat, n <= Len(s), m <= n + 1
  PROVE  /\ SubSeq(s, m, n) \in Seq(S) /\ Len(SubSeq(s, m, n)) = n + 1 - m
         /\ \A i \in 1 .. n + 1 - m : SubSeq(s, m, n)[i] = s[m + i - 1]
<1>1. Len(s) \in Nat /\ \A i \in 1 .. Len(s) : s[i] \in S
  BY LenProperties, ElementOfSeq
<1>2. \A i \in m .. n : s[i] \in S
  BY <1>1
<1>3. /\ SubSeq(s, m, n) \in Seq(S)
      /\ Len(SubSeq(s, m, n)) = IF m <= n THEN n - m + 1 ELSE 0
      /\ \A i \in 1 .. n - m + 1 : SubSeq(s, m, n)[i] = s[m + i - 1]
  BY <1>2, SubSeqProperties
<1>4. n - m + 1 = n + 1 - m /\ (~(m <= n) => n + 1 - m = 0)
  OBVIOUS
<1> QED BY <1>3, <1>4

(* Cached answers: an entry is what was answered to the question and for   *)
(* the tenant that its key names.                                          *)
CacheRows == {r \in [key : ChatTenants \X Questions, entry : Answers, exp : Nat] : r.key = <<r.entry.tenant, r.entry.q>>}

CacheFits ==
  /\ l1 \in Seq(CacheRows) /\ Len(l1) <= L1Max /\ l2 \in SUBSET CacheRows
  /\ cacheNow \in 0 .. CacheTimeMax

LEMMA EvictedFits ==
  ASSUME NEW map \in Seq(CacheRows), Len(map) <= L1Max
  PROVE  Evicted(map) \in Seq(CacheRows) /\ Len(Evicted(map)) < L1Max
<1>0. Len(map) \in Nat /\ L1Max \in Nat /\ L1Max >= 1 /\ L1Evict \in Nat /\ L1Evict >= 1
  BY CacheAssumption, LenProperties
<1>1. CASE ~(Len(map) >= L1Max)
  BY <1>0, <1>1 DEF Evicted
<1>2. CASE Len(map) >= L1Max /\ L1Evict < Len(map)
  <2>1. Evicted(map) = SubSeq(map, L1Evict + 1, Len(map))
    BY <1>2 DEF Evicted
  <2>2. /\ SubSeq(map, L1Evict + 1, Len(map)) \in Seq(CacheRows)
        /\ Len(SubSeq(map, L1Evict + 1, Len(map))) = Len(map) + 1 - (L1Evict + 1)
    <3>1. L1Evict + 1 \in Nat \ {0} /\ L1Evict + 1 <= Len(map) + 1
      BY <1>0, <1>2
    <3> QED BY <1>0, <3>1, PartOfSeq
  <2> QED BY <1>0, <2>1, <2>2
<1>3. CASE Len(map) >= L1Max /\ ~(L1Evict < Len(map))
  <2>1. Evicted(map) = SubSeq(map, Len(map) + 1, Len(map))
    BY <1>3 DEF Evicted
  <2>2. /\ SubSeq(map, Len(map) + 1, Len(map)) \in Seq(CacheRows)
        /\ Len(SubSeq(map, Len(map) + 1, Len(map))) = Len(map) + 1 - (Len(map) + 1)
    <3>1. Len(map) + 1 \in Nat \ {0} /\ Len(map) + 1 <= Len(map) + 1
      BY <1>0
    <3> QED BY <1>0, <3>1, PartOfSeq
  <2> QED BY <1>0, <2>1, <2>2
<1> QED BY <1>1, <1>2, <1>3

LEMMA WithoutFits ==
  ASSUME NEW map \in Seq(CacheRows), Len(map) <= L1Max, NEW key
  PROVE  Without(map, key) \in Seq(CacheRows) /\ Len(Without(map, key)) <= L1Max
<1> DEFINE at == {i \in DOMAIN map : map[i].key = key}
<1>1. CASE at = {}
  BY <1>1 DEF Without
<1>2. CASE at # {}
  <2> DEFINE i == CHOOSE j \in at : TRUE
             left == SubSeq(map, 1, i - 1)
             right == SubSeq(map, i + 1, Len(map))
  <2>1. Len(map) \in Nat /\ DOMAIN map = 1 .. Len(map) /\ i \in DOMAIN map /\ L1Max \in Nat
    BY <1>2, LenProperties, CacheAssumption
  <2>2. Without(map, key) = left \o right
    BY <1>2 DEF Without, RemoveAt
  <2> HIDE DEF i
  <2>3. i \in Nat /\ i >= 1 /\ i <= Len(map)
    BY <2>1
  <2>4. left \in Seq(CacheRows) /\ Len(left) = i - 1
    <3>1. i - 1 \in Nat /\ i - 1 <= Len(map) /\ 1 <= (i - 1) + 1 /\ 1 \in Nat \ {0}
      BY <2>1, <2>3
    <3>2. left \in Seq(CacheRows) /\ Len(left) = (i - 1) + 1 - 1
      BY <3>1, PartOfSeq
    <3> QED BY <2>3, <3>2
  <2>5. right \in Seq(CacheRows) /\ Len(right) = Len(map) - i
    <3>1. i + 1 \in Nat \ {0} /\ i + 1 <= Len(map) + 1
      BY <2>1, <2>3
    <3>2. right \in Seq(CacheRows) /\ Len(right) = Len(map) + 1 - (i + 1)
      BY <2>1, <3>1, PartOfSeq
    <3> QED BY <2>1, <2>3, <3>2
  <2> HIDE DEF left, right
  <2>6. left \o right \in Seq(CacheRows) /\ Len(left \o right) = Len(left) + Len(right)
    BY <2>4, <2>5, ConcatProperties
  <2> QED BY <2>1, <2>2, <2>3, <2>4, <2>5, <2>6
<1> QED BY <1>1, <1>2

LEMMA PutFits ==
  ASSUME NEW map \in Seq(CacheRows), Len(map) <= L1Max, cacheNow \in Nat,
         NEW key \in ChatTenants \X Questions, NEW entry \in Answers, key = <<entry.tenant, entry.q>>
  PROVE  PutL1(map, key, entry) \in Seq(CacheRows) /\ Len(PutL1(map, key, entry)) <= L1Max
<1> DEFINE spared == Evicted(map)
           row == [key |-> key, entry |-> entry, exp |-> cacheNow + L1Ttl]
           put == [i \in DOMAIN spared |-> IF spared[i].key = key THEN row ELSE spared[i]]
<1>1. spared \in Seq(CacheRows) /\ Len(spared) < L1Max /\ L1Max \in Nat
  BY EvictedFits, CacheAssumption
<1>2. row \in CacheRows
  <2>1. cacheNow + L1Ttl \in Nat
    BY CacheAssumption
  <2> QED BY <2>1 DEF CacheRows
<1>3. PutL1(map, key, entry) = IF \E i \in DOMAIN spared : spared[i].key = key THEN put ELSE Append(spared, row)
  BY DEF PutL1
<1> HIDE DEF spared, row
<1>4. Len(spared) \in Nat /\ DOMAIN spared = 1 .. Len(spared) /\ \A i \in DOMAIN spared : spared[i] \in CacheRows
  BY <1>1, LenProperties, ElementOfSeq
<1>5. put \in Seq(CacheRows) /\ Len(put) = Len(spared)
  <2>1. put \in [1 .. Len(spared) -> CacheRows]
    BY <1>2, <1>4
  <2> HIDE DEF put
  <2> QED BY <1>4, <2>1, SeqOfFun
<1>6. Append(spared, row) \in Seq(CacheRows) /\ Len(Append(spared, row)) = Len(spared) + 1
  BY <1>1, <1>2
<1> HIDE DEF put
<1>7. Len(spared) <= L1Max /\ Len(spared) + 1 <= L1Max
  BY <1>1, <1>4
<1>8. CASE \E i \in DOMAIN spared : spared[i].key = key
  BY <1>3, <1>5, <1>7, <1>8
<1>9. CASE ~ \E i \in DOMAIN spared : spared[i].key = key
  <2>1. PutL1(map, key, entry) = Append(spared, row)
    BY <1>3, <1>9
  <2> QED BY <1>6, <1>7, <2>1
<1> QED BY <1>8, <1>9

(* What a lookup finds was cached for its key.                             *)
LEMMA CacheGetFits ==
  ASSUME CacheFits, NEW key \in ChatTenants \X Questions, NEW answers \in BOOLEAN, NEW gave,
         CacheGet(key, answers, gave)
  PROVE  CacheFits' /\ (gave # Nothing => gave \in Answers /\ key = <<gave.tenant, gave.q>>)
<1>0. UNCHANGED <<l2, cacheNow>> /\ cacheNow \in Nat /\ l1 \in Seq(CacheRows) /\ Len(l1) <= L1Max
  BY CacheAssumption DEF CacheGet, CacheFits
<1>1. \A r \in FoundL1(key) : r \in CacheRows /\ r.key = key
  <2>1. \A i \in DOMAIN l1 : l1[i] \in CacheRows
    BY <1>0, LenProperties, ElementOfSeq
  <2> QED BY <2>1 DEF FoundL1, ToSet
<1>2. \A r \in FoundL2(key) : r \in CacheRows /\ r.key = key
  BY DEF FoundL2, CacheFits
<1>r. \A r \in CacheRows : r.entry \in Answers /\ r.key = <<r.entry.tenant, r.entry.q>>
  BY DEF CacheRows
<1>3. CASE FoundL1(key) # {}
  <2>1. gave \in {r.entry : r \in FoundL1(key)} /\ UNCHANGED l1
    BY <1>3 DEF CacheGet
  <2>2. PICK r \in FoundL1(key) : gave = r.entry
    BY <2>1
  <2>3. gave \in Answers /\ key = <<gave.tenant, gave.q>>
    BY <1>1, <1>r, <2>2
  <2> QED BY <1>0, <2>1, <2>3 DEF CacheFits
<1>4. CASE FoundL1(key) = {} /\ answers /\ FoundL2(key) # {}
  <2>1. gave \in {r.entry : r \in FoundL2(key)} /\ l1' = PutL1(Without(l1, key), key, gave)
    BY <1>4 DEF CacheGet
  <2>2. PICK r \in FoundL2(key) : gave = r.entry
    BY <2>1
  <2>3. gave \in Answers /\ key = <<gave.tenant, gave.q>>
    BY <1>2, <1>r, <2>2
  <2>4. Without(l1, key) \in Seq(CacheRows) /\ Len(Without(l1, key)) <= L1Max
    BY <1>0, WithoutFits
  <2>5. l1' \in Seq(CacheRows) /\ Len(l1') <= L1Max
    BY <1>0, <2>1, <2>3, <2>4, PutFits
  <2> QED BY <1>0, <2>3, <2>5 DEF CacheFits
<1>5. CASE FoundL1(key) = {} /\ ~(answers /\ FoundL2(key) # {})
  <2>1. gave = Nothing /\ l1' = Without(l1, key)
    BY <1>5 DEF CacheGet
  <2> QED BY <1>0, <2>1, WithoutFits DEF CacheFits
<1> QED BY <1>3, <1>4, <1>5

LEMMA CacheSetFits ==
  ASSUME CacheFits, NEW key \in ChatTenants \X Questions, NEW entry \in Answers, key = <<entry.tenant, entry.q>>,
         NEW answers \in BOOLEAN, CacheSet(key, entry, answers)
  PROVE  CacheFits'
<1>0. UNCHANGED cacheNow /\ cacheNow \in Nat /\ l1 \in Seq(CacheRows) /\ Len(l1) <= L1Max
  BY CacheAssumption DEF CacheSet, CacheFits
<1>1. l1' \in Seq(CacheRows) /\ Len(l1') <= L1Max
  BY <1>0, PutFits DEF CacheSet
<1> DEFINE row == [key |-> key, entry |-> entry, exp |-> cacheNow + L2Ttl]
<1>2. row \in CacheRows
  <2>1. cacheNow + L2Ttl \in Nat
    BY <1>0, CacheAssumption
  <2> QED BY <2>1 DEF CacheRows
<1>3. l2' \in SUBSET CacheRows
  <2>1. l2' = IF answers THEN {r \in l2 : r.key # key} \cup {row} ELSE l2
    BY DEF CacheSet
  <2> HIDE DEF row
  <2> QED BY <1>2, <2>1 DEF CacheFits
<1> QED BY <1>0, <1>1, <1>3 DEF CacheFits

(* Conversations.                                                          *)
ChatRecords == [owner : ChatUsers, messages : Seq(ChatRows)]
PlainOps ==
  [pc : {"cache", "history", "failed", "delete"}, sid : ChatIds, by : ChatUsers, q : Questions, new : BOOLEAN]
HitOps ==
  [pc : {"hitAsk", "hitReply", "end", "failed", "delete"},
   sid : ChatIds, by : ChatUsers, q : Questions, new : BOOLEAN, entry : Answers]
ModelOps ==
  [pc : {"model", "store", "end", "failed", "delete"},
   sid : ChatIds, by : ChatUsers, q : Questions, new : BOOLEAN, prompt : Seq(ChatRows)]
Streams == PlainOps \cup HitOps \cup ModelOps

ChatShape ==
  /\ CacheFits
  /\ chats \in [ChatIds -> {NoChat} \cup ChatRecords]
  /\ chatOp \in [ChatOps -> {ChatIdle} \cup Streams]
  /\ chatFaults \in 0 .. ChatFaultMax /\ chatRaced \in BOOLEAN

Streaming(o) == chatOp[o].pc # "idle"

(* What holds of a stream, of the session it works on, and of both when no *)
(* two requests worked on one session.                                     *)
HitFits(op) == op \in HitOps => op.entry.q = op.q /\ op.entry.tenant = TenantOf[op.by]
Owns(op, c) == c # NoChat => op.by = c.owner /\ (op.pc = "hitReply" => c.messages # <<>>)
AnswersFit(c, raced) ==
  c # NoChat => \A i \in DOMAIN c.messages : c.messages[i].role = "ASSISTANT" =>
    /\ c.messages[i].tenant = TenantOf[c.owner]
    /\ i > 1 /\ (~raced => c.messages[i - 1] = Ask(c.messages[i].q))
Answered(messages) == messages # <<>> /\ messages[Len(messages)].role = "ASSISTANT"
Alone(op, c, failures) ==
  /\ c # NoChat
  /\ ~op.new => c.messages # <<>>
  /\ op.pc = "hitReply" => c.messages # <<>> /\ c.messages[Len(c.messages)] = Ask(op.q)
  /\ op.pc = "model" => op.prompt = TrimHistory(GetHistory(c.messages))
  /\ op.pc \in {"store", "end"} => Answered(c.messages)
  /\ op.pc \in {"failed", "delete"} => failures > 0
  /\ op.pc = "delete" => c.messages = <<>>
AtRest(c, failures) == c # NoChat => c.messages # <<>> /\ (failures = 0 => Answered(c.messages))

ChatInv ==
  /\ ChatShape
  /\ \A o \in ChatOps : Streaming(o) => HitFits(chatOp[o]) /\ Owns(chatOp[o], chats[chatOp[o].sid])
  /\ \A s \in ChatIds : AnswersFit(chats[s], chatRaced)
  /\ ~chatRaced =>
       /\ \A o, p \in ChatOps : Streaming(o) /\ Streaming(p) /\ chatOp[o].sid = chatOp[p].sid => o = p
       /\ \A o \in ChatOps : Streaming(o) => Alone(chatOp[o], chats[chatOp[o].sid], chatFaults)
       /\ \A s \in ChatIds : (\A o \in ChatOps : Streaming(o) => chatOp[o].sid # s) => AtRest(chats[s], chatFaults)

LEMMA ChatInitially ==
  ASSUME ChatInit PROVE ChatInv
<1>1. /\ chats = [s \in ChatIds |-> NoChat] /\ chatOp = [o \in ChatOps |-> ChatIdle]
      /\ chatFaults = 0 /\ chatRaced = FALSE /\ l1 = <<>> /\ l2 = {} /\ cacheNow = 0
  BY DEF ChatInit, CacheInit
<1>2. CacheFits
  <2>1. Len(l1) = 0 /\ l1 \in Seq(CacheRows)
    BY <1>1
  <2>2. 0 \in 0 .. CacheTimeMax /\ 0 <= L1Max
    BY CacheAssumption
  <2> QED BY <1>1, <2>1, <2>2 DEF CacheFits
<1>3. 0 \in 0 .. ChatFaultMax
  BY ChatAssumption
<1> QED BY <1>1, <1>2, <1>3 DEF ChatInv, ChatShape, ChatIdle, Streaming, AnswersFit, AtRest

LEMMA StreamShape ==
  ASSUME ChatShape, NEW o \in ChatOps, Streaming(o)
  PROVE  /\ chatOp[o] \in Streams /\ chatOp[o].pc # "idle" /\ chatOp[o].sid \in ChatIds
         /\ chatOp[o].by \in ChatUsers /\ chatOp[o].q \in Questions /\ chatOp[o].new \in BOOLEAN
<1>1. chatOp[o] \in Streams
  BY DEF ChatShape, Streaming, ChatIdle
<1> HIDE DEF ChatShape
<1> QED BY <1>1 DEF Streams, PlainOps, HitOps, ModelOps

LEMMA ChatRecordIsChat ==
  NoChat \notin ChatRecords
BY ChatAssumption DEF ChatRecords

(* A stream that goes on.                                                  *)
LEMMA StreamGoes ==
  ASSUME ChatInv, NEW o \in ChatOps, Streaming(o), NEW op \in Streams,
         op.sid = chatOp[o].sid, HitFits(op), chatOp' = [chatOp EXCEPT ![o] = op],
         CacheFits', chatRaced' = chatRaced, chatFaults' \in 0 .. ChatFaultMax, chatFaults' >= chatFaults,
         NEW c \in {NoChat} \cup ChatRecords, chats' = [chats EXCEPT ![chatOp[o].sid] = c],
         chats[chatOp[o].sid] = NoChat => c = NoChat,
         c # NoChat => /\ c.owner = chats[chatOp[o].sid].owner
                       /\ chats[chatOp[o].sid].messages # <<>> => c.messages # <<>>,
         Owns(op, c), AnswersFit(c, chatRaced), ~chatRaced => Alone(op, c, chatFaults')
  PROVE  ChatInv'
<1> DEFINE s == chatOp[o].sid
<1>0. s \in ChatIds /\ op.sid = s /\ op.pc # "idle" /\ chatFaults \in Nat /\ chatFaults' \in Nat
  <2>1. s \in ChatIds /\ chatFaults \in 0 .. ChatFaultMax
    BY StreamShape DEF ChatInv, ChatShape
  <2>2. op.pc # "idle"
    BY DEF Streams, PlainOps, HitOps, ModelOps
  <2> QED BY <2>1, <2>2
<1>1. \A p \in ChatOps : chatOp'[p] = IF p = o THEN op ELSE chatOp[p]
  BY DEF ChatInv, ChatShape
<1>2. \A t \in ChatIds : chats'[t] = IF t = s THEN c ELSE chats[t]
  BY DEF ChatInv, ChatShape
<1>3. \A p \in ChatOps : Streaming(p)' <=> Streaming(p)
  BY <1>0, <1>1 DEF Streaming
<1>i. \A p \in ChatOps : Streaming(p) => chatOp[p].sid \in ChatIds /\ chatOp'[p].sid = chatOp[p].sid
  BY <1>1, StreamShape DEF ChatInv
<1>4. ChatShape'
  <2>1. chatOp' \in [ChatOps -> {ChatIdle} \cup Streams]
    BY DEF ChatInv, ChatShape
  <2>2. chats' \in [ChatIds -> {NoChat} \cup ChatRecords]
    BY DEF ChatInv, ChatShape
  <2> QED BY <2>1, <2>2 DEF ChatInv, ChatShape
<1>5. ASSUME NEW p \in ChatOps, Streaming(p)
      PROVE  HitFits(chatOp'[p]) /\ Owns(chatOp'[p], chats'[chatOp'[p].sid])
  <2>1. CASE p = o
    BY <1>0, <1>1, <1>2, <2>1
  <2>2. CASE p # o /\ chatOp[p].sid = s
    <3>1. HitFits(chatOp[p]) /\ Owns(chatOp[p], chats[s])
      BY <1>5, <2>2 DEF ChatInv
    <3>2. Owns(chatOp[p], c)
      BY <3>1 DEF Owns
    <3> QED BY <1>1, <1>2, <1>i, <1>5, <2>2, <3>1, <3>2
  <2>3. CASE p # o /\ chatOp[p].sid # s
    BY <1>1, <1>2, <1>i, <1>5, <2>3 DEF ChatInv
  <2> QED BY <2>1, <2>2, <2>3
<1>6. ASSUME NEW t \in ChatIds PROVE AnswersFit(chats'[t], chatRaced')
  BY <1>2 DEF ChatInv
<1>7. ASSUME ~chatRaced
      PROVE  /\ \A p, r \in ChatOps : Streaming(p) /\ Streaming(r) /\ chatOp'[p].sid = chatOp'[r].sid => p = r
             /\ \A p \in ChatOps : Streaming(p) => Alone(chatOp'[p], chats'[chatOp'[p].sid], chatFaults')
             /\ \A t \in ChatIds : (\A p \in ChatOps : Streaming(p) => chatOp'[p].sid # t) => AtRest(chats'[t], chatFaults')
  <2>1. \A p, r \in ChatOps : Streaming(p) /\ Streaming(r) /\ chatOp'[p].sid = chatOp'[r].sid => p = r
    BY <1>7, <1>i DEF ChatInv
  <2>2. ASSUME NEW p \in ChatOps, Streaming(p) PROVE Alone(chatOp'[p], chats'[chatOp'[p].sid], chatFaults')
    <3>1. CASE p = o
      BY <1>0, <1>1, <1>2, <1>7, <3>1
    <3>2. CASE p # o
      <4>1. chatOp[p].sid # s /\ Alone(chatOp[p], chats[chatOp[p].sid], chatFaults)
        BY <1>7, <2>2, <3>2 DEF ChatInv
      <4>2. Alone(chatOp[p], chats[chatOp[p].sid], chatFaults')
        <5>1. chatFaults > 0 => chatFaults' > 0
          BY <1>0
        <5> QED BY <4>1, <5>1 DEF Alone
      <4> QED BY <1>1, <1>2, <1>i, <2>2, <3>2, <4>1, <4>2
    <3> QED BY <3>1, <3>2
  <2>3. ASSUME NEW t \in ChatIds, \A p \in ChatOps : Streaming(p) => chatOp'[p].sid # t
        PROVE  AtRest(chats'[t], chatFaults')
    <3>1. t # s /\ AtRest(chats[t], chatFaults)
      BY <1>7, <1>i, <2>3 DEF ChatInv
    <3>2. chatFaults' = 0 => chatFaults = 0
      BY <1>0
    <3> QED BY <1>2, <3>1, <3>2 DEF AtRest
  <2> QED BY <2>1, <2>2, <2>3
<1>8. Streaming(o)' <=> Streaming(o)
  BY <1>3
<1> QED BY <1>3, <1>4, <1>5, <1>6, <1>7 DEF ChatInv

(* A stream that ends.                                                     *)
LEMMA StreamLeaves ==
  ASSUME ChatInv, NEW o \in ChatOps, Streaming(o), chatOp' = [chatOp EXCEPT ![o] = ChatIdle],
         UNCHANGED <<l1, l2, cacheNow, chatRaced, chatFaults>>,
         NEW c \in {NoChat, chats[chatOp[o].sid]}, chats' = [chats EXCEPT ![chatOp[o].sid] = c],
         ~chatRaced => AtRest(c, chatFaults)
  PROVE  ChatInv'
<1> DEFINE s == chatOp[o].sid
<1>0. s \in ChatIds /\ chats[s] \in {NoChat} \cup ChatRecords
  BY StreamShape DEF ChatInv, ChatShape
<1>1. \A p \in ChatOps : chatOp'[p] = IF p = o THEN ChatIdle ELSE chatOp[p]
  BY DEF ChatInv, ChatShape
<1>2. \A t \in ChatIds : chats'[t] = IF t = s THEN c ELSE chats[t]
  BY DEF ChatInv, ChatShape
<1>3. \A p \in ChatOps : Streaming(p)' <=> Streaming(p) /\ p # o
  BY <1>1 DEF Streaming, ChatIdle
<1>i. \A p \in ChatOps : Streaming(p) => chatOp[p].sid \in ChatIds
  BY StreamShape DEF ChatInv
<1>4. ChatShape'
  <2>1. chatOp' \in [ChatOps -> {ChatIdle} \cup Streams]
    BY DEF ChatInv, ChatShape
  <2>2. chats' \in [ChatIds -> {NoChat} \cup ChatRecords]
    BY <1>0 DEF ChatInv, ChatShape
  <2>3. CacheFits'
    BY DEF ChatInv, ChatShape, CacheFits
  <2> QED BY <2>1, <2>2, <2>3 DEF ChatInv, ChatShape
<1>5. ASSUME NEW p \in ChatOps, Streaming(p), p # o
      PROVE  HitFits(chatOp'[p]) /\ Owns(chatOp'[p], chats'[chatOp'[p].sid])
  <2>1. HitFits(chatOp[p]) /\ Owns(chatOp[p], chats[chatOp[p].sid])
    BY <1>5 DEF ChatInv
  <2>2. chats'[chatOp[p].sid] \in {NoChat, chats[chatOp[p].sid]}
    BY <1>2, <1>i, <1>5
  <2> QED BY <1>1, <1>5, <2>1, <2>2 DEF Owns
<1>6. ASSUME NEW t \in ChatIds PROVE AnswersFit(chats'[t], chatRaced')
  <2>1. AnswersFit(chats[t], chatRaced) /\ chats'[t] \in {NoChat, chats[t]}
    BY <1>2 DEF ChatInv
  <2> QED BY <2>1 DEF AnswersFit
<1>7. ASSUME ~chatRaced
      PROVE  /\ \A p, r \in ChatOps : Streaming(p)' /\ Streaming(r)' /\ chatOp'[p].sid = chatOp'[r].sid => p = r
             /\ \A p \in ChatOps : Streaming(p)' => Alone(chatOp'[p], chats'[chatOp'[p].sid], chatFaults)
             /\ \A t \in ChatIds : (\A p \in ChatOps : Streaming(p)' => chatOp'[p].sid # t) => AtRest(chats'[t], chatFaults)
  <2>1. \A p, r \in ChatOps : Streaming(p)' /\ Streaming(r)' /\ chatOp'[p].sid = chatOp'[r].sid => p = r
    BY <1>1, <1>3, <1>7 DEF ChatInv
  <2>2. ASSUME NEW p \in ChatOps, Streaming(p)' PROVE Alone(chatOp'[p], chats'[chatOp'[p].sid], chatFaults)
    <3>1. p # o /\ Streaming(p) /\ chatOp[p].sid # s /\ Alone(chatOp[p], chats[chatOp[p].sid], chatFaults)
      BY <1>3, <1>7, <2>2 DEF ChatInv
    <3> QED BY <1>1, <1>2, <1>i, <3>1
  <2>3. ASSUME NEW t \in ChatIds, \A p \in ChatOps : Streaming(p)' => chatOp'[p].sid # t
        PROVE  AtRest(chats'[t], chatFaults)
    <3>1. CASE t = s
      BY <1>2, <1>7, <3>1
    <3>2. CASE t # s
      <4>1. \A p \in ChatOps : Streaming(p) => chatOp[p].sid # t
        BY <1>1, <1>3, <2>3, <3>2
      <4> QED BY <1>2, <1>7, <3>2, <4>1 DEF ChatInv
    <3> QED BY <3>1, <3>2
  <2> QED BY <2>1, <2>2, <2>3
<1> QED BY <1>3, <1>4, <1>5, <1>6, <1>7 DEF ChatInv

(* The same session with the same messages, raced or not.                  *)
LEMMA RacingWeakens ==
  ASSUME NEW c, NEW raced \in BOOLEAN, NEW later \in BOOLEAN, raced => later, AnswersFit(c, raced)
  PROVE  AnswersFit(c, later)
BY DEF AnswersFit

(* Rows added to a session.                                                *)
LEMMA QuestionAdded ==
  ASSUME NEW c \in ChatRecords, NEW raced \in BOOLEAN, AnswersFit(c, raced), NEW q \in Questions
  PROVE  LET d == [c EXCEPT !.messages = @ \o <<Ask(q)>>] IN
         /\ d \in ChatRecords /\ d.owner = c.owner /\ d.messages # <<>>
         /\ d.messages[Len(d.messages)] = Ask(q) /\ AnswersFit(d, raced)
<1> DEFINE long == c.messages \o <<Ask(q)>>
           d == [c EXCEPT !.messages = long]
           n == Len(c.messages)
<1>1. c.messages \in Seq(ChatRows) /\ n \in Nat /\ Ask(q) \in ChatRows /\ Ask(q).role = "USER"
  BY DEF ChatRecords, ChatRows, Ask
<1>2. /\ long \in Seq(ChatRows) /\ Len(long) = n + 1 /\ long[n + 1] = Ask(q)
      /\ \A i \in 1 .. n : long[i] = c.messages[i]
  BY <1>1
<1> HIDE DEF long
<1>3. d \in ChatRecords /\ d.owner = c.owner /\ d.messages = long
  BY <1>2 DEF ChatRecords
<1> HIDE DEF n
<1>4. AnswersFit(d, raced)
  <2>1. DOMAIN long = 1 .. n + 1 /\ DOMAIN c.messages = 1 .. n
    BY <1>1, <1>2, LenProperties DEF n
  <2>2. ASSUME NEW i \in 1 .. n + 1, long[i].role = "ASSISTANT"
        PROVE  /\ long[i].tenant = TenantOf[c.owner]
               /\ i > 1 /\ (~raced => long[i - 1] = Ask(long[i].q))
    <3>1. i # n + 1
      BY <1>1, <1>2, <2>2
    <3>2. i \in 1 .. n /\ long[i] = c.messages[i]
      BY <1>1, <1>2, <3>1
    <3>3. /\ c.messages[i].tenant = TenantOf[c.owner]
          /\ i > 1 /\ (~raced => c.messages[i - 1] = Ask(c.messages[i].q))
      BY <2>1, <2>2, <3>2, ChatRecordIsChat DEF AnswersFit
    <3>4. i - 1 \in 1 .. n
      BY <1>1, <3>2, <3>3
    <3> QED BY <1>2, <3>2, <3>3, <3>4
  <2> QED BY <1>3, <2>1, <2>2 DEF AnswersFit
<1>5. d.messages # <<>> /\ d.messages[Len(d.messages)] = Ask(q)
  <2>1. Len(long) # 0
    BY <1>1, <1>2
  <2> QED BY <1>2, <1>3, <2>1
<1> QED BY <1>3, <1>4, <1>5 DEF long

LEMMA ReplyAdded ==
  ASSUME NEW c \in ChatRecords, NEW raced \in BOOLEAN, AnswersFit(c, raced), NEW entry \in Answers,
         entry.tenant = TenantOf[c.owner], c.messages # <<>>,
         ~raced => c.messages[Len(c.messages)] = Ask(entry.q)
  PROVE  LET d == [c EXCEPT !.messages = @ \o <<Reply(entry)>>] IN
         d \in ChatRecords /\ d.owner = c.owner /\ Answered(d.messages) /\ AnswersFit(d, raced)
<1> DEFINE long == c.messages \o <<Reply(entry)>>
           d == [c EXCEPT !.messages = long]
           n == Len(c.messages)
<1>1. /\ c.messages \in Seq(ChatRows) /\ n \in Nat /\ n # 0 /\ Reply(entry) \in ChatRows
      /\ Reply(entry).role = "ASSISTANT" /\ Reply(entry).q = entry.q /\ Reply(entry).tenant = entry.tenant
  <2>1. c.messages \in Seq(ChatRows)
    BY DEF ChatRecords
  <2>2. n \in Nat /\ n # 0
    BY <2>1
  <2> QED BY <2>1, <2>2 DEF ChatRows, Reply, Answers
<1>2. /\ long \in Seq(ChatRows) /\ Len(long) = n + 1 /\ long[n + 1] = Reply(entry)
      /\ \A i \in 1 .. n : long[i] = c.messages[i]
  BY <1>1
<1> HIDE DEF long
<1>3. d \in ChatRecords /\ d.owner = c.owner /\ d.messages = long
  BY <1>2 DEF ChatRecords
<1>l. c.messages[Len(c.messages)] = long[n]
  BY <1>1, <1>2
<1>m. DOMAIN long = 1 .. n + 1 /\ DOMAIN c.messages = 1 .. n
  BY <1>1, <1>2, LenProperties
<1> HIDE DEF n
<1>4. AnswersFit(d, raced)
  <2>2. ASSUME NEW i \in 1 .. n + 1, long[i].role = "ASSISTANT"
        PROVE  /\ long[i].tenant = TenantOf[c.owner]
               /\ i > 1 /\ (~raced => long[i - 1] = Ask(long[i].q))
    <3>1. CASE i = n + 1
      <4>1. i > 1 /\ i - 1 = n
        BY <1>1, <3>1
      <4> QED BY <1>1, <1>2, <1>l, <3>1, <4>1
    <3>2. CASE i # n + 1
      <4>1. i \in 1 .. n /\ long[i] = c.messages[i]
        BY <1>1, <1>2, <3>2
      <4>2. /\ c.messages[i].tenant = TenantOf[c.owner]
            /\ i > 1 /\ (~raced => c.messages[i - 1] = Ask(c.messages[i].q))
        BY <1>m, <2>2, <4>1, ChatRecordIsChat DEF AnswersFit
      <4>3. i - 1 \in 1 .. n
        BY <1>1, <4>1, <4>2
      <4> QED BY <1>2, <4>1, <4>2, <4>3
    <3> QED BY <3>1, <3>2
  <2> QED BY <1>3, <1>m, <2>2 DEF AnswersFit
<1>5. Answered(d.messages)
  <2>1. Len(long) # 0
    BY <1>1, <1>2
  <2> QED BY <1>1, <1>2, <1>3, <2>1 DEF Answered
<1> QED BY <1>3, <1>4, <1>5 DEF long

LEMMA RoundAdded ==
  ASSUME NEW c \in ChatRecords, NEW raced \in BOOLEAN, AnswersFit(c, raced), NEW entry \in Answers,
         entry.tenant = TenantOf[c.owner]
  PROVE  LET d == [c EXCEPT !.messages = @ \o <<Ask(entry.q), Reply(entry)>>] IN
         d \in ChatRecords /\ d.owner = c.owner /\ Answered(d.messages) /\ AnswersFit(d, raced)
<1> DEFINE withAsk == [c EXCEPT !.messages = @ \o <<Ask(entry.q)>>]
           d == [withAsk EXCEPT !.messages = @ \o <<Reply(entry)>>]
<1>1. entry.q \in Questions
  BY DEF Answers
<1>2. /\ withAsk \in ChatRecords /\ withAsk.owner = c.owner /\ withAsk.messages # <<>>
      /\ withAsk.messages[Len(withAsk.messages)] = Ask(entry.q) /\ AnswersFit(withAsk, raced)
  BY <1>1, QuestionAdded
<1>3. d = [c EXCEPT !.messages = @ \o <<Ask(entry.q), Reply(entry)>>]
  <2>1. c.messages \in Seq(ChatRows) /\ Ask(entry.q) \in ChatRows /\ Reply(entry) \in ChatRows
    BY <1>1 DEF ChatRecords, ChatRows, Ask, Reply, Answers
  <2>2. (c.messages \o <<Ask(entry.q)>>) \o <<Reply(entry)>> = c.messages \o <<Ask(entry.q), Reply(entry)>>
    BY <2>1
  <2>3. d = [c EXCEPT !.messages = (c.messages \o <<Ask(entry.q)>>) \o <<Reply(entry)>>]
    BY DEF ChatRecords
  <2> QED BY <2>2, <2>3
<1> HIDE DEF withAsk
<1>4. d \in ChatRecords /\ d.owner = withAsk.owner /\ Answered(d.messages) /\ AnswersFit(d, raced)
  BY <1>2, ReplyAdded
<1> QED BY <1>2, <1>3, <1>4

LEMMA PromptFits ==
  ASSUME NEW messages \in Seq(ChatRows)
  PROVE  TrimHistory(GetHistory(messages)) \in Seq(ChatRows)
<1>0. HistoryTake \in Nat /\ TokenBudget \in Nat /\ TokenBudget > 0 /\ Len(messages) \in Nat
  BY ChatAssumption
<1> DEFINE upto == IF Len(messages) < HistoryTake THEN Len(messages) ELSE HistoryTake
           history == SubSeq(messages, 1, upto)
           from == IF Len(history) > TokenBudget THEN Len(history) - TokenBudget + 1 ELSE 1
<1>1. upto \in Nat /\ upto <= Len(messages)
  BY <1>0
<1>2. history = GetHistory(messages)
  BY DEF GetHistory
<1> HIDE DEF upto
<1>3. history \in Seq(ChatRows)
  BY <1>0, <1>1, PartOfSeq
<1> HIDE DEF history
<1>4. Len(history) \in Nat
  BY <1>3
<1>5. from \in Nat \ {0} /\ from <= Len(history) + 1
  BY <1>0, <1>4
<1>6. TrimHistory(history) = SubSeq(history, from, Len(history))
  BY DEF TrimHistory
<1> HIDE DEF from
<1>7. SubSeq(history, from, Len(history)) \in Seq(ChatRows)
  BY <1>3, <1>4, <1>5, PartOfSeq
<1> QED BY <1>2, <1>6, <1>7

LEMMA CacheKeyFits ==
  ASSUME NEW op, op.by \in ChatUsers, op.q \in Questions
  PROVE  /\ CacheKey(op) \in ChatTenants \X Questions /\ CacheKey(op) = <<TenantOf[op.by], op.q>>
         /\ [q |-> op.q, tenant |-> TenantOf[op.by]] \in Answers
BY DEF CacheKey, ChatTenants, Answers

LEMMA StreamKinds ==
  ASSUME NEW op \in Streams
  PROVE  /\ op.pc \in {"hitAsk", "hitReply"} => op \in HitOps
         /\ op.pc \in {"model", "store"} => op \in ModelOps
         /\ op.pc \in {"cache", "history"} => op \in PlainOps
BY DEF Streams, PlainOps, HitOps, ModelOps

LEMMA StreamPlaced ==
  ASSUME NEW op \in Streams, HitFits(op), NEW place,
         \/ place \in {"failed", "delete"}
         \/ op \in HitOps /\ place \in {"hitReply", "end"}
         \/ op \in ModelOps /\ place \in {"store", "end"}
         \/ op \in PlainOps /\ place = "history"
  PROVE  LET to == [op EXCEPT !.pc = place] IN
         /\ to \in Streams /\ HitFits(to) /\ to.pc = place
         /\ to.sid = op.sid /\ to.by = op.by /\ to.q = op.q /\ to.new = op.new
<1> DEFINE to == [op EXCEPT !.pc = place]
<1>1. CASE op \in HitOps
  <2>1. place \in {"hitAsk", "hitReply", "end", "failed", "delete"}
    <3>1. op \notin ModelOps /\ op \notin PlainOps
      BY <1>1 DEF HitOps, ModelOps, PlainOps
    <3> QED BY <3>1
  <2>2. to \in HitOps /\ to.entry = op.entry
    BY <1>1, <2>1 DEF HitOps
  <2>3. to.pc = place /\ to.sid = op.sid /\ to.by = op.by /\ to.q = op.q /\ to.new = op.new
    BY <1>1 DEF HitOps
  <2> HIDE DEF to
  <2>5. to \in Streams /\ HitFits(to)
    BY <1>1, <2>2, <2>3 DEF HitFits, Streams
  <2> QED BY <2>3, <2>5 DEF to
<1>2. CASE op \in ModelOps
  <2>1. place \in {"model", "store", "end", "failed", "delete"}
    <3>1. op \notin HitOps
      BY <1>2 DEF HitOps, ModelOps
    <3>2. op \notin PlainOps
      BY <1>2 DEF ModelOps, PlainOps
    <3> QED BY <3>1, <3>2
  <2>2. to \in ModelOps
    BY <1>2, <2>1 DEF ModelOps
  <2>3. to.pc = place /\ to.sid = op.sid /\ to.by = op.by /\ to.q = op.q /\ to.new = op.new
    BY <1>2 DEF ModelOps
  <2> HIDE DEF to
  <2>4. to \notin HitOps
    BY <2>2 DEF HitOps, ModelOps
  <2>5. to \in Streams /\ HitFits(to)
    BY <2>2, <2>3, <2>4 DEF HitFits, Streams
  <2> QED BY <2>3, <2>5 DEF to
<1>3. CASE op \in PlainOps
  <2>1. place \in {"history", "failed", "delete"}
    <3>1. op \notin HitOps
      BY <1>3 DEF HitOps, PlainOps
    <3>2. op \notin ModelOps
      BY <1>3 DEF ModelOps, PlainOps
    <3> QED BY <3>1, <3>2
  <2>2. to \in PlainOps
    BY <1>3, <2>1 DEF PlainOps
  <2>3. to.pc = place /\ to.sid = op.sid /\ to.by = op.by /\ to.q = op.q /\ to.new = op.new
    BY <1>3 DEF PlainOps
  <2> HIDE DEF to
  <2>4. to \notin HitOps
    BY <2>2 DEF HitOps, PlainOps
  <2>5. to \in Streams /\ HitFits(to)
    BY <2>2, <2>3, <2>4 DEF HitFits, Streams
  <2> QED BY <2>3, <2>5 DEF to
<1> QED BY <1>1, <1>2, <1>3 DEF Streams

(* A session that is created, and one that a further stream works on.      *)
LEMMA StreamStarts ==
  ASSUME ChatInv, NEW o \in ChatOps, ~Streaming(o), NEW op \in PlainOps, op.pc = "cache",
         chatOp' = [chatOp EXCEPT ![o] = op], UNCHANGED <<l1, l2, cacheNow, chatFaults>>,
         NEW c \in ChatRecords, chats' = [chats EXCEPT ![op.sid] = c], op.by = c.owner,
         c = chats[op.sid] \/ (c.messages = <<>> /\ UsedBy(op.sid) = {}),
         ~chatRaced' /\ ~op.new => c.messages # <<>>,
         chatRaced' = (chatRaced \/ UsedBy(op.sid) # {})
  PROVE  ChatInv'
<1> USE ChatRecordIsChat
<1> DEFINE s == op.sid
<1>0. s \in ChatIds /\ op \in Streams /\ chatRaced \in BOOLEAN /\ chatRaced' \in BOOLEAN /\ (chatRaced => chatRaced')
  <2>1. s \in ChatIds /\ op \in Streams
    BY DEF PlainOps, Streams
  <2> QED BY <2>1 DEF ChatInv, ChatShape
<1>1. \A p \in ChatOps : chatOp'[p] = IF p = o THEN op ELSE chatOp[p]
  BY DEF ChatInv, ChatShape
<1>2. \A t \in ChatIds : chats'[t] = IF t = s THEN c ELSE chats[t]
  BY DEF ChatInv, ChatShape
<1>3. \A p \in ChatOps : Streaming(p)' <=> Streaming(p) \/ p = o
  BY <1>1 DEF Streaming
<1>u. UsedBy(s) = {} <=> \A p \in ChatOps : Streaming(p) => chatOp[p].sid # s
  BY DEF UsedBy, Streaming
<1>i. \A p \in ChatOps : Streaming(p) => chatOp[p].sid \in ChatIds
  BY StreamShape DEF ChatInv
<1>4. ChatShape'
  <2>1. chatOp' \in [ChatOps -> {ChatIdle} \cup Streams]
    BY <1>0 DEF ChatInv, ChatShape
  <2>2. chats' \in [ChatIds -> {NoChat} \cup ChatRecords]
    BY DEF ChatInv, ChatShape
  <2>3. CacheFits'
    BY DEF ChatInv, ChatShape, CacheFits
  <2> QED BY <1>0, <2>1, <2>2, <2>3 DEF ChatInv, ChatShape
<1>5. ASSUME NEW p \in ChatOps, Streaming(p)'
      PROVE  HitFits(chatOp'[p]) /\ Owns(chatOp'[p], chats'[chatOp'[p].sid])
  <2>1. CASE p = o
    <3>1. op \notin HitOps
      BY DEF HitOps, PlainOps
    <3> QED BY <1>0, <1>1, <1>2, <2>1, <3>1 DEF HitFits, Owns
  <2>2. CASE p # o
    <3>1. Streaming(p) /\ HitFits(chatOp[p]) /\ Owns(chatOp[p], chats[chatOp[p].sid])
      BY <1>3, <1>5, <2>2 DEF ChatInv
    <3>2. CASE chatOp[p].sid = s
      <4>1. c = chats[s]
        BY <1>u, <3>1, <3>2
      <4> QED BY <1>0, <1>1, <1>2, <2>2, <3>1, <3>2, <4>1
    <3>3. CASE chatOp[p].sid # s
      BY <1>1, <1>2, <1>i, <2>2, <3>1, <3>3
    <3> QED BY <3>2, <3>3
  <2> QED BY <2>1, <2>2
<1>6. ASSUME NEW t \in ChatIds PROVE AnswersFit(chats'[t], chatRaced')
  <2>1. AnswersFit(chats[t], chatRaced')
    BY <1>0, RacingWeakens DEF ChatInv
  <2>2. c.messages = <<>> => AnswersFit(c, chatRaced')
    BY DEF AnswersFit
  <2> QED BY <1>2, <2>1, <2>2
<1>7. ASSUME ~chatRaced'
      PROVE  /\ \A p, r \in ChatOps : Streaming(p)' /\ Streaming(r)' /\ chatOp'[p].sid = chatOp'[r].sid => p = r
             /\ \A p \in ChatOps : Streaming(p)' => Alone(chatOp'[p], chats'[chatOp'[p].sid], chatFaults)
             /\ \A t \in ChatIds : (\A p \in ChatOps : Streaming(p)' => chatOp'[p].sid # t) => AtRest(chats'[t], chatFaults)
  <2>0. ~chatRaced /\ \A p \in ChatOps : Streaming(p) => chatOp[p].sid # s
    BY <1>u, <1>7
  <2>1. \A p, r \in ChatOps : Streaming(p)' /\ Streaming(r)' /\ chatOp'[p].sid = chatOp'[r].sid => p = r
    BY <1>1, <1>3, <2>0 DEF ChatInv
  <2>2. ASSUME NEW p \in ChatOps, Streaming(p)' PROVE Alone(chatOp'[p], chats'[chatOp'[p].sid], chatFaults)
    <3>1. CASE p = o
      BY <1>0, <1>1, <1>2, <1>7, <3>1 DEF Alone
    <3>2. CASE p # o
      <4>1. Streaming(p) /\ chatOp[p].sid # s /\ Alone(chatOp[p], chats[chatOp[p].sid], chatFaults)
        BY <1>3, <2>0, <2>2, <3>2 DEF ChatInv
      <4> QED BY <1>1, <1>2, <1>i, <3>2, <4>1
    <3> QED BY <3>1, <3>2
  <2>3. ASSUME NEW t \in ChatIds, \A p \in ChatOps : Streaming(p)' => chatOp'[p].sid # t
        PROVE  AtRest(chats'[t], chatFaults)
    <3>1. t # s /\ \A p \in ChatOps : Streaming(p) => chatOp[p].sid # t
      BY <1>1, <1>3, <2>0, <2>3
    <3> QED BY <1>2, <2>0, <3>1 DEF ChatInv
  <2> QED BY <2>1, <2>2, <2>3
<1> QED BY <1>4, <1>5, <1>6, <1>7 DEF ChatInv

LEMMA SessionCleared ==
  ASSUME ChatInv, NEW s \in ChatIds, chats' = [chats EXCEPT ![s] = NoChat],
         UNCHANGED <<chatOp, chatFaults, l1, l2, cacheNow>>, chatRaced' = (chatRaced \/ UsedBy(s) # {})
  PROVE  ChatInv'
<1>0. chatRaced \in BOOLEAN /\ chatRaced' \in BOOLEAN /\ (chatRaced => chatRaced')
  BY DEF ChatInv, ChatShape
<1>2. \A t \in ChatIds : chats'[t] = IF t = s THEN NoChat ELSE chats[t]
  BY DEF ChatInv, ChatShape
<1>u. UsedBy(s) = {} <=> \A p \in ChatOps : Streaming(p) => chatOp[p].sid # s
  BY DEF UsedBy, Streaming
<1>3. \A p \in ChatOps : Streaming(p)' <=> Streaming(p)
  BY DEF Streaming
<1>i. \A p \in ChatOps : Streaming(p) => chatOp[p].sid \in ChatIds
  BY StreamShape DEF ChatInv
<1>4. ChatShape'
  <2>1. chats' \in [ChatIds -> {NoChat} \cup ChatRecords]
    BY DEF ChatInv, ChatShape
  <2>2. CacheFits'
    BY DEF ChatInv, ChatShape, CacheFits
  <2> QED BY <1>0, <2>1, <2>2 DEF ChatInv, ChatShape
<1>5. ASSUME NEW p \in ChatOps, Streaming(p)
      PROVE  HitFits(chatOp[p]) /\ Owns(chatOp[p], chats'[chatOp[p].sid])
  <2>1. HitFits(chatOp[p]) /\ Owns(chatOp[p], chats[chatOp[p].sid])
    BY <1>5 DEF ChatInv
  <2> QED BY <1>2, <1>5, <1>i, <2>1 DEF Owns
<1>6. ASSUME NEW t \in ChatIds PROVE AnswersFit(chats'[t], chatRaced')
  <2>1. AnswersFit(chats[t], chatRaced') /\ AnswersFit(NoChat, chatRaced')
    BY <1>0, RacingWeakens DEF ChatInv, AnswersFit
  <2> QED BY <1>2, <2>1
<1>7. ASSUME ~chatRaced'
      PROVE  /\ \A p, r \in ChatOps : Streaming(p) /\ Streaming(r) /\ chatOp[p].sid = chatOp[r].sid => p = r
             /\ \A p \in ChatOps : Streaming(p) => Alone(chatOp[p], chats'[chatOp[p].sid], chatFaults)
             /\ \A t \in ChatIds : (\A p \in ChatOps : Streaming(p) => chatOp[p].sid # t) => AtRest(chats'[t], chatFaults)
  <2>0. ~chatRaced /\ \A p \in ChatOps : Streaming(p) => chatOp[p].sid # s
    BY <1>u, <1>7
  <2>1. \A p, r \in ChatOps : Streaming(p) /\ Streaming(r) /\ chatOp[p].sid = chatOp[r].sid => p = r
    BY <2>0 DEF ChatInv
  <2>2. ASSUME NEW p \in ChatOps, Streaming(p) PROVE Alone(chatOp[p], chats'[chatOp[p].sid], chatFaults)
    BY <1>2, <1>i, <2>0, <2>2 DEF ChatInv
  <2>3. ASSUME NEW t \in ChatIds, \A p \in ChatOps : Streaming(p) => chatOp[p].sid # t
        PROVE  AtRest(chats'[t], chatFaults)
    BY <1>2, <2>0, <2>3 DEF ChatInv, AtRest
  <2> QED BY <2>1, <2>2, <2>3
<1> QED BY <1>3, <1>4, <1>5, <1>6, <1>7 DEF ChatInv

LEMMA ChatPreserved ==
  ASSUME ChatInv, [ChatNext]_chatVars PROVE ChatInv'
<1> USE ChatRecordIsChat
<1>s. /\ CacheFits /\ chatFaults \in Nat /\ chatFaults \in 0 .. ChatFaultMax /\ chatRaced \in BOOLEAN
      /\ chats \in [ChatIds -> {NoChat} \cup ChatRecords]
      /\ chatOp \in [ChatOps -> {ChatIdle} \cup Streams]
  BY DEF ChatInv, ChatShape
<1>k. UNCHANGED cacheVars => CacheFits' /\ UNCHANGED <<l1, l2, cacheNow>>
  BY <1>s DEF CacheFits, cacheVars
<1>o. \A s \in ChatIds : s \in OpenChats <=> chats[s] # NoChat
  BY DEF OpenChats
<1>i. \A o \in ChatOps : chatOp[o] = ChatIdle <=> ~Streaming(o)
  BY <1>s DEF Streaming, ChatIdle, Streams, PlainOps, HitOps, ModelOps
(* What is known of a stream and of its session.                           *)
<1>f. ASSUME NEW o \in ChatOps, Streaming(o)
      PROVE  /\ chatOp[o] \in Streams /\ chatOp[o].sid \in ChatIds /\ chatOp[o].by \in ChatUsers
             /\ chatOp[o].q \in Questions
             /\ HitFits(chatOp[o]) /\ Owns(chatOp[o], chats[chatOp[o].sid])
             /\ AnswersFit(chats[chatOp[o].sid], chatRaced)
             /\ chats[chatOp[o].sid] \in {NoChat} \cup ChatRecords
             /\ chats = [chats EXCEPT ![chatOp[o].sid] = chats[chatOp[o].sid]]
             /\ ~chatRaced => Alone(chatOp[o], chats[chatOp[o].sid], chatFaults)
  BY <1>f, <1>s, StreamShape DEF ChatInv
(* A stream goes to another place and leaves its session as it is.         *)
<1>g. ASSUME NEW o \in ChatOps, Streaming(o), NEW place, ChatGo(o, place), place # "hitReply",
             \/ place \in {"failed", "delete"}
             \/ chatOp[o] \in HitOps /\ place = "end"
             \/ chatOp[o] \in ModelOps /\ place \in {"store", "end"}
             \/ chatOp[o] \in PlainOps /\ place = "history",
             CacheFits', UNCHANGED <<chats, chatRaced>>,
             chatFaults' \in 0 .. ChatFaultMax, chatFaults' >= chatFaults,
             ~chatRaced => /\ place \in {"store", "end"} => Answered(chats[chatOp[o].sid].messages)
                           /\ place \in {"failed", "delete"} => chatFaults' > 0
                           /\ place = "delete" => chats[chatOp[o].sid].messages = <<>>
      PROVE  ChatInv'
  <2> DEFINE op == chatOp[o]
             to == [op EXCEPT !.pc = place]
             c == chats[op.sid]
  <2>1. chatOp' = [chatOp EXCEPT ![o] = to]
    BY <1>g, <1>s DEF ChatGo
  <2>2. /\ to \in Streams /\ HitFits(to) /\ to.pc = place
        /\ to.sid = op.sid /\ to.by = op.by /\ to.q = op.q /\ to.new = op.new
    <3>1. op \in Streams /\ HitFits(op)
      BY <1>f, <1>g
    <3> HIDE DEF op
    <3> QED BY <1>g, <3>1, StreamPlaced DEF op
  <2> HIDE DEF to
  <2>3. /\ Owns(op, c) /\ AnswersFit(c, chatRaced) /\ c \in {NoChat} \cup ChatRecords
        /\ chats' = [chats EXCEPT ![op.sid] = c] /\ op \in Streams
        /\ ~chatRaced => Alone(op, c, chatFaults)
    BY <1>f, <1>g
  <2>4. Owns(to, c)
    BY <1>g, <2>2, <2>3 DEF Owns
  <2>m. place # "model"
    BY <1>g
  <2>5. ~chatRaced => Alone(to, c, chatFaults')
    BY <1>g, <2>2, <2>3, <2>m DEF Alone
  <2> QED BY <1>g, <2>1, <2>2, <2>3, <2>4, <2>5, StreamGoes
(* A stream stores rows in a session that is there, and goes on.           *)
<1>r. ASSUME NEW o \in ChatOps, Streaming(o), NEW place, ChatGo(o, place),
             \/ chatOp[o] \in HitOps /\ place \in {"hitReply", "end"}
             \/ chatOp[o] \in ModelOps /\ place = "store",
             UNCHANGED <<l1, l2, cacheNow, chatFaults, chatRaced>>,
             NEW d \in ChatRecords, chats' = [chats EXCEPT ![chatOp[o].sid] = d],
             chats[chatOp[o].sid] # NoChat,
             d.owner = chats[chatOp[o].sid].owner, d.messages # <<>>, AnswersFit(d, chatRaced),
             place = "hitReply" => d.messages[Len(d.messages)] = Ask(chatOp[o].q),
             place # "hitReply" => Answered(d.messages)
      PROVE  ChatInv'
  <2> DEFINE op == chatOp[o]
             to == [op EXCEPT !.pc = place]
             c == chats[op.sid]
  <2>1. chatOp' = [chatOp EXCEPT ![o] = to]
    BY <1>r, <1>s DEF ChatGo
  <2>2. /\ to \in Streams /\ HitFits(to) /\ to.pc = place
        /\ to.sid = op.sid /\ to.by = op.by /\ to.q = op.q /\ to.new = op.new
    <3>1. op \in Streams /\ HitFits(op)
      BY <1>f, <1>r
    <3> HIDE DEF op
    <3> QED BY <1>r, <3>1, StreamPlaced DEF op
  <2> HIDE DEF to
  <2>3. Owns(op, c) /\ op \in Streams /\ CacheFits'
    BY <1>f, <1>r, <1>s DEF CacheFits
  <2>4. Owns(to, d)
    BY <1>r, <2>2, <2>3 DEF Owns
  <2>m. place \notin {"model", "failed", "delete"}
    BY <1>r
  <2>5. Alone(to, d, chatFaults)
    <3>1. to.pc \in {"store", "end"} => Answered(d.messages)
      BY <1>r, <2>2
    <3>2. to.pc = "hitReply" => d.messages[Len(d.messages)] = Ask(to.q)
      BY <1>r, <2>2
    <3> QED BY <1>r, <2>2, <2>m, <3>1, <3>2 DEF Alone
  <2>6. chatFaults' \in 0 .. ChatFaultMax /\ chatFaults' >= chatFaults /\ d \in {NoChat} \cup ChatRecords
    BY <1>r, <1>s
  <2> QED BY <1>r, <2>1, <2>2, <2>3, <2>4, <2>5, <2>6, StreamGoes
(* A stream whose session is gone fails to store.                          *)
<1>m. ASSUME NEW o \in ChatOps, Streaming(o), chatOp[o].sid \notin OpenChats, ChatGo(o, "failed"), UNCHANGED chats,
             UNCHANGED <<l1, l2, cacheNow, chatFaults, chatRaced>>
      PROVE  ChatInv'
  <2>1. chatRaced
    BY <1>f, <1>m, <1>o DEF Alone
  <2>2. CacheFits' /\ chatFaults' \in 0 .. ChatFaultMax /\ chatFaults' >= chatFaults
    BY <1>m, <1>s DEF CacheFits
  <2> QED BY <1>g, <1>m, <2>1, <2>2
<1>1. CASE UNCHANGED chatVars
  <2>1. UNCHANGED <<chats, chatOp, chatFaults, chatRaced, l1, l2, cacheNow>>
    BY <1>1 DEF chatVars, cacheVars
  <2> QED BY <2>1 DEF ChatInv, ChatShape, CacheFits, Streaming
<1>2. CASE CacheTick /\ UNCHANGED <<chats, chatOp, chatFaults, chatRaced>>
  <2>1. CacheFits'
    <3>1. cacheNow \in Nat /\ CacheTimeMax \in Nat
      BY <1>s, CacheAssumption DEF CacheFits
    <3>2. cacheNow' \in 0 .. CacheTimeMax
      BY <1>2, <3>1 DEF CacheTick
    <3> QED BY <1>2, <1>s, <3>2 DEF CacheTick, CacheFits
  <2> QED BY <1>2, <2>1 DEF ChatInv, ChatShape, Streaming
<1>3. CASE ClearChat
  <2>1. PICK s \in ChatIds : chats' = [chats EXCEPT ![s] = NoChat] /\ chatRaced' = (chatRaced \/ UsedBy(s) # {})
    BY <1>3 DEF ClearChat, OpenChats
  <2> QED BY <1>3, <1>k, <2>1, SessionCleared DEF ClearChat
<1>4. ASSUME NEW o \in ChatOps, StreamNew(o) PROVE ChatInv'
  <2>1. PICK s \in ChatIds \ OpenChats, u \in ChatUsers, q \in Questions :
          /\ UsedBy(s) = {}
          /\ chats' = [chats EXCEPT ![s] = [owner |-> u, messages |-> <<>>]]
          /\ chatOp' = [chatOp EXCEPT ![o] = [pc |-> "cache", sid |-> s, by |-> u, q |-> q, new |-> TRUE]]
    BY <1>4 DEF StreamNew
  <2> DEFINE op == [pc |-> "cache", sid |-> s, by |-> u, q |-> q, new |-> TRUE]
             c == [owner |-> u, messages |-> <<>>]
  <2>2. op \in PlainOps /\ op.pc = "cache" /\ op.sid = s /\ op.by = u /\ op.new
    BY DEF PlainOps
  <2>3. c \in ChatRecords /\ c.owner = u /\ c.messages = <<>>
    BY DEF ChatRecords
  <2>4. chatOp' = [chatOp EXCEPT ![o] = op] /\ chats' = [chats EXCEPT ![s] = c]
    BY <2>1
  <2> HIDE DEF op, c
  <2>5. ~Streaming(o) /\ UNCHANGED <<l1, l2, cacheNow, chatFaults>> /\ chatRaced' = chatRaced
    BY <1>4, <1>i, <1>k DEF StreamNew
  <2>6. chatRaced' = (chatRaced \/ UsedBy(s) # {})
    BY <1>s, <2>1, <2>5
  <2>7. /\ UsedBy(op.sid) = {} /\ chats' = [chats EXCEPT ![op.sid] = c]
        /\ chatRaced' = (chatRaced \/ UsedBy(op.sid) # {}) /\ op.by = c.owner /\ c.messages = <<>>
    BY <2>1, <2>2, <2>3, <2>4, <2>6
  <2> QED BY <2>2, <2>3, <2>4, <2>5, <2>7, StreamStarts
<1>5. ASSUME NEW o \in ChatOps, StreamOn(o) PROVE ChatInv'
  <2>1. PICK s \in OpenChats, q \in Questions :
          /\ chatOp' = [chatOp EXCEPT ![o] =
               [pc |-> "cache", sid |-> s, by |-> chats[s].owner, q |-> q, new |-> FALSE]]
          /\ chatRaced' = (chatRaced \/ UsedBy(s) # {})
    BY <1>5 DEF StreamOn
  <2> DEFINE c == chats[s]
             op == [pc |-> "cache", sid |-> s, by |-> c.owner, q |-> q, new |-> FALSE]
  <2>2. s \in ChatIds /\ c \in ChatRecords /\ c.owner \in ChatUsers /\ chats' = [chats EXCEPT ![s] = c]
    BY <1>5, <1>s DEF StreamOn, OpenChats, ChatRecords
  <2>3. op \in PlainOps /\ op.pc = "cache" /\ op.sid = s /\ op.by = c.owner /\ ~op.new
    BY <2>2 DEF PlainOps
  <2>4. ~Streaming(o) /\ UNCHANGED <<l1, l2, cacheNow, chatFaults>>
    BY <1>5, <1>i, <1>k DEF StreamOn
  <2>5. ASSUME ~chatRaced' PROVE c.messages # <<>>
    <3>1. ~chatRaced /\ UsedBy(s) = {}
      BY <1>s, <2>1, <2>5
    <3>2. AtRest(c, chatFaults)
      BY <2>2, <3>1 DEF ChatInv, UsedBy, Streaming
    <3> QED BY <2>2, <3>2 DEF AtRest
  <2>6. chatOp' = [chatOp EXCEPT ![o] = op]
    BY <2>1
  <2> HIDE DEF op
  <2>7. chats' = [chats EXCEPT ![op.sid] = c] /\ chatRaced' = (chatRaced \/ UsedBy(op.sid) # {}) /\ c = chats[op.sid]
    BY <2>1, <2>2, <2>3
  <2> HIDE DEF c
  <2> QED BY <2>2, <2>3, <2>4, <2>5, <2>6, <2>7, StreamStarts
<1>6. ASSUME NEW o \in ChatOps, ReadCache(o) PROVE ChatInv'
  <2> DEFINE op == chatOp[o]
  <2>1. /\ op.pc = "cache" /\ Streaming(o) /\ UNCHANGED <<chats, chatFaults, chatRaced>> /\ op \in PlainOps
        /\ op.by \in ChatUsers /\ op.q \in Questions /\ op.sid \in ChatIds /\ op.new \in BOOLEAN
    <3>1. op.pc = "cache" /\ Streaming(o) /\ UNCHANGED <<chats, chatFaults, chatRaced>>
      BY <1>6 DEF ReadCache, Streaming
    <3> QED BY <1>s, <3>1, StreamShape, StreamKinds DEF ChatInv
  <2>2. PICK answers \in BOOLEAN, gave \in {r.entry : r \in ToSet(l1) \cup l2} \cup {Nothing} :
          /\ CacheGet(CacheKey(op), answers, gave)
          /\ chatOp' = [chatOp EXCEPT ![o] =
               IF gave = Nothing THEN [op EXCEPT !.pc = "history"]
               ELSE [pc |-> "hitAsk", sid |-> op.sid, by |-> op.by, q |-> op.q, new |-> op.new, entry |-> gave]]
    BY <1>6 DEF ReadCache
  <2>3. CacheKey(op) \in ChatTenants \X Questions /\ CacheKey(op) = <<TenantOf[op.by], op.q>>
    BY <2>1, CacheKeyFits
  <2>4. CacheFits' /\ (gave # Nothing => gave \in Answers /\ CacheKey(op) = <<gave.tenant, gave.q>>)
    BY <1>s, <2>2, <2>3, CacheGetFits
  <2>5. CASE gave = Nothing
    <3>1. ChatGo(o, "history")
      BY <1>s, <2>2, <2>5 DEF ChatGo
    <3>2. chatFaults' \in 0 .. ChatFaultMax /\ chatFaults' >= chatFaults
      BY <1>s, <2>1
    <3> QED BY <1>g, <2>1, <2>4, <3>1, <3>2
  <2>6. CASE gave # Nothing
    <3> DEFINE to == [pc |-> "hitAsk", sid |-> op.sid, by |-> op.by, q |-> op.q, new |-> op.new, entry |-> gave]
               c == chats[op.sid]
    <3>1. gave \in Answers /\ gave.q = op.q /\ gave.tenant = TenantOf[op.by]
      BY <2>3, <2>4, <2>6
    <3>2. /\ to \in Streams /\ HitFits(to) /\ to.pc = "hitAsk"
          /\ to.sid = op.sid /\ to.by = op.by /\ to.q = op.q /\ to.new = op.new
      BY <2>1, <3>1 DEF Streams, HitOps, HitFits
    <3>3. chatOp' = [chatOp EXCEPT ![o] = to]
      BY <2>2, <2>6
    <3> HIDE DEF to
    <3>4. /\ Owns(op, c) /\ AnswersFit(c, chatRaced) /\ c \in {NoChat} \cup ChatRecords
          /\ chats' = [chats EXCEPT ![op.sid] = c] /\ (~chatRaced => Alone(op, c, chatFaults))
      BY <1>f, <2>1
    <3>5. Owns(to, c) /\ (~chatRaced => Alone(to, c, chatFaults'))
      BY <2>1, <3>2, <3>4 DEF Owns, Alone
    <3>6. chatFaults' \in 0 .. ChatFaultMax /\ chatFaults' >= chatFaults
      BY <1>s, <2>1
    <3> HIDE DEF op, c
    <3>7. Streaming(o) /\ chatRaced' = chatRaced /\ op = chatOp[o] /\ c = chats[chatOp[o].sid]
      BY <2>1 DEF op, c
    <3> QED BY <2>4, <3>2, <3>3, <3>4, <3>5, <3>6, <3>7, StreamGoes
  <2> QED BY <2>5, <2>6
<1>7. ASSUME NEW o \in ChatOps, StoreHitAsk(o) PROVE ChatInv'
  <2> DEFINE op == chatOp[o]
             c == chats[op.sid]
             d == [c EXCEPT !.messages = @ \o <<Ask(op.q)>>]
  <2>1. /\ Streaming(o) /\ UNCHANGED <<l1, l2, cacheNow, chatFaults, chatRaced>> /\ op \in HitOps
        /\ Store(o, <<Ask(op.q)>>, "hitReply")
    <3>1. op.pc = "hitAsk" /\ Streaming(o)
      BY <1>7 DEF StoreHitAsk, Streaming
    <3> QED BY <1>7, <1>f, <1>k, <3>1, StreamKinds DEF StoreHitAsk
  <2>2. CASE op.sid \in OpenChats
    <3>1. c \in ChatRecords /\ c # NoChat /\ op.q \in Questions /\ AnswersFit(c, chatRaced)
      BY <1>f, <1>o, <2>1, <2>2
    <3>2. chats' = [chats EXCEPT ![op.sid] = d] /\ ChatGo(o, "hitReply")
      BY <1>s, <2>1, <2>2 DEF Store
    <3>3. /\ d \in ChatRecords /\ d.owner = c.owner /\ d.messages # <<>>
          /\ d.messages[Len(d.messages)] = Ask(op.q) /\ AnswersFit(d, chatRaced)
      <4> HIDE DEF c, op
      <4> QED BY <1>s, <3>1, QuestionAdded
    <3> HIDE DEF d
    <3> QED BY <1>r, <2>1, <3>1, <3>2, <3>3
  <2>3. CASE op.sid \notin OpenChats
    BY <1>m, <2>1, <2>3 DEF Store
  <2> QED BY <2>2, <2>3
<1>8. ASSUME NEW o \in ChatOps, StoreHitReply(o) PROVE ChatInv'
  <2> DEFINE op == chatOp[o]
             c == chats[op.sid]
             d == [c EXCEPT !.messages = @ \o <<Reply(op.entry)>>]
  <2>1. /\ Streaming(o) /\ UNCHANGED <<l1, l2, cacheNow, chatFaults, chatRaced>> /\ op \in HitOps
        /\ op.pc = "hitReply" /\ Store(o, <<Reply(op.entry)>>, "end")
    <3>1. op.pc = "hitReply" /\ Streaming(o)
      BY <1>8 DEF StoreHitReply, Streaming
    <3> QED BY <1>8, <1>f, <1>k, <3>1, StreamKinds DEF StoreHitReply
  <2>2. CASE op.sid \in OpenChats
    <3>1. c \in ChatRecords /\ c # NoChat /\ AnswersFit(c, chatRaced)
      BY <1>f, <1>o, <2>1, <2>2
    <3>2. chats' = [chats EXCEPT ![op.sid] = d] /\ ChatGo(o, "end")
      BY <1>s, <2>1, <2>2 DEF Store
    <3>3. /\ op.entry \in Answers /\ op.entry.q = op.q /\ op.entry.tenant = TenantOf[c.owner] /\ c.messages # <<>>
          /\ ~chatRaced => c.messages[Len(c.messages)] = Ask(op.entry.q)
      <4>1. op.entry \in Answers /\ op.entry.q = op.q /\ op.entry.tenant = TenantOf[op.by]
        BY <1>f, <2>1 DEF HitFits, HitOps
      <4>2. op.by = c.owner /\ c.messages # <<>>
        BY <1>f, <2>1, <3>1 DEF Owns
      <4>3. ~chatRaced => c.messages[Len(c.messages)] = Ask(op.q)
        BY <1>f, <2>1 DEF Alone
      <4> QED BY <4>1, <4>2, <4>3
    <3>4. /\ d \in ChatRecords /\ d.owner = c.owner /\ Answered(d.messages) /\ AnswersFit(d, chatRaced)
      <4> HIDE DEF c, op
      <4> QED BY <1>s, <3>1, <3>3, ReplyAdded
    <3> HIDE DEF d
    <3>5. d.messages # <<>>
      BY <3>4 DEF Answered
    <3>6. "end" # "hitReply" /\ c = chats[chatOp[o].sid] /\ op = chatOp[o]
      OBVIOUS
    <3> HIDE DEF c, op
    <3> QED BY <1>r, <2>1, <3>1, <3>2, <3>4, <3>5, <3>6
  <2>3. CASE op.sid \notin OpenChats
    BY <1>m, <2>1, <2>3 DEF Store
  <2> QED BY <2>2, <2>3
<1>9. ASSUME NEW o \in ChatOps, ReadHistory(o) PROVE ChatInv'
  <2> DEFINE op == chatOp[o]
             c == chats[op.sid]
             messages == IF op.sid \in OpenChats THEN c.messages ELSE <<>>
             prompt == TrimHistory(GetHistory(messages))
             to == [pc |-> "model", sid |-> op.sid, by |-> op.by, q |-> op.q, new |-> op.new, prompt |-> prompt]
  <2>1. /\ op.pc = "history" /\ Streaming(o) /\ UNCHANGED <<chats, chatFaults, chatRaced>> /\ CacheFits'
        /\ chatOp' = [chatOp EXCEPT ![o] = to]
    BY <1>9, <1>k DEF ReadHistory, Streaming
  <2>2. /\ op.by \in ChatUsers /\ op.q \in Questions /\ op.sid \in ChatIds /\ op.new \in BOOLEAN
    BY <2>1, StreamShape DEF ChatInv
  <2>3. /\ Owns(op, c) /\ AnswersFit(c, chatRaced) /\ c \in {NoChat} \cup ChatRecords
        /\ chats' = [chats EXCEPT ![op.sid] = c] /\ (~chatRaced => Alone(op, c, chatFaults))
    BY <1>f, <2>1
  <2>4. prompt \in Seq(ChatRows)
    <3>1. messages \in Seq(ChatRows)
      BY <1>o, <2>2, <2>3 DEF ChatRecords
    <3> HIDE DEF messages
    <3> QED BY <3>1, PromptFits
  <2>5. ~chatRaced => prompt = TrimHistory(GetHistory(c.messages))
    <3>1. ~chatRaced => op.sid \in OpenChats
      BY <1>o, <2>2, <2>3 DEF Alone
    <3> QED BY <3>1
  <2> HIDE DEF prompt
  <2>6. /\ to \in ModelOps /\ to.pc = "model" /\ to.prompt = prompt
        /\ to.sid = op.sid /\ to.by = op.by /\ to.q = op.q /\ to.new = op.new
    BY <2>2, <2>4 DEF ModelOps
  <2> HIDE DEF to
  <2>7. to \in Streams /\ HitFits(to)
    <3>1. to \notin HitOps
      BY <2>6 DEF ModelOps, HitOps
    <3> QED BY <2>6, <3>1 DEF Streams, HitFits
  <2>8. Owns(to, c) /\ (~chatRaced => Alone(to, c, chatFaults'))
    BY <2>1, <2>3, <2>5, <2>6 DEF Owns, Alone
  <2>9. chatFaults' \in 0 .. ChatFaultMax /\ chatFaults' >= chatFaults
    BY <1>s, <2>1
  <2> HIDE DEF op, c
  <2>a. Streaming(o) /\ chatRaced' = chatRaced /\ op = chatOp[o] /\ c = chats[chatOp[o].sid] /\ CacheFits'
    BY <2>1 DEF op, c
  <2> QED BY <2>1, <2>3, <2>6, <2>7, <2>8, <2>9, <2>a, StreamGoes
<1>10. ASSUME NEW o \in ChatOps, StoreAnswer(o) PROVE ChatInv'
  <2> DEFINE op == chatOp[o]
             c == chats[op.sid]
             entry == [q |-> op.q, tenant |-> TenantOf[op.by]]
             d == [c EXCEPT !.messages = @ \o <<Ask(op.q), Reply(entry)>>]
  <2>1. /\ Streaming(o) /\ UNCHANGED <<l1, l2, cacheNow, chatFaults, chatRaced>> /\ op \in ModelOps
        /\ Store(o, <<Ask(op.q), Reply(entry)>>, "store")
    <3>1. op.pc = "model" /\ Streaming(o)
      BY <1>10 DEF StoreAnswer, Streaming
    <3> QED BY <1>10, <1>f, <1>k, <3>1, StreamKinds DEF StoreAnswer
  <2>2. CASE op.sid \in OpenChats
    <3>1. c \in ChatRecords /\ c # NoChat /\ AnswersFit(c, chatRaced) /\ op.by = c.owner
      BY <1>f, <1>o, <2>1, <2>2 DEF Owns
    <3>2. chats' = [chats EXCEPT ![op.sid] = d] /\ ChatGo(o, "store")
      BY <1>s, <2>1, <2>2 DEF Store
    <3>3. entry \in Answers /\ entry.q = op.q /\ entry.tenant = TenantOf[c.owner]
      BY <1>f, <2>1, <3>1, CacheKeyFits
    <3>4. d = [c EXCEPT !.messages = @ \o <<Ask(entry.q), Reply(entry)>>]
      BY <3>3
    <3>5. /\ d \in ChatRecords /\ d.owner = c.owner /\ Answered(d.messages) /\ AnswersFit(d, chatRaced)
      <4> HIDE DEF c, op, entry, d
      <4> QED BY <1>s, <3>1, <3>3, <3>4, RoundAdded
    <3> HIDE DEF d
    <3>6. d.messages # <<>>
      BY <3>5 DEF Answered
    <3>7. "store" # "hitReply" /\ c = chats[chatOp[o].sid] /\ op = chatOp[o]
      OBVIOUS
    <3> HIDE DEF c, op
    <3> QED BY <1>r, <2>1, <3>1, <3>2, <3>5, <3>6, <3>7
  <2>3. CASE op.sid \notin OpenChats
    BY <1>m, <2>1, <2>3 DEF Store
  <2> QED BY <2>2, <2>3
<1>11. ASSUME NEW o \in ChatOps, StoreCache(o) PROVE ChatInv'
  <2> DEFINE op == chatOp[o]
             entry == [q |-> op.q, tenant |-> TenantOf[op.by]]
  <2>1. op.pc = "store" /\ Streaming(o) /\ ChatGo(o, "end") /\ UNCHANGED <<chats, chatFaults, chatRaced>>
    BY <1>11 DEF StoreCache, Streaming
  <2>2. PICK answers \in BOOLEAN : CacheSet(CacheKey(op), entry, answers)
    BY <1>11 DEF StoreCache
  <2>3. op.by \in ChatUsers /\ op.q \in Questions /\ op \in ModelOps
    BY <1>f, <2>1, StreamKinds
  <2>4. CacheKey(op) \in ChatTenants \X Questions /\ CacheKey(op) = <<entry.tenant, entry.q>> /\ entry \in Answers
    BY <2>3, CacheKeyFits
  <2>5. CacheFits'
    <3> HIDE DEF op, entry
    <3> QED BY <1>s, <2>2, <2>4, CacheSetFits
  <2>6. chatFaults' \in 0 .. ChatFaultMax /\ chatFaults' >= chatFaults
    BY <1>s, <2>1
  <2>7. ~chatRaced => Answered(chats[op.sid].messages)
    BY <1>f, <2>1 DEF Alone
  <2> QED BY <1>g, <2>1, <2>3, <2>5, <2>6, <2>7
<1>12. ASSUME NEW o \in ChatOps, StreamEnds(o) PROVE ChatInv'
  <2>1. /\ chatOp[o].pc = "end" /\ Streaming(o) /\ chatOp' = [chatOp EXCEPT ![o] = ChatIdle]
        /\ UNCHANGED <<l1, l2, cacheNow, chats, chatRaced, chatFaults>>
    BY <1>12, <1>k DEF StreamEnds, ChatEnd, Streaming
  <2>2. chats' = [chats EXCEPT ![chatOp[o].sid] = chats[chatOp[o].sid]]
    BY <1>f, <2>1
  <2>3. ~chatRaced => AtRest(chats[chatOp[o].sid], chatFaults)
    BY <1>f, <2>1 DEF Alone, AtRest, Answered
  <2> QED BY <2>1, <2>2, <2>3, StreamLeaves
<1>13. ASSUME NEW o \in ChatOps, StreamFails(o) PROVE ChatInv'
  <2>1. Streaming(o) /\ ChatGo(o, "failed") /\ UNCHANGED <<chats, chatRaced>> /\ CacheFits'
    BY <1>13, <1>k DEF StreamFails, Streaming
  <2>2. chatFaults' \in 0 .. ChatFaultMax /\ chatFaults' >= chatFaults /\ chatFaults' > 0
    BY <1>13, <1>s, ChatAssumption DEF StreamFails
  <2> QED BY <1>g, <2>1, <2>2
<1>14. ASSUME NEW o \in ChatOps, CountMessages(o) PROVE ChatInv'
  <2> DEFINE op == chatOp[o]
  <2>1. /\ op.pc = "failed" /\ Streaming(o) /\ CacheFits'
        /\ UNCHANGED <<l1, l2, cacheNow, chats, chatRaced, chatFaults>>
    BY <1>14, <1>k DEF CountMessages, Streaming
  <2>2. ~chatRaced => Alone(op, chats[op.sid], chatFaults)
    BY <1>f, <2>1
  <2>3. CASE CleansUp(op)
    <3>1. ChatGo(o, "delete")
      BY <1>14, <2>3 DEF CountMessages
    <3>2. ~chatRaced => chatFaults' > 0 /\ chats[op.sid].messages = <<>>
      BY <2>1, <2>2, <2>3 DEF Alone, CleansUp
    <3>3. chatFaults' \in 0 .. ChatFaultMax /\ chatFaults' >= chatFaults
      BY <1>s, <2>1
    <3> QED BY <1>g, <2>1, <3>1, <3>2, <3>3
  <2>4. CASE ~CleansUp(op)
    <3>1. chatOp' = [chatOp EXCEPT ![o] = ChatIdle]
      BY <1>14, <2>4 DEF CountMessages, ChatEnd
    <3>2. ~chatRaced => AtRest(chats[op.sid], chatFaults)
      <4>1. op.sid \in ChatIds
        BY <1>f, <2>1
      <4> QED BY <1>o, <1>s, <2>1, <2>2, <2>4, <4>1 DEF Alone, AtRest, CleansUp
    <3>3. chats' = [chats EXCEPT ![op.sid] = chats[op.sid]]
      BY <1>f, <2>1
    <3> QED BY <2>1, <3>1, <3>2, <3>3, StreamLeaves
  <2> QED BY <2>3, <2>4
<1>15. ASSUME NEW o \in ChatOps, DeleteEmpty(o) PROVE ChatInv'
  <2>1. /\ Streaming(o) /\ chatOp' = [chatOp EXCEPT ![o] = ChatIdle]
        /\ UNCHANGED <<l1, l2, cacheNow, chatRaced, chatFaults>>
        /\ chats' = [chats EXCEPT ![chatOp[o].sid] = NoChat]
    BY <1>15, <1>k DEF DeleteEmpty, ChatEnd, Streaming
  <2>2. AtRest(NoChat, chatFaults)
    BY DEF AtRest
  <2> QED BY <2>1, <2>2, StreamLeaves
<1> QED BY <1>1, <1>2, <1>3, <1>4, <1>5, <1>6, <1>7, <1>8, <1>9, <1>10, <1>11, <1>12, <1>13, <1>14, <1>15 DEF ChatNext

(* The last front of a sequence is a suffix of it.                          *)
LEMMA TailIsSuffix ==
  ASSUME NEW S, NEW s \in Seq(S), NEW from \in 1 .. Len(s) + 1
  PROVE  IsSuffix(SubSeq(s, from, Len(s)), s)
<1> DEFINE n == Len(s)
           t == SubSeq(s, from, n)
           m == n + 1 - from
<1>1. n \in Nat /\ from \in Nat /\ from >= 1 /\ m \in Nat /\ m <= n /\ m + from = n + 1
  BY LenProperties
<1>2. t \in Seq(S) /\ Len(t) = m /\ \A i \in 1 .. m : t[i] = s[from + i - 1]
  BY <1>1, PartOfSeq
<1>s. \A i \in 1 .. n : s[i] \in S
  BY ElementOfSeq
<1> HIDE DEF n, t, m
<1>3. Reverse(t) \in Seq(S) /\ Len(Reverse(t)) = m /\ \A i \in 1 .. m : Reverse(t)[i] = s[n + 1 - i]
  <2> DEFINE f == [i \in 1 .. m |-> t[(m - i) + 1]]
  <2>1. \A i \in 1 .. m : t[(m - i) + 1] = s[n + 1 - i] /\ n + 1 - i \in 1 .. n
    <3> TAKE i \in 1 .. m
    <3>1. (m - i) + 1 \in 1 .. m /\ from + ((m - i) + 1) - 1 = n + 1 - i /\ n + 1 - i \in 1 .. n
      BY <1>1
    <3> QED BY <1>2, <3>1
  <2>2. Reverse(t) = f
    BY <1>2 DEF Reverse
  <2>3. f \in [1 .. m -> S]
    BY <1>s, <2>1
  <2>4. f \in Seq(S) /\ Len(f) = m
    <3> HIDE DEF f
    <3> QED BY <1>1, <2>3, SeqOfFun
  <2> QED BY <2>1, <2>2, <2>4
<1>4. Reverse(s) \in Seq(S) /\ Len(Reverse(s)) = n /\ \A i \in 1 .. n : Reverse(s)[i] = s[n + 1 - i]
  <2> DEFINE f == [i \in 1 .. n |-> s[(n - i) + 1]]
  <2>1. \A i \in 1 .. n : (n - i) + 1 = n + 1 - i /\ n + 1 - i \in 1 .. n
    BY <1>1
  <2>2. Reverse(s) = f
    BY DEF Reverse, n
  <2>3. f \in [1 .. n -> S]
    BY <1>s, <2>1
  <2>4. f \in Seq(S) /\ Len(f) = n
    <3> HIDE DEF f
    <3> QED BY <1>1, <2>3, SeqOfFun
  <2> QED BY <2>1, <2>2, <2>4
<1> DEFINE a == SubSeq(Reverse(t), 1, m)
           b == SubSeq(Reverse(s), 1, m)
<1>5. a \in Seq(S) /\ Len(a) = m /\ \A i \in 1 .. m : a[i] = Reverse(t)[i]
  <2>1. m <= m + 1 /\ 1 \in Nat \ {0} /\ 1 <= m + 1 /\ m + 1 - 1 = m /\ m <= m
    BY <1>1
  <2>2. a \in Seq(S) /\ Len(a) = m + 1 - 1 /\ \A i \in 1 .. m + 1 - 1 : a[i] = Reverse(t)[1 + i - 1]
    BY <1>1, <1>3, <2>1, PartOfSeq
  <2>3. \A i \in 1 .. m : 1 + i - 1 = i
    BY <1>1
  <2> QED BY <2>1, <2>2, <2>3
<1>6. b \in Seq(S) /\ Len(b) = m /\ \A i \in 1 .. m : b[i] = Reverse(s)[i]
  <2>1. 1 \in Nat \ {0} /\ 1 <= m + 1 /\ m + 1 - 1 = m /\ m <= n
    BY <1>1
  <2>2. b \in Seq(S) /\ Len(b) = m + 1 - 1 /\ \A i \in 1 .. m + 1 - 1 : b[i] = Reverse(s)[1 + i - 1]
    BY <1>1, <1>4, <2>1, PartOfSeq
  <2>3. \A i \in 1 .. m : 1 + i - 1 = i
    BY <1>1
  <2> QED BY <2>1, <2>2, <2>3
<1> HIDE DEF a, b
<1>7. \A i \in 1 .. m : a[i] = b[i]
  <2>1. \A i \in 1 .. m : i \in 1 .. n
    BY <1>1
  <2> QED BY <1>3, <1>4, <1>5, <1>6, <2>1
<1>8. a = b
  BY <1>5, <1>6, <1>7, SeqEqual
<1> QED BY <1>1, <1>3, <1>4, <1>8 DEF IsSuffix, IsPrefix, a, b, t, n

LEMMA ChatAgrees ==
  ASSUME ChatInv PROVE ChatTypeOK /\ CachedAnswersFit /\ ChatsAnsweredUnlessRaced /\ PromptIsRecent
<1>s. /\ chats \in [ChatIds -> {NoChat} \cup ChatRecords]
      /\ \A s \in OpenChats : s \in ChatIds /\ chats[s] # NoChat /\ chats[s] \in ChatRecords
  BY DEF ChatInv, ChatShape, OpenChats
<1>1. ChatTypeOK
  BY <1>s DEF ChatTypeOK, ChatInv, ChatShape, CacheFits, ChatRecords
<1>2. CachedAnswersFit
  BY <1>s DEF CachedAnswersFit, ChatInv, AnswersFit
<1>3. ChatsAnsweredUnlessRaced
  BY <1>s DEF ChatsAnsweredUnlessRaced, ChatInv, AtRest, Answered, UsedBy, Streaming
<1>4. ASSUME ~chatRaced, NEW o \in ChatOps, chatOp[o].pc = "model", Len(chats[chatOp[o].sid].messages) <= HistoryTake
      PROVE  /\ IsSuffix(chatOp[o].prompt, chats[chatOp[o].sid].messages)
             /\ Len(chats[chatOp[o].sid].messages) >= TokenBudget => Len(chatOp[o].prompt) = TokenBudget
  <2> DEFINE seen == chats[chatOp[o].sid].messages
             prompt == chatOp[o].prompt
             n == Len(seen)
             from == IF n > TokenBudget THEN n - TokenBudget + 1 ELSE 1
  <2>1. Streaming(o)
    BY <1>4 DEF Streaming
  <2>2. seen \in Seq(ChatRows) /\ prompt = TrimHistory(GetHistory(seen))
    <3>1. chatOp[o].sid \in ChatIds /\ Alone(chatOp[o], chats[chatOp[o].sid], chatFaults)
      BY <1>4, <2>1, StreamShape DEF ChatInv
    <3>2. chats[chatOp[o].sid] \in ChatRecords
      BY <1>s, <3>1 DEF Alone
    <3> QED BY <1>4, <3>1, <3>2 DEF Alone, ChatRecords
  <2>l. n \in Nat /\ n <= HistoryTake /\ HistoryTake \in Nat /\ TokenBudget \in Nat /\ TokenBudget > 0
    BY <1>4, <2>2, ChatAssumption
  <2> HIDE DEF seen, prompt
  <2>3. GetHistory(seen) = seen
    <3>1. GetHistory(seen) = SubSeq(seen, 1, n)
      <4>1. (IF n < HistoryTake THEN n ELSE HistoryTake) = n
        BY <2>l
      <4> QED BY <4>1 DEF GetHistory
    <3>2. SubSeq(seen, 1, n) \in Seq(ChatRows) /\ Len(SubSeq(seen, 1, n)) = n + 1 - 1
          /\ \A i \in 1 .. n + 1 - 1 : SubSeq(seen, 1, n)[i] = seen[1 + i - 1]
      <4>1. 1 \in Nat \ {0} /\ n <= n /\ 1 <= n + 1
        BY <2>l
      <4> QED BY <2>2, <2>l, <4>1, PartOfSeq
    <3>3. n + 1 - 1 = n /\ \A i \in 1 .. n : 1 + i - 1 = i
      BY <2>l
    <3>4. Len(SubSeq(seen, 1, n)) = Len(seen) /\ \A i \in 1 .. Len(seen) : SubSeq(seen, 1, n)[i] = seen[i]
      BY <3>2, <3>3
    <3>5. SubSeq(seen, 1, n) = seen
      <4> DEFINE front == SubSeq(seen, 1, n)
      <4>1. front \in Seq(ChatRows) /\ Len(front) = Len(seen) /\ \A i \in 1 .. Len(front) : front[i] = seen[i]
        BY <3>2, <3>4
      <4> HIDE DEF front
      <4>2. front = seen
        BY <2>2, <4>1, SeqEqual
      <4> QED BY <4>2 DEF front
    <3> QED BY <3>1, <3>5
  <2>4. prompt = SubSeq(seen, from, n)
    BY <2>2, <2>3 DEF TrimHistory
  <2>5. from \in 1 .. n + 1 /\ from \in Nat \ {0} /\ from <= n + 1
    <3>1. CASE n > TokenBudget
      BY <2>l, <3>1
    <3>2. CASE ~(n > TokenBudget)
      BY <2>l, <3>2
    <3> QED BY <3>1, <3>2
  <2>6. n >= TokenBudget => n + 1 - from = TokenBudget
    <3>1. CASE n > TokenBudget
      BY <2>l, <3>1
    <3>2. CASE ~(n > TokenBudget)
      BY <2>l, <3>2
    <3> QED BY <3>1, <3>2
  <2> HIDE DEF from
  <2>7. IsSuffix(prompt, seen)
    BY <2>2, <2>4, <2>5, TailIsSuffix
  <2>8. Len(prompt) = n + 1 - from
    BY <2>2, <2>4, <2>5, <2>l, PartOfSeq
  <2> QED BY <2>6, <2>7, <2>8 DEF seen, prompt
<1>5. PromptIsRecent
  BY <1>4 DEF PromptIsRecent
<1> QED BY <1>1, <1>2, <1>3, <1>5

-----------------------------------------------------------------------------
(* Documents: while no call failed and no two requests worked on one       *)
(* identifier, a request finds its document as its last step left it.      *)
Ingests ==
  [pc : {"clear", "clear2", "extract", "document", "chunks", "unlink"}, doc : DocIds,
   owner : DocTenants \cup {Shared}, type : DocTypes, size : 0 .. MaxChunks + 1]
Drops == [pc : {"dropChunks", "dropDoc"}, doc : DocIds]

DocumentShape ==
  /\ docs \in [DocIds -> {NoDoc} \cup DocRows]
  /\ files \in SUBSET DocOps
  /\ docOp \in [DocOps -> {DocIdle} \cup Ingests \cup Drops]
  /\ docFaults \in 0 .. DocFaultMax /\ docRaced \in BOOLEAN

InHand(o) == docOp[o].pc # "idle"

(* The document of an ingestion, from the place it is at.                  *)
Follows(op, row) ==
  /\ op.pc = "clear2" => row # NoDoc
  /\ op.pc \in {"extract", "document"} => row = NoDoc
  /\ op.pc = "chunks" => row # NoDoc /\ row.count = Kept(op.size)
  /\ op.pc = "unlink" => row # NoDoc /\ row.chunks = row.count

DocumentInv ==
  /\ DocumentShape /\ RetrievalInScope
  /\ docFaults = 0 /\ ~docRaced =>
       /\ \A o, p \in DocOps : InHand(o) /\ InHand(p) /\ docOp[o].doc = docOp[p].doc => o = p
       /\ \A o \in DocOps : InHand(o) => Follows(docOp[o], docs[docOp[o].doc])
       /\ \A o \in files : docOp[o] \in Ingests
       /\ \A d \in DocIds : (\A o \in DocOps : InHand(o) => docOp[o].doc # d) =>
            (docs[d] # NoDoc => docs[d].chunks = docs[d].count)

LEMMA DocumentInitially ==
  ASSUME DocumentInit PROVE DocumentInv
<1>1. /\ docs = [d \in DocIds |-> NoDoc] /\ docOp = [o \in DocOps |-> DocIdle] /\ files = {}
      /\ docFaults = 0 /\ docRaced = FALSE /\ ~hits.foreign
  BY DEF DocumentInit
<1>2. docFaults \in 0 .. DocFaultMax
  BY <1>1, DocumentAssumption
<1> QED BY <1>1, <1>2 DEF DocumentInv, DocumentShape, DocIdle, InHand, RetrievalInScope

LEMMA DocumentsAgree ==
  ASSUME DocumentInv PROVE DocumentTypeOK /\ DocumentsWholeUnlessBroken /\ RetrievalInScope
<1>1. DocumentTypeOK
  BY DEF DocumentInv, DocumentShape, DocumentTypeOK, Stored, DocRows
<1>2. DocumentsWholeUnlessBroken
  <2>1. \A op \in Ingests : op.pc # "idle"
    BY DEF Ingests
  <2> QED BY <2>1 DEF DocumentInv, DocumentShape, DocumentsWholeUnlessBroken, Stored, InUse, InHand
<1> QED BY <1>1, <1>2 DEF DocumentInv

LEMMA DocumentPreserved ==
  ASSUME DocumentInv, [DocumentNext]_documentVars PROVE DocumentInv'
<1> USE DocumentAssumption
<1>s. /\ docs \in [DocIds -> {NoDoc} \cup DocRows] /\ files \in SUBSET DocOps
      /\ docOp \in [DocOps -> {DocIdle} \cup Ingests \cup Drops]
      /\ docFaults \in 0 .. DocFaultMax /\ docFaults \in Nat /\ docRaced \in BOOLEAN
  BY DEF DocumentInv, DocumentShape
<1>i. /\ DocIdle.pc = "idle" /\ \A op \in Ingests \cup Drops : op.pc # "idle" /\ op.doc \in DocIds
      /\ Ingests \cap Drops = {}
  BY DEF DocIdle, Ingests, Drops
<1>h. \A o \in DocOps : InHand(o) => docOp[o] \in Ingests \cup Drops /\ docOp[o].doc \in DocIds
  BY <1>s, <1>i DEF InHand
<1>u. \A d \in DocIds : InUse(d) <=> ~ \A o \in DocOps : InHand(o) => docOp[o].doc # d
  BY DEF InUse, InHand
<1>o. \A d \in DocIds : d \in Stored <=> docs[d] # NoDoc
  BY DEF Stored
(* A request that goes on.                                                 *)
<1>g. ASSUME NEW o \in DocOps, InHand(o), NEW op \in Ingests \cup Drops, op.doc = docOp[o].doc,
             op \in Ingests <=> docOp[o] \in Ingests,
             docOp' = [docOp EXCEPT ![o] = op],
             NEW row \in {NoDoc} \cup DocRows, docs' = [docs EXCEPT ![docOp[o].doc] = row],
             UNCHANGED <<files, docFaults, docRaced, hits>>,
             docFaults = 0 /\ ~docRaced => Follows(op, row)
      PROVE  DocumentInv'
  <2>1. \A p \in DocOps : docOp'[p] = IF p = o THEN op ELSE docOp[p]
    BY <1>g, <1>s
  <2>2. \A d \in DocIds : docs'[d] = IF d = docOp[o].doc THEN row ELSE docs[d]
    BY <1>g, <1>s
  <2>3. \A p \in DocOps : (InHand(p)' <=> InHand(p)) /\ (InHand(p) => docOp'[p].doc = docOp[p].doc)
    BY <1>g, <1>i, <2>1 DEF InHand
  <2>4. DocumentShape'
    BY <1>g, <1>s DEF DocumentShape
  <2>5. RetrievalInScope'
    BY <1>g DEF DocumentInv, RetrievalInScope
  <2>6. ASSUME docFaults = 0, ~docRaced
        PROVE  /\ \A p, r \in DocOps : InHand(p) /\ InHand(r) /\ docOp'[p].doc = docOp'[r].doc => p = r
               /\ \A p \in DocOps : InHand(p) => Follows(docOp'[p], docs'[docOp'[p].doc])
               /\ \A p \in files : docOp'[p] \in Ingests
               /\ \A d \in DocIds : (\A p \in DocOps : InHand(p) => docOp'[p].doc # d) =>
                    (docs'[d] # NoDoc => docs'[d].chunks = docs'[d].count)
    <3>1. \A p, r \in DocOps : InHand(p) /\ InHand(r) /\ docOp[p].doc = docOp[r].doc => p = r
      BY <2>6 DEF DocumentInv
    <3>2. ASSUME NEW p \in DocOps, InHand(p) PROVE Follows(docOp'[p], docs'[docOp'[p].doc])
      <4>1. CASE p = o
        BY <1>g, <1>h, <2>1, <2>2, <2>6, <4>1
      <4>2. CASE p # o
        <5>1. docOp[p].doc # docOp[o].doc /\ Follows(docOp[p], docs[docOp[p].doc])
          BY <1>g, <2>6, <3>1, <3>2, <4>2 DEF DocumentInv
        <5> QED BY <1>h, <2>1, <2>2, <3>2, <4>2, <5>1
      <4> QED BY <4>1, <4>2
    <3>3. \A p \in files : docOp'[p] \in Ingests
      BY <1>g, <1>s, <2>1, <2>6 DEF DocumentInv
    <3>4. ASSUME NEW d \in DocIds, \A p \in DocOps : InHand(p) => docOp'[p].doc # d
          PROVE  docs'[d] # NoDoc => docs'[d].chunks = docs'[d].count
      <4>1. \A p \in DocOps : InHand(p) => docOp[p].doc # d
        BY <2>3, <3>4
      <4>2. d # docOp[o].doc
        BY <1>g, <4>1
      <4> QED BY <2>2, <2>6, <4>1, <4>2 DEF DocumentInv
    <3> QED BY <2>3, <3>1, <3>2, <3>3, <3>4
  <2> QED BY <1>g, <2>3, <2>4, <2>5, <2>6 DEF DocumentInv
(* A request that ends.                                                    *)
<1>e. ASSUME NEW o \in DocOps, InHand(o), docOp' = [docOp EXCEPT ![o] = DocIdle],
             NEW row \in {NoDoc} \cup DocRows, docs' = [docs EXCEPT ![docOp[o].doc] = row],
             files' \in SUBSET files, UNCHANGED <<docRaced, hits>>, docFaults' \in 0 .. DocFaultMax,
             docFaults' = 0 => docFaults = 0,
             docFaults' = 0 /\ ~docRaced => (row # NoDoc => row.chunks = row.count) /\ o \notin files'
      PROVE  DocumentInv'
  <2>1. \A p \in DocOps : docOp'[p] = IF p = o THEN DocIdle ELSE docOp[p]
    BY <1>e, <1>s
  <2>2. \A d \in DocIds : docs'[d] = IF d = docOp[o].doc THEN row ELSE docs[d]
    BY <1>e, <1>s
  <2>3. \A p \in DocOps : InHand(p)' <=> InHand(p) /\ p # o
    BY <1>i, <2>1 DEF InHand
  <2>4. DocumentShape'
    BY <1>e, <1>s DEF DocumentShape
  <2>5. RetrievalInScope'
    BY <1>e DEF DocumentInv, RetrievalInScope
  <2>6. ASSUME docFaults' = 0, ~docRaced
        PROVE  /\ \A p, r \in DocOps : InHand(p)' /\ InHand(r)' /\ docOp'[p].doc = docOp'[r].doc => p = r
               /\ \A p \in DocOps : InHand(p)' => Follows(docOp'[p], docs'[docOp'[p].doc])
               /\ \A p \in files' : docOp'[p] \in Ingests
               /\ \A d \in DocIds : (\A p \in DocOps : InHand(p)' => docOp'[p].doc # d) =>
                    (docs'[d] # NoDoc => docs'[d].chunks = docs'[d].count)
    <3>0. docFaults = 0
      BY <1>e, <2>6
    <3>1. \A p, r \in DocOps : InHand(p) /\ InHand(r) /\ docOp[p].doc = docOp[r].doc => p = r
      BY <2>6, <3>0 DEF DocumentInv
    <3>2. ASSUME NEW p \in DocOps, InHand(p)' PROVE Follows(docOp'[p], docs'[docOp'[p].doc])
      <4>1. p # o /\ InHand(p) /\ docOp[p].doc # docOp[o].doc
        BY <1>e, <2>3, <3>1, <3>2
      <4>2. Follows(docOp[p], docs[docOp[p].doc])
        BY <2>6, <3>0, <4>1 DEF DocumentInv
      <4> QED BY <1>h, <2>1, <2>2, <4>1, <4>2
    <3>3. \A p \in files' : docOp'[p] \in Ingests
      BY <1>e, <1>s, <2>1, <2>6, <3>0 DEF DocumentInv
    <3>4. ASSUME NEW d \in DocIds, \A p \in DocOps : InHand(p)' => docOp'[p].doc # d
          PROVE  docs'[d] # NoDoc => docs'[d].chunks = docs'[d].count
      <4>1. CASE d = docOp[o].doc
        BY <1>e, <2>2, <2>6, <4>1
      <4>2. CASE d # docOp[o].doc
        <5>1. \A p \in DocOps : InHand(p) => docOp[p].doc # d
          BY <2>1, <2>3, <3>4, <4>2
        <5> QED BY <2>2, <2>6, <3>0, <4>2, <5>1 DEF DocumentInv
      <4> QED BY <4>1, <4>2
    <3> QED BY <2>1, <2>3, <3>1, <3>2, <3>3, <3>4
  <2> QED BY <1>e, <2>4, <2>5, <2>6 DEF DocumentInv
(* A request that begins.                                                  *)
<1>b. ASSUME NEW o \in DocOps, ~InHand(o), NEW op \in Ingests \cup Drops,
             op.pc \in {"clear", "dropChunks"}, docOp' = [docOp EXCEPT ![o] = op],
             files' = IF op \in Ingests THEN files \cup {o} ELSE files,
             docRaced' = (docRaced \/ InUse(op.doc)), UNCHANGED <<docs, docFaults, hits>>
      PROVE  DocumentInv'
  <2>1. \A p \in DocOps : docOp'[p] = IF p = o THEN op ELSE docOp[p]
    BY <1>b, <1>s
  <2>3. \A p \in DocOps : InHand(p)' <=> InHand(p) \/ p = o
    BY <1>b, <1>i, <2>1 DEF InHand
  <2>4. DocumentShape'
    BY <1>b, <1>s DEF DocumentShape
  <2>5. RetrievalInScope'
    BY <1>b DEF DocumentInv, RetrievalInScope
  <2>6. ASSUME docFaults = 0, ~docRaced'
        PROVE  /\ \A p, r \in DocOps : InHand(p)' /\ InHand(r)' /\ docOp'[p].doc = docOp'[r].doc => p = r
               /\ \A p \in DocOps : InHand(p)' => Follows(docOp'[p], docs[docOp'[p].doc])
               /\ \A p \in files' : docOp'[p] \in Ingests
               /\ \A d \in DocIds : (\A p \in DocOps : InHand(p)' => docOp'[p].doc # d) =>
                    (docs[d] # NoDoc => docs[d].chunks = docs[d].count)
    <3>0. ~docRaced /\ \A p \in DocOps : InHand(p) => docOp[p].doc # op.doc
      BY <1>b, <1>i, <1>u, <2>6
    <3>1. \A p, r \in DocOps : InHand(p)' /\ InHand(r)' /\ docOp'[p].doc = docOp'[r].doc => p = r
      BY <2>1, <2>3, <2>6, <3>0 DEF DocumentInv
    <3>2. ASSUME NEW p \in DocOps, InHand(p)' PROVE Follows(docOp'[p], docs[docOp'[p].doc])
      BY <1>b, <2>1, <2>3, <2>6, <3>0, <3>2 DEF DocumentInv, Follows
    <3>3. \A p \in files' : docOp'[p] \in Ingests
      <4>1. \A p \in files : docOp[p] \in Ingests /\ p # o
        BY <1>b, <1>i, <2>6, <3>0 DEF DocumentInv, InHand
      <4> QED BY <1>b, <1>s, <2>1, <4>1
    <3>4. ASSUME NEW d \in DocIds, \A p \in DocOps : InHand(p)' => docOp'[p].doc # d
          PROVE  docs[d] # NoDoc => docs[d].chunks = docs[d].count
      <4>1. \A p \in DocOps : InHand(p) => docOp[p].doc # d
        BY <1>b, <2>1, <2>3, <3>4
      <4> QED BY <2>6, <3>0, <4>1 DEF DocumentInv
    <3> QED BY <3>1, <3>2, <3>3, <3>4
  <2> QED BY <1>b, <2>4, <2>5, <2>6 DEF DocumentInv
<1>1. CASE UNCHANGED documentVars
  BY <1>1 DEF documentVars, DocumentInv, DocumentShape, InHand, RetrievalInScope
<1>2. CASE Retrieve
  <2>1. RetrievalInScope'
    <3>1. PICK by \in DocTenants \cup {Shared}, type \in DocTypes \cup {"ALL"} :
            \E met \in SUBSET {d \in DocIds : Visible(by, type, d) /\ docs[d].chunks > 0} :
              hits' = [platform |-> type = "LEGAL", foreign |-> \E d \in met : docs[d].owner \notin {by, Shared}]
      BY <1>2 DEF Retrieve
    <3>2. PICK met \in SUBSET {d \in DocIds : Visible(by, type, d) /\ docs[d].chunks > 0} :
            hits' = [platform |-> type = "LEGAL", foreign |-> \E d \in met : docs[d].owner \notin {by, Shared}]
      BY <3>1
    <3>3. type # "LEGAL" => \A d \in met : docs[d].owner \in {by, Shared}
      BY DEF Visible
    <3> QED BY <3>2, <3>3 DEF RetrievalInScope
  <2> QED BY <1>2, <2>1 DEF Retrieve, DocumentInv, DocumentShape, InHand
<1>3. ASSUME NEW o \in DocOps, UploadDoc(o) PROVE DocumentInv'
  <2>1. PICK d \in DocIds, owner \in DocTenants \cup {Shared}, type \in DocTypes :
          /\ docRaced' = (docRaced \/ InUse(d))
          /\ docOp' = [docOp EXCEPT ![o] =
               [pc |-> "clear", doc |-> d, owner |-> owner, type |-> type, size |-> 0]]
    BY <1>3 DEF UploadDoc
  <2> DEFINE op == [pc |-> "clear", doc |-> d, owner |-> owner, type |-> type, size |-> 0]
  <2>2. op \in Ingests /\ op.pc = "clear" /\ op.doc = d
    <3>1. 0 \in 0 .. MaxChunks + 1
      OBVIOUS
    <3> QED BY <3>1 DEF Ingests
  <2>3. ~InHand(o) /\ docOp' = [docOp EXCEPT ![o] = op]
    BY <1>3, <1>i, <2>1 DEF UploadDoc, InHand
  <2> HIDE DEF op
  <2> QED BY <1>3, <1>b, <2>1, <2>2, <2>3 DEF UploadDoc
<1>4. ASSUME NEW o \in DocOps, DropDoc(o) PROVE DocumentInv'
  <2>1. PICK d \in Stored :
          /\ docRaced' = (docRaced \/ InUse(d))
          /\ docOp' = [docOp EXCEPT ![o] = [pc |-> "dropChunks", doc |-> d]]
    BY <1>4 DEF DropDoc
  <2> DEFINE op == [pc |-> "dropChunks", doc |-> d]
  <2>2. op \in Drops /\ op.pc = "dropChunks" /\ op.doc = d
    BY DEF Drops, Stored
  <2>3. ~InHand(o) /\ docOp' = [docOp EXCEPT ![o] = op] /\ op \notin Ingests
    BY <1>4, <1>i, <2>1, <2>2 DEF DropDoc, InHand
  <2> HIDE DEF op
  <2> QED BY <1>4, <1>b, <2>1, <2>2, <2>3 DEF DropDoc
(* The steps of an ingestion and of a deletion, by the place they are at.  *)
<1>p. ASSUME NEW o \in DocOps, InHand(o)
      PROVE  /\ docOp[o].doc \in DocIds /\ docs[docOp[o].doc] \in {NoDoc} \cup DocRows
             /\ docs = [docs EXCEPT ![docOp[o].doc] = docs[docOp[o].doc]]
             /\ docOp[o] \in Ingests <=> docOp[o].pc \notin {"dropChunks", "dropDoc"}
             /\ docOp[o] \in Drops <=> docOp[o].pc \in {"dropChunks", "dropDoc"}
             /\ docFaults = 0 /\ ~docRaced => Follows(docOp[o], docs[docOp[o].doc])
  <2>1. docOp[o] \in Ingests \cup Drops /\ docOp[o].doc \in DocIds
    BY <1>h, <1>p
  <2>2. /\ \A op \in Ingests : op.pc \notin {"dropChunks", "dropDoc"}
        /\ \A op \in Drops : op.pc \in {"dropChunks", "dropDoc"}
    BY DEF Ingests, Drops
  <2> QED BY <1>p, <1>s, <2>1, <2>2 DEF DocumentInv
<1>q. ASSUME NEW op \in Ingests, NEW place \in {"clear2", "extract", "document", "chunks", "unlink"}
      PROVE  /\ [op EXCEPT !.pc = place] \in Ingests /\ [op EXCEPT !.pc = place].pc = place
             /\ [op EXCEPT !.pc = place].doc = op.doc /\ [op EXCEPT !.pc = place].size = op.size
  BY DEF Ingests
<1>k. \A size \in 0 .. MaxChunks + 1 : Kept(size) \in 0 .. MaxChunks
  <2> TAKE size \in 0 .. MaxChunks + 1
  <2>1. size \in Nat /\ MaxChunks \in Nat
    OBVIOUS
  <2>2. CASE size > MaxChunks
    BY <2>1, <2>2 DEF Kept
  <2>3. CASE ~(size > MaxChunks)
    BY <2>1, <2>3 DEF Kept
  <2> QED BY <2>2, <2>3
<1>r. ASSUME NEW row \in DocRows, NEW n \in 0 .. MaxChunks
      PROVE  /\ [row EXCEPT !.chunks = n] \in DocRows /\ [row EXCEPT !.chunks = n].chunks = n
             /\ [row EXCEPT !.chunks = n].count = row.count
  BY DEF DocRows
<1>z. 0 \in 0 .. MaxChunks
  OBVIOUS
<1>5. ASSUME NEW o \in DocOps, ClearChunks(o) PROVE DocumentInv'
  <2> DEFINE op == docOp[o]
             row == docs[op.doc]
  <2>1. op.pc = "clear" /\ InHand(o) /\ UNCHANGED <<files, docFaults, docRaced, hits>>
    BY <1>5 DEF ClearChunks, InHand
  <2>2. op \in Ingests /\ op.doc \in DocIds /\ row \in {NoDoc} \cup DocRows /\ docs = [docs EXCEPT ![op.doc] = row]
    BY <1>p, <2>1
  <2>3. CASE op.doc \in Stored
    <3> DEFINE to == [op EXCEPT !.pc = "clear2"]
               new == [row EXCEPT !.chunks = 0]
    <3>1. docOp' = [docOp EXCEPT ![o] = to] /\ docs' = [docs EXCEPT ![op.doc] = new]
      BY <1>5, <2>3 DEF ClearChunks, DocGo
    <3>2. to \in Ingests /\ to.pc = "clear2" /\ to.doc = op.doc
      BY <1>q, <2>2
    <3>3. new \in DocRows
      BY <1>o, <1>r, <1>z, <2>2, <2>3
    <3> HIDE DEF to, new
    <3>4. Follows(to, new)
      BY <3>2, <3>3 DEF Follows
    <3> QED BY <1>g, <2>1, <2>2, <3>1, <3>2, <3>3, <3>4
  <2>4. CASE op.doc \notin Stored
    <3> DEFINE to == [op EXCEPT !.pc = "extract"]
    <3>1. docOp' = [docOp EXCEPT ![o] = to] /\ docs' = [docs EXCEPT ![op.doc] = row]
      BY <1>5, <2>2, <2>4 DEF ClearChunks, DocGo
    <3>2. to \in Ingests /\ to.pc = "extract" /\ to.doc = op.doc
      BY <1>q, <2>2
    <3> HIDE DEF to
    <3>4. Follows(to, row)
      BY <1>o, <2>2, <2>4, <3>2 DEF Follows
    <3> QED BY <1>g, <2>1, <2>2, <3>1, <3>2, <3>4
  <2> QED BY <2>3, <2>4
<1>6. ASSUME NEW o \in DocOps, ClearDoc(o) PROVE DocumentInv'
  <2> DEFINE op == docOp[o]
             row == docs[op.doc]
  <2>1. op.pc = "clear2" /\ InHand(o) /\ UNCHANGED <<files, docFaults, docRaced, hits>>
    BY <1>6 DEF ClearDoc, InHand
  <2>2. op \in Ingests /\ op.doc \in DocIds /\ row \in {NoDoc} \cup DocRows /\ docs = [docs EXCEPT ![op.doc] = row]
    BY <1>p, <2>1
  <2>3. CASE op.doc \in Stored
    <3> DEFINE to == [op EXCEPT !.pc = "extract"]
    <3>1. docOp' = [docOp EXCEPT ![o] = to] /\ docs' = [docs EXCEPT ![op.doc] = NoDoc]
      BY <1>6, <2>3 DEF ClearDoc, DocGo
    <3>2. to \in Ingests /\ to.pc = "extract" /\ to.doc = op.doc
      BY <1>q, <2>2
    <3> HIDE DEF to
    <3>4. Follows(to, NoDoc)
      BY <3>2 DEF Follows
    <3> QED BY <1>g, <2>1, <2>2, <3>1, <3>2, <3>4
  <2>4. CASE op.doc \notin Stored
    <3>1. docOp' = [docOp EXCEPT ![o] = DocIdle] /\ docs' = [docs EXCEPT ![op.doc] = row]
      BY <1>6, <2>2, <2>4 DEF ClearDoc, DocEnd
    <3>2. ~(docFaults = 0 /\ ~docRaced)
      BY <1>o, <1>p, <2>1, <2>2, <2>4 DEF Follows
    <3> QED BY <1>e, <1>s, <2>1, <2>2, <3>1, <3>2
  <2> QED BY <2>3, <2>4
<1>7. ASSUME NEW o \in DocOps, Extract(o) PROVE DocumentInv'
  <2> DEFINE op == docOp[o]
             row == docs[op.doc]
  <2>1. op.pc = "extract" /\ InHand(o) /\ UNCHANGED <<docs, files, docFaults, docRaced, hits>>
    BY <1>7 DEF Extract, InHand
  <2>2. op \in Ingests /\ op.doc \in DocIds /\ row \in {NoDoc} \cup DocRows /\ docs = [docs EXCEPT ![op.doc] = row]
    BY <1>p, <2>1
  <2>3. PICK size \in 1 .. MaxChunks + 1 :
          docOp' = [docOp EXCEPT ![o] = [docOp[o] EXCEPT !.pc = "document", !.size = size]]
    BY <1>7, <1>s DEF Extract
  <2> DEFINE at == [op EXCEPT !.pc = "document"]
             to == [at EXCEPT !.size = size]
  <2>4. at \in Ingests /\ at.pc = "document" /\ at.doc = op.doc
    BY <1>q, <2>2
  <2>5. docOp' = [docOp EXCEPT ![o] = to]
    BY <2>2, <2>3 DEF Ingests
  <2>z. size \in 0 .. MaxChunks + 1
    OBVIOUS
  <2> HIDE DEF at
  <2>6. to \in Ingests /\ to.pc = "document" /\ to.doc = op.doc
    BY <2>4, <2>z DEF Ingests
  <2> HIDE DEF to
  <2>7. docFaults = 0 /\ ~docRaced => Follows(to, row)
    BY <1>p, <2>1, <2>6 DEF Follows
  <2> QED BY <1>g, <2>1, <2>2, <2>5, <2>6, <2>7
<1>8. ASSUME NEW o \in DocOps, CreateDocument(o) PROVE DocumentInv'
  <2> DEFINE op == docOp[o]
             row == docs[op.doc]
  <2>1. op.pc = "document" /\ InHand(o) /\ UNCHANGED <<files, docFaults, docRaced, hits>>
    BY <1>8 DEF CreateDocument, InHand
  <2>2. op \in Ingests /\ op.doc \in DocIds /\ row \in {NoDoc} \cup DocRows /\ docs = [docs EXCEPT ![op.doc] = row]
    BY <1>p, <2>1
  <2>3. CASE op.doc \notin Stored
    <3> DEFINE to == [op EXCEPT !.pc = "chunks"]
               new == [owner |-> op.owner, type |-> op.type, count |-> Registered(op.size), chunks |-> 0]
    <3>1. docOp' = [docOp EXCEPT ![o] = to] /\ docs' = [docs EXCEPT ![op.doc] = new]
      BY <1>8, <2>3 DEF CreateDocument, DocGo
    <3>2. to \in Ingests /\ to.pc = "chunks" /\ to.doc = op.doc /\ to.size = op.size
      BY <1>q, <2>2
    <3>3. new \in DocRows /\ new.count = Kept(op.size)
      <4>1. op.size \in 0 .. MaxChunks + 1 /\ op.owner \in DocTenants \cup {Shared} /\ op.type \in DocTypes
        BY <2>2 DEF Ingests
      <4>2. Kept(op.size) \in 0 .. MaxChunks
        BY <1>k, <4>1
      <4> QED BY <1>z, <4>1, <4>2 DEF DocRows, Registered
    <3> HIDE DEF to, new
    <3>4. Follows(to, new)
      BY <3>2, <3>3 DEF Follows
    <3> QED BY <1>g, <2>1, <2>2, <3>1, <3>2, <3>3, <3>4
  <2>4. CASE op.doc \in Stored
    <3>1. docOp' = [docOp EXCEPT ![o] = DocIdle] /\ docs' = [docs EXCEPT ![op.doc] = row]
      BY <1>8, <2>2, <2>4 DEF CreateDocument, DocEnd
    <3>2. ~(docFaults = 0 /\ ~docRaced)
      BY <1>o, <1>p, <2>1, <2>2, <2>4 DEF Follows
    <3> QED BY <1>e, <1>s, <2>1, <2>2, <3>1, <3>2
  <2> QED BY <2>3, <2>4
<1>9. ASSUME NEW o \in DocOps, CreateChunks(o) PROVE DocumentInv'
  <2> DEFINE op == docOp[o]
             row == docs[op.doc]
  <2>1. op.pc = "chunks" /\ InHand(o) /\ UNCHANGED <<files, docFaults, docRaced, hits>>
    BY <1>9 DEF CreateChunks, InHand
  <2>2. op \in Ingests /\ op.doc \in DocIds /\ row \in {NoDoc} \cup DocRows /\ docs = [docs EXCEPT ![op.doc] = row]
    BY <1>p, <2>1
  <2>3. CASE op.doc \in Stored
    <3> DEFINE to == [op EXCEPT !.pc = "unlink"]
               new == [row EXCEPT !.chunks = Kept(op.size)]
    <3>1. docOp' = [docOp EXCEPT ![o] = to] /\ docs' = [docs EXCEPT ![op.doc] = new]
      BY <1>9, <2>3 DEF CreateChunks, DocGo
    <3>2. to \in Ingests /\ to.pc = "unlink" /\ to.doc = op.doc
      BY <1>q, <2>2
    <3>3. new \in DocRows /\ new.chunks = Kept(op.size) /\ new.count = row.count
      <4>1. op.size \in 0 .. MaxChunks + 1
        BY <2>2 DEF Ingests
      <4>2. Kept(op.size) \in 0 .. MaxChunks /\ row \in DocRows
        BY <1>k, <1>o, <2>2, <2>3, <4>1
      <4> HIDE DEF row, op
      <4> QED BY <1>r, <4>2
    <3> HIDE DEF to, new
    <3>4. docFaults = 0 /\ ~docRaced => Follows(to, new)
      BY <1>p, <2>1, <3>2, <3>3 DEF Follows
    <3> QED BY <1>g, <2>1, <2>2, <3>1, <3>2, <3>3, <3>4
  <2>4. CASE op.doc \notin Stored
    <3>1. docOp' = [docOp EXCEPT ![o] = DocIdle] /\ docs' = [docs EXCEPT ![op.doc] = row]
      BY <1>9, <2>2, <2>4 DEF CreateChunks, DocEnd
    <3>2. ~(docFaults = 0 /\ ~docRaced)
      BY <1>o, <1>p, <2>1, <2>2, <2>4 DEF Follows
    <3> QED BY <1>e, <1>s, <2>1, <2>2, <3>1, <3>2
  <2> QED BY <2>3, <2>4
<1>10. ASSUME NEW o \in DocOps, UnlinkUpload(o) PROVE DocumentInv'
  <2>1. /\ docOp[o].pc = "unlink" /\ InHand(o) /\ UNCHANGED <<docs, docFaults, docRaced, hits>>
        /\ files' = files \ {o} /\ docOp' = [docOp EXCEPT ![o] = DocIdle]
    BY <1>10 DEF UnlinkUpload, InHand, DocEnd
  <2>2. docs[docOp[o].doc] \in {NoDoc} \cup DocRows /\ docs' = [docs EXCEPT ![docOp[o].doc] = docs[docOp[o].doc]]
    BY <1>p, <2>1
  <2>3. docFaults = 0 /\ ~docRaced => docs[docOp[o].doc].chunks = docs[docOp[o].doc].count
    BY <1>p, <2>1 DEF Follows
  <2> QED BY <1>e, <1>s, <2>1, <2>2, <2>3
<1>11. ASSUME NEW o \in DocOps, DropChunks(o) PROVE DocumentInv'
  <2> DEFINE op == docOp[o]
             row == docs[op.doc]
             to == [op EXCEPT !.pc = "dropDoc"]
             new == IF op.doc \in Stored THEN [row EXCEPT !.chunks = 0] ELSE row
  <2>1. op.pc = "dropChunks" /\ InHand(o) /\ UNCHANGED <<files, docFaults, docRaced, hits>>
    BY <1>11 DEF DropChunks, InHand
  <2>2. op \in Drops /\ op.doc \in DocIds /\ row \in {NoDoc} \cup DocRows /\ docs = [docs EXCEPT ![op.doc] = row]
    BY <1>p, <2>1
  <2>3. docOp' = [docOp EXCEPT ![o] = to] /\ docs' = [docs EXCEPT ![op.doc] = new]
    BY <1>11, <2>2 DEF DropChunks, DocGo
  <2>4. to \in Drops /\ to.doc = op.doc /\ to.pc = "dropDoc"
    BY <2>2 DEF Drops
  <2>5. new \in {NoDoc} \cup DocRows
    BY <1>o, <1>r, <1>z, <2>2
  <2>6. to \notin Ingests /\ op \notin Ingests
    BY <1>i, <2>2, <2>4
  <2> HIDE DEF to, new
  <2>7. Follows(to, new)
    BY <2>4 DEF Follows
  <2> QED BY <1>g, <2>1, <2>2, <2>3, <2>4, <2>5, <2>6, <2>7
<1>12. ASSUME NEW o \in DocOps, DropRow(o) PROVE DocumentInv'
  <2>1. /\ docOp[o].pc = "dropDoc" /\ InHand(o) /\ UNCHANGED <<files, docFaults, docRaced, hits>>
        /\ docs' = [docs EXCEPT ![docOp[o].doc] = NoDoc] /\ docOp' = [docOp EXCEPT ![o] = DocIdle]
    BY <1>12 DEF DropRow, InHand, DocEnd
  <2>2. docFaults = 0 /\ ~docRaced => o \notin files
    BY <1>p, <2>1 DEF DocumentInv
  <2> QED BY <1>e, <1>s, <2>1, <2>2
<1>13. ASSUME NEW o \in DocOps, DocFails(o) PROVE DocumentInv'
  <2>1. /\ InHand(o) /\ UNCHANGED <<docs, files, docRaced, hits>> /\ docOp' = [docOp EXCEPT ![o] = DocIdle]
        /\ docFaults < DocFaultMax /\ docFaults' = docFaults + 1
    BY <1>13 DEF DocFails, InHand, DocEnd
  <2>2. docFaults' \in 0 .. DocFaultMax /\ docFaults' # 0
    BY <1>s, <2>1
  <2>3. docs[docOp[o].doc] \in {NoDoc} \cup DocRows /\ docs' = [docs EXCEPT ![docOp[o].doc] = docs[docOp[o].doc]]
    BY <1>p, <2>1
  <2> QED BY <1>e, <2>1, <2>2, <2>3
<1> QED BY <1>1, <1>2, <1>3, <1>4, <1>5, <1>6, <1>7, <1>8, <1>9, <1>10, <1>11, <1>12, <1>13 DEF DocumentNext

-----------------------------------------------------------------------------
(* The monitor and the bill: the month's usage is the number of a set of   *)
(* booked calls, which holds every booked one that began in the month.     *)
TraceRows == [at : Nat, model : {"m", "cache", NoModel}, status : {"RUNNING", "OK", "ERROR"}, tokens : {0, 1}]
Called(i) == traced[i].status # "RUNNING" /\ traced[i].model = "m"

ReportShape ==
  /\ rptime \in 0 .. ReportTimeMax /\ rateHits \in 0 .. (HitsMax + 1) /\ accepted \in Nat
  /\ traced \in Seq(TraceRows) /\ unbooked \in SUBSET DOMAIN traced
  /\ \A e \in events : /\ e[1] \in EventTypes /\ e[2] \in Trackers \cup {Nobody}
                       /\ DOMAIN e[3] \cap SensitiveKeys = {}
  /\ \A r \in auditRows : r[1] = "token" => r[2] # "kept"

TracesFit ==
  \A i \in DOMAIN traced :
    /\ traced[i].at <= rptime
    /\ traced[i].status = "RUNNING" <=> traced[i].model = NoModel
    /\ traced[i].status # "RUNNING" => traced[i].tokens = 1
    /\ i \in unbooked => traced[i].status # "RUNNING"

BookedAre(B) ==
  /\ usage = Cardinality(B)
  /\ \A i \in B : Called(i)
  /\ \A i \in DOMAIN traced \ unbooked : Called(i) /\ traced[i].at >= MonthBegins => i \in B

ReportInv == ReportShape /\ TracesFit /\ \E B \in SUBSET (DOMAIN traced \ unbooked) : BookedAre(B)

LEMMA ReportInitially ==
  ASSUME ReportInit PROVE ReportInv
<1>1. /\ rptime = 0 /\ events = {} /\ rateHits = 0 /\ accepted = 0 /\ traced = <<>> /\ usage = 0
      /\ unbooked = {} /\ auditRows = {}
  BY DEF ReportInit
<1>2. traced \in Seq(TraceRows) /\ DOMAIN traced = {}
  BY <1>1
<1>3. rptime \in 0 .. ReportTimeMax /\ rateHits \in 0 .. (HitsMax + 1)
  BY <1>1, ReportAssumption
<1>4. BookedAre({})
  BY <1>1, <1>2, FS_EmptySet DEF BookedAre
<1> QED BY <1>1, <1>2, <1>3, <1>4 DEF ReportInv, ReportShape, TracesFit

(* Half a day, rounded: what is over is over by more than a third.         *)
LEMMA RoundedDays ==
  ASSUME NEW t \in Int
  PROVE  (RoundThirds(t) < 0 => t < 0) /\ (2 * t < -3 => RoundThirds(t) < 0)
BY DEF RoundThirds

LEMMA DeadlinesHold ==
  ASSUME rptime \in Nat PROVE DeadlinesInTime
<1> SUFFICES ASSUME NEW l \in Deadlined
             PROVE  LET ended == [kind |-> "END", date |-> l.end, bucket |-> "EXPIRED"]
                    IN /\ ended \in ShownDeadlines => l.end < rptime
                       /\ 2 * (rptime - l.end) > 3 => ended \in ShownDeadlines
  BY DEF DeadlinesInTime
<1> DEFINE ended == [kind |-> "END", date |-> l.end, bucket |-> "EXPIRED"]
<1>0. l.end \in Nat /\ \A k \in Deadlined : k.end \in Nat
  BY ReportAssumption
<1>1. \A k \in Deadlined : DeadlineBucket(k.end) = "EXPIRED" <=> RoundThirds(k.end - rptime) < 0
  <2> TAKE k \in Deadlined
  <2> DEFINE days == RoundThirds(k.end - rptime)
  <2>1. days \in Int
    BY <1>0 DEF RoundThirds
  <2> HIDE DEF days
  <2>2. DeadlineBucket(k.end) = CASE days < 0 -> "EXPIRED" [] days \in 0..30 -> "DUE_30" [] days \in 31..90 -> "DUE_90"
                                  [] OTHER -> "later"
    BY DEF DeadlineBucket, days
  <2>3. CASE days < 0
    <3>1. ~(days \in 0..30) /\ ~(days \in 31..90)
      BY <2>1, <2>3
    <3> QED BY <2>2, <2>3, <3>1 DEF days
  <2>4. CASE ~(days < 0)
    BY <2>2, <2>4 DEF days
  <2> QED BY <2>3, <2>4
<1>2. ASSUME ended \in ShownDeadlines PROVE l.end < rptime
  <2>1. PICK k \in Deadlined : ended = [kind |-> "END", date |-> k.end, bucket |-> DeadlineBucket(k.end)]
    BY <1>2 DEF ShownDeadlines, Deadlines
  <2>2. DeadlineBucket(k.end) = "EXPIRED" /\ k.end = l.end
    BY <2>1
  <2>3. RoundThirds(l.end - rptime) < 0
    BY <1>1, <2>2
  <2>4. l.end - rptime \in Int
    BY <1>0
  <2>5. l.end - rptime < 0
    BY <2>3, <2>4, RoundedDays
  <2> QED BY <1>0, <2>5
<1>3. ASSUME 2 * (rptime - l.end) > 3 PROVE ended \in ShownDeadlines
  <2>1. l.end - rptime \in Int /\ 2 * (l.end - rptime) < -3
    BY <1>0, <1>3
  <2>2. RoundThirds(l.end - rptime) < 0
    BY <2>1, RoundedDays
  <2>3. DeadlineBucket(l.end) = "EXPIRED"
    BY <1>1, <2>2
  <2>4. ended \in {[kind |-> "END", date |-> k.end, bucket |-> DeadlineBucket(k.end)] : k \in Deadlined}
    BY <2>3
  <2> QED BY <2>4 DEF ShownDeadlines, Deadlines
<1> QED BY <1>2, <1>3

LEMMA BilledHolds ==
  ASSUME ReportInv PROVE BilledWasCalled
<1> DEFINE spanned == {i \in DOMAIN traced : traced[i].at < MonthBegins /\ traced[i].status # "RUNNING"}
           real    == {i \in MonthRows : traced[i].model \notin {"cache", NoModel}}
<1>1. PICK B \in SUBSET (DOMAIN traced \ unbooked) : BookedAre(B)
  BY DEF ReportInv
<1>2. /\ DOMAIN traced = 1 .. Len(traced) /\ Len(traced) \in Nat /\ MonthBegins \in Nat
      /\ \A i \in DOMAIN traced : /\ traced[i].at \in Nat /\ traced[i].model \in {"m", "cache", NoModel}
                                  /\ traced[i].status = "RUNNING" <=> traced[i].model = NoModel
  <2>1. /\ traced \in Seq(TraceRows) /\ \A i \in DOMAIN traced : traced[i] \in TraceRows
    BY LenProperties, ElementOfSeq DEF ReportInv, ReportShape
  <2> QED BY <2>1, LenProperties, ReportAssumption DEF TraceRows, ReportInv, TracesFit
<1>3. IsFiniteSet(DOMAIN traced)
  BY <1>2, FS_Interval
<1>4. IsFiniteSet(spanned) /\ IsFiniteSet(real) /\ IsFiniteSet(B)
  BY <1>3, FS_Subset DEF MonthRows
<1>5. B \subseteq real \cup spanned
  <2> SUFFICES ASSUME NEW i \in B PROVE i \in real \cup spanned
    OBVIOUS
  <2>1. i \in DOMAIN traced /\ traced[i].status # "RUNNING" /\ traced[i].model = "m" /\ "m" # NoModel
    BY <1>1, ReportAssumption DEF BookedAre, Called
  <2>2. CASE traced[i].at >= MonthBegins
    BY <2>1, <2>2 DEF MonthRows
  <2>3. CASE ~(traced[i].at >= MonthBegins)
    BY <1>2, <2>1, <2>3
  <2> QED BY <2>2, <2>3
<1>6. \A i \in real : i \in unbooked \/ i \in B
  BY <1>1, <1>2 DEF BookedAre, Called, MonthRows
<1> HIDE DEF real, spanned
<1>7. IsFiniteSet(real \cup spanned) /\ Cardinality(B) <= Cardinality(real \cup spanned)
  BY <1>4, <1>5, FS_Union, FS_Subset
<1>8. /\ Cardinality(real \cup spanned) = Cardinality(real) + Cardinality(spanned) - Cardinality(real \cap spanned)
      /\ Cardinality(real \cap spanned) \in Nat /\ Cardinality(real) \in Nat /\ Cardinality(spanned) \in Nat
      /\ Cardinality(B) \in Nat
  BY <1>4, FS_Union, FS_Intersection, FS_CardinalityType
<1>9. usage <= Cardinality(real) + Cardinality(spanned)
  BY <1>1, <1>7, <1>8 DEF BookedAre
<1>10. spanned = {} /\ unbooked = {} => B = real
  BY <1>5, <1>6
<1>11. spanned = {} /\ unbooked = {} => usage = Cardinality(real)
  BY <1>1, <1>10 DEF BookedAre
<1> QED BY <1>9, <1>11 DEF BilledWasCalled, real, spanned

LEMMA ReportsInType ==
  ASSUME ReportInv PROVE ReportTypeOK /\ SecretsAreMasked /\ DeadlinesInTime /\ BilledWasCalled
<1>1. PICK B \in SUBSET (DOMAIN traced \ unbooked) : BookedAre(B)
  BY DEF ReportInv
<1>2. IsFiniteSet(B)
  <2>1. DOMAIN traced = 1 .. Len(traced) /\ Len(traced) \in Nat
    BY LenProperties DEF ReportInv, ReportShape
  <2>2. IsFiniteSet(DOMAIN traced)
    BY <2>1, FS_Interval
  <2> QED BY <2>2, FS_Subset
<1>3. usage \in Nat
  BY <1>1, <1>2, FS_CardinalityType DEF BookedAre
<1>4. rptime \in Nat
  BY DEF ReportInv, ReportShape
<1> QED BY <1>3, <1>4, DeadlinesHold, BilledHolds DEF ReportInv, ReportShape, ReportTypeOK, SecretsAreMasked

LEMMA ReportPreserved ==
  ASSUME ReportInv, [ReportNext]_reportVars PROVE ReportInv'
<1> USE ReportAssumption
<1>s. /\ rptime \in Nat /\ rptime \in 0 .. ReportTimeMax /\ rateHits \in 0 .. (HitsMax + 1) /\ accepted \in Nat
      /\ traced \in Seq(TraceRows) /\ unbooked \in SUBSET DOMAIN traced
      /\ DOMAIN traced = 1 .. Len(traced) /\ Len(traced) \in Nat /\ \A i \in DOMAIN traced : traced[i] \in TraceRows
  <2>1. traced \in Seq(TraceRows) /\ rptime \in 0 .. ReportTimeMax
    BY DEF ReportInv, ReportShape
  <2> QED BY <2>1, LenProperties, ElementOfSeq DEF ReportInv, ReportShape
<1>b. PICK B \in SUBSET (DOMAIN traced \ unbooked) : BookedAre(B)
  BY DEF ReportInv
<1>m. NoModel # "m" /\ NoModel # "cache"
  OBVIOUS
(* A step that leaves the traces, the usage and the clock alone.           *)
<1>k. ASSUME UNCHANGED <<rptime, traced, usage, unbooked>>, ReportShape' PROVE ReportInv'
  <2>1. TracesFit'
    BY <1>k DEF ReportInv, TracesFit
  <2>2. BookedAre(B)'
    BY <1>b, <1>k DEF BookedAre, Called
  <2> QED BY <1>b, <1>k, <2>1, <2>2 DEF ReportInv
<1>1. CASE UNCHANGED reportVars
  BY <1>1, <1>k DEF reportVars, ReportInv, ReportShape
<1>2. ASSUME NEW batch, NEW token, NEW persona, NEW down \in BOOLEAN, Track(batch, token, persona, down)
      PROVE  ReportInv'
  <2>1. UNCHANGED <<rptime, traced, usage, unbooked, auditRows>>
    BY <1>2 DEF Track
  <2>2. rateHits' \in 0 .. (HitsMax + 1)
    <3>1. rateHits' = (IF down THEN rateHits ELSE rateHits + 1) /\ rateHits < HitsMax + 1
      BY <1>2 DEF Track
    <3> QED BY <1>s, <3>1
  <2>3. CASE UNCHANGED <<events, accepted>>
    BY <1>k, <2>1, <2>2, <2>3 DEF ReportInv, ReportShape
  <2>4. CASE ~UNCHANGED <<events, accepted>>
    <3>1. /\ batch \subseteq EventTypes /\ accepted' = accepted + 1
          /\ events' = events \cup
               {<<type, ResolveIdentity(token), SanitizeProps(SentProps(persona)), rptime>> : type \in batch}
      BY <1>2, <2>4 DEF Track
    <3>2. ResolveIdentity(token) \in Trackers \cup {Nobody}
      BY DEF ResolveIdentity
    <3>3. DOMAIN SanitizeProps(SentProps(persona)) \cap SensitiveKeys = {}
      BY DEF SanitizeProps
    <3>4. ASSUME NEW e \in events'
          PROVE e[1] \in EventTypes /\ e[2] \in Trackers \cup {Nobody} /\ DOMAIN e[3] \cap SensitiveKeys = {}
      <4>1. CASE e \in events
        BY <4>1 DEF ReportInv, ReportShape
      <4>2. CASE e \notin events
        <5>1. PICK type \in batch : e = <<type, ResolveIdentity(token), SanitizeProps(SentProps(persona)), rptime>>
          BY <3>1, <4>2
        <5>2. e[1] = type /\ e[2] = ResolveIdentity(token) /\ e[3] = SanitizeProps(SentProps(persona))
          BY <5>1
        <5> QED BY <3>1, <3>2, <3>3, <5>2
      <4> QED BY <4>1, <4>2
    <3>5. accepted' \in Nat
      BY <1>s, <3>1
    <3> QED BY <1>k, <2>1, <2>2, <3>4, <3>5 DEF ReportInv, ReportShape
  <2> QED BY <2>3, <2>4
<1>3. CASE TodoChanges
  BY <1>3, <1>k DEF TodoChanges, ReportInv, ReportShape
<1>4. CASE LogAudit
  <2>1. UNCHANGED <<rptime, events, rateHits, accepted, traced, usage, unbooked>>
    BY <1>4 DEF LogAudit
  <2>2. PICK key \in AuditKeys, depth \in 0..AuditDepth, fails \in BOOLEAN :
          auditRows' = IF fails THEN auditRows ELSE auditRows \cup {<<key, SanitizeDetail(key, depth)>>}
    BY <1>4 DEF LogAudit
  <2>3. key = "token" => SanitizeDetail(key, depth) # "kept"
    BY DEF SanitizeDetail, SensitiveKeys
  <2>4. \A r \in auditRows' : r[1] = "token" => r[2] # "kept"
    BY <2>2, <2>3 DEF ReportInv, ReportShape
  <2> QED BY <1>k, <2>1, <2>4 DEF ReportInv, ReportShape
<1>5. CASE ReportTick
  <2>1. UNCHANGED <<events, accepted, traced, usage, unbooked, auditRows>> /\ rateHits' = 0 /\ rptime' = rptime + 1
        /\ rptime < ReportTimeMax
    BY <1>5 DEF ReportTick
  <2>2. rptime' \in 0 .. ReportTimeMax /\ rateHits' \in 0 .. (HitsMax + 1)
    BY <1>s, <2>1
  <2>3. ReportShape'
    BY <2>1, <2>2 DEF ReportInv, ReportShape
  <2>4. TracesFit'
    <3>1. \A i \in DOMAIN traced : traced[i].at \in Nat
      BY <1>s DEF TraceRows
    <3>2. \A i \in DOMAIN traced : traced[i].at <= rptime
      BY DEF ReportInv, TracesFit
    <3>3. \A i \in DOMAIN traced : traced[i].at <= rptime'
      BY <1>s, <2>1, <3>1, <3>2
    <3> QED BY <2>1, <3>3 DEF ReportInv, TracesFit
  <2>5. BookedAre(B)'
    BY <1>b, <2>1 DEF BookedAre, Called
  <2> QED BY <1>b, <2>1, <2>3, <2>4, <2>5 DEF ReportInv
<1>6. CASE TraceStarts
  <2> DEFINE row == [at |-> rptime, model |-> NoModel, status |-> "RUNNING", tokens |-> 0]
             n == Len(traced)
  <2>1. traced' = Append(traced, row) /\ UNCHANGED <<rptime, events, rateHits, accepted, usage, unbooked, auditRows>>
    BY <1>6 DEF TraceStarts
  <2>2. row \in TraceRows /\ row.at = rptime /\ row.model = NoModel /\ row.status = "RUNNING"
    BY <1>s DEF TraceRows
  <2> HIDE DEF row
  <2>3. /\ traced' \in Seq(TraceRows) /\ Len(traced') = n + 1 /\ traced'[n + 1] = row
        /\ \A i \in 1 .. n : traced'[i] = traced[i]
    BY <1>s, <2>1, <2>2
  <2>4. DOMAIN traced' = 1 .. n + 1 /\ DOMAIN traced = 1 .. n /\ n \in Nat
    BY <1>s, <2>3, LenProperties
  <2> HIDE DEF n
  <2>5. DOMAIN traced \subseteq DOMAIN traced' /\ \A i \in DOMAIN traced' : i \in DOMAIN traced \/ i = n + 1
    BY <2>4
  <2>n. n + 1 \notin DOMAIN traced
    BY <2>4
  <2>6. ReportShape'
    BY <2>1, <2>3, <2>5 DEF ReportInv, ReportShape
  <2>7. TracesFit'
    <3>1. ASSUME NEW i \in DOMAIN traced'
          PROVE  /\ traced'[i].at <= rptime
                 /\ traced'[i].status = "RUNNING" <=> traced'[i].model = NoModel
                 /\ traced'[i].status # "RUNNING" => traced'[i].tokens = 1
                 /\ i \in unbooked => traced'[i].status # "RUNNING"
      <4>1. CASE i \in DOMAIN traced
        BY <2>3, <2>4, <4>1 DEF ReportInv, TracesFit
      <4>2. CASE i = n + 1
        BY <1>s, <2>2, <2>3, <2>n, <4>2
      <4> QED BY <2>5, <4>1, <4>2
    <3> QED BY <2>1, <3>1 DEF TracesFit
  <2>8. BookedAre(B)'
    <3>1. \A i \in B : traced'[i] = traced[i]
      BY <1>b, <2>3, <2>4
    <3>2. \A i \in DOMAIN traced' \ unbooked : Called(i)' => i \in DOMAIN traced \ unbooked /\ traced'[i] = traced[i]
      BY <2>2, <2>3, <2>4, <2>5 DEF Called
    <3> QED BY <1>b, <2>1, <3>1, <3>2 DEF BookedAre, Called
  <2> QED BY <1>b, <2>1, <2>5, <2>6, <2>7, <2>8 DEF ReportInv
<1>7. ASSUME NEW i \in DOMAIN traced, TraceEnds(i) PROVE ReportInv'
  <2>1. PICK model \in {"m", "cache"}, status \in {"OK", "ERROR"} :
          traced' = [traced EXCEPT ![i] = [at |-> traced[i].at, model |-> model, status |-> status, tokens |-> 1]]
    BY <1>7 DEF TraceEnds
  <2> DEFINE row == [at |-> traced[i].at, model |-> model, status |-> status, tokens |-> 1]
  <2>2. /\ traced[i].status = "RUNNING" /\ unbooked' = unbooked \cup {i}
        /\ UNCHANGED <<rptime, events, rateHits, accepted, usage, auditRows>>
    BY <1>7 DEF TraceEnds
  <2>3. row \in TraceRows /\ row.at = traced[i].at /\ row.model # NoModel /\ row.status # "RUNNING" /\ row.tokens = 1
    BY <1>s DEF TraceRows
  <2>4. traced' = [traced EXCEPT ![i] = row]
    BY <2>1
  <2> HIDE DEF row
  <2>5. traced' \in Seq(TraceRows) /\ DOMAIN traced' = DOMAIN traced
        /\ \A j \in DOMAIN traced : traced'[j] = IF j = i THEN row ELSE traced[j]
    BY <1>s, <2>3, <2>4
  <2>6. ReportShape'
    BY <1>s, <2>2, <2>5 DEF ReportInv, ReportShape
  <2>7. TracesFit'
    BY <2>2, <2>3, <2>5 DEF ReportInv, TracesFit
  <2>8. B \in SUBSET (DOMAIN traced \ unbooked')
    <3>1. i \notin B
      BY <1>b, <2>2 DEF BookedAre, Called
    <3> QED BY <2>2, <3>1
  <2>9. BookedAre(B)'
    <3>1. \A j \in DOMAIN traced \ unbooked' : j # i /\ j \in DOMAIN traced \ unbooked /\ traced'[j] = traced[j]
      BY <2>2, <2>5
    <3>2. \A j \in B : traced'[j] = traced[j]
      BY <2>8, <3>1
    <3> QED BY <1>b, <2>2, <2>5, <3>1, <3>2 DEF BookedAre, Called
  <2> QED BY <2>5, <2>6, <2>7, <2>8, <2>9 DEF ReportInv
<1>8. ASSUME NEW i \in DOMAIN traced, Books(i) PROVE ReportInv'
  <2>1. /\ i \in unbooked /\ unbooked' = unbooked \ {i}
        /\ usage' = IF traced[i].model # "cache" /\ ThisMonth(rptime) THEN usage + traced[i].tokens ELSE usage
        /\ UNCHANGED <<rptime, events, rateHits, accepted, traced, auditRows>>
    BY <1>8 DEF Books
  <2>2. traced[i].status # "RUNNING" /\ traced[i].tokens = 1 /\ traced[i].at <= rptime /\ traced[i].model # NoModel
    BY <2>1 DEF ReportInv, TracesFit
  <2>3. traced[i].model \in {"m", "cache", NoModel} /\ traced[i].at \in Nat
    BY <1>s DEF TraceRows
  <2>4. ReportShape' /\ TracesFit'
    BY <1>s, <2>1 DEF ReportInv, ReportShape, TracesFit
  <2>f. IsFiniteSet(B)
    <3>1. IsFiniteSet(DOMAIN traced)
      BY <1>s, FS_Interval
    <3> QED BY <1>b, <3>1, FS_Subset
  <2>5. CASE traced[i].model # "cache" /\ ThisMonth(rptime)
    <3>1. i \notin B /\ B \cup {i} \in SUBSET (DOMAIN traced \ unbooked')
      BY <1>b, <2>1
    <3>2. Cardinality(B \cup {i}) = Cardinality(B) + 1
      BY <2>f, <3>1, FS_AddElement
    <3>3. usage' = Cardinality(B) + 1
      BY <1>b, <2>1, <2>2, <2>5 DEF BookedAre
    <3>4. Called(i)
      BY <2>2, <2>3, <2>5 DEF Called
    <3>5. BookedAre(B \cup {i})'
      BY <1>b, <2>1, <3>2, <3>3, <3>4 DEF BookedAre, Called
    <3> QED BY <2>1, <2>4, <3>1, <3>5 DEF ReportInv
  <2>6. CASE ~(traced[i].model # "cache" /\ ThisMonth(rptime))
    <3>1. usage' = usage
      BY <2>1, <2>6
    <3>2. ~(Called(i) /\ traced[i].at >= MonthBegins)
      <4>1. ASSUME traced[i].at >= MonthBegins PROVE ThisMonth(rptime)
        BY <1>s, <2>2, <2>3, <4>1 DEF ThisMonth
      <4> QED BY <2>6, <4>1 DEF Called
    <3>3. BookedAre(B)'
      BY <1>b, <2>1, <3>1, <3>2 DEF BookedAre, Called
    <3> QED BY <1>b, <2>1, <2>4, <3>3 DEF ReportInv
  <2> QED BY <2>5, <2>6
<1> QED BY <1>1, <1>2, <1>3, <1>4, <1>5, <1>6, <1>7, <1>8 DEF ReportNext

-----------------------------------------------------------------------------
(* The meter: until the tariff turns, a span is lost or a second model is  *)
(* called, the spans of a request cost what its tokens cost.               *)
Booking == {"record", "insert", "again"}
MeterCalls ==
  [pc : {"ask", "call", "finish"} \cup Booking, model : ModelNames \cup {CheapModel}, tokens : Nat, calls : Nat,
   models : SUBSET (ModelNames \cup {CheapModel}), cached : BOOLEAN, ok : BOOLEAN]

MeterShape ==
  /\ traces \in [MeterOps -> {NoRow} \cup MeterRows]
  /\ meterOp \in [MeterOps -> {MeterIdle} \cup MeterCalls]
  /\ meterFaults \in 0 .. MeterFaultMax /\ peakTurned \in BOOLEAN /\ peak \in BOOLEAN

OneModel(op) == \A m \in op.models : m = op.model

Metered(op, row) ==
  /\ row # NoRow /\ IsFiniteSet(op.models)
  /\ IF op.models = {} THEN op.model = CheapModel ELSE op.model \in op.models
  /\ op.pc \notin Booking => row.status = "RUNNING"
  /\ op.pc = "ask" => op.models = {} /\ op.tokens = 0 /\ row.spans = 0 /\ ~op.cached
  /\ op.pc = "call" => ~op.cached
  /\ op.models = {} /\ op.pc \notin Booking => Charged(op) = 0

SpansAdd(op, row) ==
  OneModel(op) => /\ row.spans = CalcCost(op.model, Charged(op))
                  /\ op.pc \in Booking => row.cost = row.spans

MeterInv ==
  /\ MeterShape
  /\ \A o \in MeterOps : Running(o) =>
       /\ Metered(meterOp[o], traces[o])
       /\ meterFaults = 0 /\ ~peakTurned => SpansAdd(meterOp[o], traces[o])

(* A price is one of four.                                                 *)
LEMMA PricesAdd ==
  ASSUME peak \in BOOLEAN, NEW model, NEW n \in Nat
  PROVE  /\ CalcCost(model, 0) = 0 /\ CalcCost(model, n) \in Nat
         /\ CalcCost(model, n + 1) = CalcCost(model, n) + CalcCost(model, 1)
<1>1. PriceOf(model) \in {1, 2, 4, 8}
  BY DEF PriceOf
<1>2. CASE PriceOf(model) = 1
  BY <1>2 DEF CalcCost
<1>3. CASE PriceOf(model) = 2
  BY <1>3 DEF CalcCost
<1>4. CASE PriceOf(model) = 4
  BY <1>4 DEF CalcCost
<1>5. CASE PriceOf(model) = 8
  BY <1>5 DEF CalcCost
<1> QED BY <1>1, <1>2, <1>3, <1>4, <1>5

LEMMA MeterInitially ==
  ASSUME MeterInit PROVE MeterInv
<1>1. /\ traces = [o \in MeterOps |-> NoRow] /\ meterOp = [o \in MeterOps |-> MeterIdle]
      /\ peak \in BOOLEAN /\ meterFaults = 0 /\ peakTurned = FALSE
  BY DEF MeterInit
<1>2. meterFaults \in 0 .. MeterFaultMax
  BY <1>1, MeterAssumption
<1> QED BY <1>1, <1>2 DEF MeterInv, MeterShape, MeterIdle, Running

LEMMA MeterAgrees ==
  ASSUME MeterInv PROVE MeterTypeOK /\ CostsAgreeUnlessMixed
<1>1. MeterTypeOK
  BY DEF MeterInv, MeterShape, MeterTypeOK, Opened, MeterRows
<1>2. ASSUME NEW o \in Opened, traces[o].status # "RUNNING", meterFaults = 0, ~peakTurned, Running(o),
             Cardinality(meterOp[o].models) < 2
      PROVE  traces[o].cost = traces[o].spans
  <2> DEFINE op == meterOp[o]
  <2>1. o \in MeterOps /\ Metered(op, traces[o]) /\ SpansAdd(op, traces[o])
    BY <1>2 DEF Opened, MeterInv
  <2>2. ASSUME NEW m \in op.models PROVE m = op.model
    <3>1. SUFFICES ASSUME m # op.model PROVE FALSE
      OBVIOUS
    <3>2. {m, op.model} \subseteq op.models /\ IsFiniteSet(op.models)
      BY <2>1, <2>2 DEF Metered
    <3>3. Cardinality({m, op.model}) = 2
      <4>1. Cardinality({m}) = 1 /\ IsFiniteSet({m}) /\ op.model \notin {m}
        BY <3>1, FS_Singleton
      <4>2. Cardinality({m} \cup {op.model}) = Cardinality({m}) + 1
        BY <4>1, FS_AddElement
      <4>3. {m, op.model} = {m} \cup {op.model}
        OBVIOUS
      <4> HIDE DEF op
      <4> QED BY <4>1, <4>2, <4>3
    <3>4. Cardinality({m, op.model}) <= Cardinality(op.models) /\ Cardinality(op.models) \in Nat
      BY <3>2, FS_Subset, FS_CardinalityType
    <3> QED BY <1>2, <3>3, <3>4
  <2>3. OneModel(op) /\ op.pc \in Booking
    BY <1>2, <2>1, <2>2 DEF OneModel, Metered
  <2> QED BY <2>1, <2>3 DEF SpansAdd
<1> QED BY <1>1, <1>2 DEF CostsAgreeUnlessMixed

LEMMA MeterPreserved ==
  ASSUME MeterInv, [MeterNext]_meterVars PROVE MeterInv'
<1> USE MeterAssumption
<1>s. /\ traces \in [MeterOps -> {NoRow} \cup MeterRows] /\ meterOp \in [MeterOps -> {MeterIdle} \cup MeterCalls]
      /\ meterFaults \in 0 .. MeterFaultMax /\ meterFaults \in Nat /\ peakTurned \in BOOLEAN /\ peak \in BOOLEAN
  BY DEF MeterInv, MeterShape
<1>i. MeterIdle.pc = "idle" /\ \A op \in MeterCalls : op.pc # "idle"
  BY DEF MeterIdle, MeterCalls, Booking
<1>r. ASSUME NEW o \in MeterOps, Running(o)
      PROVE  /\ meterOp[o] \in MeterCalls /\ traces[o] \in MeterRows /\ Metered(meterOp[o], traces[o])
             /\ meterFaults = 0 /\ ~peakTurned => SpansAdd(meterOp[o], traces[o])
             /\ traces = [traces EXCEPT ![o] = traces[o]]
  <2>1. meterOp[o] \in MeterCalls
    BY <1>i, <1>r, <1>s DEF Running
  <2> QED BY <1>r, <1>s, <2>1 DEF MeterInv, Metered
(* One request goes on, its trace with it.                                 *)
<1>g. ASSUME NEW o \in MeterOps, NEW op \in MeterCalls, NEW row \in MeterRows,
             meterOp' = [meterOp EXCEPT ![o] = op], traces' = [traces EXCEPT ![o] = row],
             UNCHANGED <<peak, peakTurned>>, meterFaults' \in 0 .. MeterFaultMax, meterFaults' = 0 => meterFaults = 0,
             Metered(op, row), meterFaults' = 0 /\ ~peakTurned => SpansAdd(op, row)
      PROVE  MeterInv'
  <2>1. \A p \in MeterOps : meterOp'[p] = (IF p = o THEN op ELSE meterOp[p]) /\ traces'[p] = (IF p = o THEN row ELSE traces[p])
    BY <1>g, <1>s
  <2>2. MeterShape'
    BY <1>g, <1>s DEF MeterShape
  <2>3. ASSUME NEW p \in MeterOps, Running(p)'
        PROVE  /\ Metered(meterOp'[p], traces'[p])
               /\ meterFaults' = 0 /\ ~peakTurned => SpansAdd(meterOp'[p], traces'[p])
    <3>1. CASE p = o
      BY <1>g, <2>1, <3>1 DEF SpansAdd, CalcCost, PriceOf, OneModel, Charged
    <3>2. CASE p # o
      <4>1. Running(p) /\ meterOp'[p] = meterOp[p] /\ traces'[p] = traces[p]
        BY <2>1, <2>3, <3>2 DEF Running
      <4> QED BY <1>g, <1>r, <4>1 DEF SpansAdd, CalcCost, PriceOf, OneModel, Charged
    <3> QED BY <3>1, <3>2
  <2> QED BY <1>g, <2>2, <2>3 DEF MeterInv, Metered, SpansAdd, OneModel, Charged, CalcCost, PriceOf
<1>e. ASSUME NEW o \in MeterOps, meterOp' = [meterOp EXCEPT ![o] = MeterIdle],
             NEW row \in {NoRow} \cup MeterRows, traces' = [traces EXCEPT ![o] = row],
             UNCHANGED <<peak, peakTurned>>, meterFaults' \in 0 .. MeterFaultMax, meterFaults' = 0 => meterFaults = 0
      PROVE  MeterInv'
  <2>1. \A p \in MeterOps : meterOp'[p] = (IF p = o THEN MeterIdle ELSE meterOp[p]) /\ traces'[p] = (IF p = o THEN row ELSE traces[p])
    BY <1>e, <1>s
  <2>2. MeterShape'
    BY <1>e, <1>s DEF MeterShape
  <2>3. ASSUME NEW p \in MeterOps, Running(p)'
        PROVE  Running(p) /\ meterOp'[p] = meterOp[p] /\ traces'[p] = traces[p]
    BY <1>i, <2>1, <2>3 DEF Running
  <2> QED BY <1>e, <1>r, <2>2, <2>3 DEF MeterInv, Metered, SpansAdd, OneModel, Charged, CalcCost, PriceOf
<1>1. CASE UNCHANGED meterVars
  BY <1>1 DEF meterVars, MeterInv, MeterShape, Running, Metered, SpansAdd, OneModel, Charged, CalcCost, PriceOf
<1>2. CASE TurnPeak
  <2>1. /\ UNCHANGED <<traces, meterOp, meterFaults>> /\ peak' \in BOOLEAN /\ peakTurned' \in BOOLEAN
        /\ ~peakTurned' => \A o \in MeterOps : ~Running(o)
    BY <1>2, <1>s DEF TurnPeak
  <2>2. \A o \in MeterOps : Running(o)' <=> Running(o)
    BY <2>1 DEF Running
  <2> QED BY <1>s, <2>1, <2>2 DEF MeterInv, MeterShape, Metered, Charged
<1>3. ASSUME NEW o \in MeterOps, OpenTrace(o) PROVE MeterInv'
  <2> DEFINE row == [status |-> "RUNNING", tokens |-> 0, cost |-> 0, spans |-> 0, cached |-> FALSE]
             op == [pc |-> "ask", model |-> CheapModel, tokens |-> 0, calls |-> 0, models |-> {}, cached |-> FALSE, ok |-> TRUE]
  <2>1. /\ meterOp' = [meterOp EXCEPT ![o] = op] /\ traces' = [traces EXCEPT ![o] = row]
        /\ UNCHANGED <<peak, peakTurned, meterFaults>>
    BY <1>3 DEF OpenTrace
  <2>2. row \in MeterRows /\ row.status = "RUNNING" /\ row.spans = 0
    BY DEF MeterRows
  <2>3. /\ op \in MeterCalls /\ op.pc = "ask" /\ op.models = {} /\ op.tokens = 0 /\ ~op.cached /\ op.pc \notin Booking
        /\ op.model = CheapModel
    BY DEF MeterCalls, Booking
  <2> HIDE DEF row, op
  <2>4. Charged(op) = 0
    BY <2>3 DEF Charged
  <2>5. CalcCost(op.model, 0) = 0
    BY <1>s, PricesAdd
  <2>6. Metered(op, row) /\ SpansAdd(op, row)
    BY <2>2, <2>3, <2>4, <2>5, FS_EmptySet DEF Metered, SpansAdd
  <2> QED BY <1>g, <1>s, <2>1, <2>2, <2>3, <2>6
<1>f. meterFaults \in 0 .. MeterFaultMax
  BY <1>s
<1>4. ASSUME NEW o \in MeterOps, FromCache(o) PROVE MeterInv'
  <2> DEFINE op == meterOp[o]
             at == [op EXCEPT !.pc = "finish"]
             hit == [at EXCEPT !.cached = TRUE]
             to == [hit EXCEPT !.tokens = 1]
             row == traces[o]
  <2>1. op.pc = "ask" /\ Running(o) /\ UNCHANGED <<traces, peak, peakTurned, meterFaults>>
    BY <1>4 DEF FromCache, Running
  <2>2. op \in MeterCalls /\ row \in MeterRows /\ Metered(op, row) /\ traces' = [traces EXCEPT ![o] = row]
    BY <1>r, <2>1
  <2>3. meterOp' = [meterOp EXCEPT ![o] = to]
    BY <1>4, <1>s, <2>2 DEF FromCache, MeterCalls
  <2>4. at \in MeterCalls /\ at.pc = "finish" /\ at.models = op.models /\ at.model = op.model
    BY <2>2 DEF MeterCalls
  <2> HIDE DEF at
  <2>5. hit \in MeterCalls /\ hit.pc = "finish" /\ hit.models = op.models /\ hit.model = op.model /\ hit.cached
    BY <2>4 DEF MeterCalls
  <2> HIDE DEF hit
  <2>6. to \in MeterCalls /\ to.pc = "finish" /\ to.models = op.models /\ to.model = op.model /\ to.cached
    BY <2>5 DEF MeterCalls
  <2> HIDE DEF to
  <2>7. Charged(to) = 0 /\ CalcCost(to.model, 0) = 0 /\ row.spans = 0
    BY <1>s, <2>1, <2>2, <2>6, PricesAdd DEF Charged, Metered
  <2>8. Metered(to, row) /\ SpansAdd(to, row)
    BY <2>1, <2>2, <2>6, <2>7 DEF Metered, SpansAdd, Booking
  <2> QED BY <1>f, <1>g, <2>1, <2>2, <2>3, <2>6, <2>8
<1>5. ASSUME NEW o \in MeterOps, AssertQuota(o) PROVE MeterInv'
  <2> DEFINE op == meterOp[o]
             place == IF QuotaLeft THEN "call" ELSE "finish"
             at == [op EXCEPT !.pc = place]
             to == [at EXCEPT !.ok = QuotaLeft]
             row == traces[o]
  <2>1. op.pc = "ask" /\ Running(o) /\ UNCHANGED <<traces, peak, peakTurned, meterFaults>>
    BY <1>5 DEF AssertQuota, Running
  <2>2. op \in MeterCalls /\ row \in MeterRows /\ Metered(op, row) /\ traces' = [traces EXCEPT ![o] = row]
    BY <1>r, <2>1
  <2>3. meterOp' = [meterOp EXCEPT ![o] = to]
    BY <1>5, <1>s, <2>2 DEF AssertQuota, MeterCalls
  <2>p. place \in {"call", "finish"} /\ QuotaLeft \in BOOLEAN
    BY DEF QuotaLeft
  <2> HIDE DEF place
  <2>4. /\ at \in MeterCalls /\ at.pc = place /\ at.models = op.models /\ at.model = op.model
        /\ at.cached = op.cached /\ at.tokens = op.tokens
    BY <2>2, <2>p DEF MeterCalls
  <2> HIDE DEF at
  <2>5. /\ to \in MeterCalls /\ to.pc = place /\ to.models = op.models /\ to.model = op.model
        /\ to.cached = op.cached /\ to.tokens = op.tokens
    BY <2>4, <2>p DEF MeterCalls
  <2> HIDE DEF to
  <2>7. Charged(to) = 0 /\ CalcCost(to.model, 0) = 0 /\ row.spans = 0 /\ to.pc \notin Booking /\ to.pc # "ask"
        /\ op.pc \notin Booking
    BY <1>s, <2>1, <2>2, <2>5, <2>p, PricesAdd DEF Charged, Metered, Booking
  <2>8. Metered(to, row) /\ SpansAdd(to, row)
    BY <2>1, <2>2, <2>5, <2>7 DEF Metered, SpansAdd
  <2> QED BY <1>f, <1>g, <2>1, <2>2, <2>3, <2>5, <2>8
<1>6. ASSUME NEW o \in MeterOps, CallModel(o) PROVE MeterInv'
  <2> DEFINE op == meterOp[o]
             row == traces[o]
  <2>1. op.pc = "call" /\ Running(o) /\ UNCHANGED <<peak, peakTurned>>
    BY <1>6 DEF CallModel, Running
  <2>2. /\ op \in MeterCalls /\ row \in MeterRows /\ Metered(op, row) /\ traces = [traces EXCEPT ![o] = row]
        /\ meterFaults = 0 /\ ~peakTurned => SpansAdd(op, row)
    BY <1>r, <2>1
  <2>3. PICK model \in ModelNames \cup {CheapModel}, named \in BOOLEAN :
          /\ named \/ model = CheapModel
          /\ meterOp' = [meterOp EXCEPT ![o] =
               [pc |-> "call", model |-> IF named THEN model ELSE op.model, tokens |-> op.tokens + 1, calls |-> op.calls + 1,
                models |-> op.models \cup {model}, cached |-> op.cached, ok |-> op.ok]]
          /\ \/ /\ traces' = [traces EXCEPT ![o].spans = @ + CalcCost(model, 1)]
                /\ UNCHANGED meterFaults
             \/ /\ meterFaults < MeterFaultMax /\ meterFaults' = meterFaults + 1
                /\ UNCHANGED traces
    BY <1>6 DEF CallModel
  <2> DEFINE called == IF named THEN model ELSE op.model
             to == [pc |-> "call", model |-> called, tokens |-> op.tokens + 1, calls |-> op.calls + 1,
                    models |-> op.models \cup {model}, cached |-> op.cached, ok |-> op.ok]
  <2>4. /\ op.tokens \in Nat /\ op.calls \in Nat /\ op.models \in SUBSET (ModelNames \cup {CheapModel}) /\ op.cached \in BOOLEAN
        /\ op.ok \in BOOLEAN /\ op.tokens + 1 \in Nat /\ op.calls + 1 \in Nat
        /\ called \in ModelNames \cup {CheapModel} /\ op.pc \notin Booking
    BY <2>1, <2>2 DEF MeterCalls, Booking
  <2>i. called \in op.models \cup {model}
    BY <2>2, <2>3 DEF Metered
  <2>5. /\ to \in MeterCalls /\ to.pc = "call" /\ to.model = called /\ to.tokens = op.tokens + 1
        /\ to.models = op.models \cup {model} /\ to.cached = op.cached /\ to.pc \notin Booking
    BY <2>4 DEF MeterCalls, Booking
  <2>6. meterOp' = [meterOp EXCEPT ![o] = to]
    BY <2>3
  <2> HIDE DEF to, called
  <2>c. ~op.cached /\ Charged(op) = op.tokens /\ Charged(to) = op.tokens + 1 /\ CalcCost(model, 1) \in Nat
    BY <1>s, <2>1, <2>2, <2>5, PricesAdd DEF Metered, Charged
  <2>m. ASSUME NEW new \in MeterRows, new.status = row.status PROVE Metered(to, new)
    <3>1. IsFiniteSet(to.models) /\ to.model \in to.models
      BY <2>2, <2>5, <2>i, FS_AddElement DEF Metered
    <3> QED BY <2>1, <2>2, <2>4, <2>5, <2>c, <2>m, <3>1 DEF Metered
  <2>7. CASE traces' = [traces EXCEPT ![o].spans = @ + CalcCost(model, 1)] /\ UNCHANGED meterFaults
    <3> DEFINE new == [row EXCEPT !.spans = row.spans + CalcCost(model, 1)]
    <3>1. traces' = [traces EXCEPT ![o] = new]
      BY <1>s, <2>7
    <3>n. row.spans \in Nat /\ row.spans + CalcCost(model, 1) \in Nat
      BY <2>2, <2>c DEF MeterRows
    <3>2. new \in MeterRows /\ new.status = row.status /\ new.spans = row.spans + CalcCost(model, 1)
      BY <2>2, <3>n DEF MeterRows
    <3> HIDE DEF new
    <3>3. ASSUME meterFaults = 0, ~peakTurned PROVE SpansAdd(to, new)
      <4>1. SUFFICES ASSUME OneModel(to) PROVE new.spans = CalcCost(model, op.tokens + 1)
        BY <2>5, <2>c DEF SpansAdd, OneModel
      <4>2. called = model /\ \A m \in op.models : m = model
        BY <2>5, <4>1 DEF OneModel
      <4>3. row.spans = CalcCost(op.model, op.tokens) /\ OneModel(op)
        <5>1. OneModel(op)
          BY <2>2, <4>2 DEF OneModel, Metered
        <5> QED BY <2>2, <2>c, <3>3, <5>1 DEF SpansAdd
      <4>4. row.spans = CalcCost(model, op.tokens)
        <5>1. CASE op.models = {}
          <6>1. op.tokens = 0
            BY <2>1, <2>2, <2>4, <2>c, <5>1 DEF Metered
          <6>2. CalcCost(op.model, 0) = 0 /\ CalcCost(model, 0) = 0
            BY <1>s, PricesAdd
          <6> QED BY <4>3, <6>1, <6>2
        <5>2. CASE op.models # {}
          BY <2>2, <4>2, <4>3, <5>2 DEF Metered
        <5> QED BY <5>1, <5>2
      <4> QED BY <1>s, <2>4, <3>2, <4>4, PricesAdd
    <3> QED BY <1>f, <1>g, <2>1, <2>5, <2>6, <2>7, <2>m, <3>1, <3>2, <3>3
  <2>8. CASE meterFaults < MeterFaultMax /\ meterFaults' = meterFaults + 1 /\ UNCHANGED traces
    <3>1. meterFaults' \in 0 .. MeterFaultMax /\ meterFaults' # 0
      BY <1>s, <2>8
    <3>2. Metered(to, row) /\ traces' = [traces EXCEPT ![o] = row]
      BY <2>2, <2>8, <2>m
    <3> QED BY <1>g, <2>1, <2>2, <2>5, <2>6, <3>1, <3>2
  <2> QED BY <2>3, <2>7, <2>8
<1>7. ASSUME NEW o \in MeterOps, CallsEnd(o) PROVE MeterInv'
  <2> DEFINE op == meterOp[o]
             row == traces[o]
             at == [op EXCEPT !.pc = "finish"]
  <2>1. op.pc = "call" /\ Running(o) /\ UNCHANGED <<traces, peak, peakTurned, meterFaults>>
    BY <1>7 DEF CallsEnd, Running
  <2>2. /\ op \in MeterCalls /\ row \in MeterRows /\ Metered(op, row) /\ traces' = [traces EXCEPT ![o] = row]
        /\ meterFaults = 0 /\ ~peakTurned => SpansAdd(op, row)
    BY <1>r, <2>1
  <2>3. PICK ok \in BOOLEAN : meterOp' = [meterOp EXCEPT ![o] = [meterOp[o] EXCEPT !.pc = "finish", !.ok = ok]]
    BY <1>7, <1>s DEF CallsEnd
  <2> DEFINE to == [at EXCEPT !.ok = ok]
  <2>4. meterOp' = [meterOp EXCEPT ![o] = to]
    BY <2>2, <2>3 DEF MeterCalls
  <2>5. /\ at \in MeterCalls /\ at.pc = "finish" /\ at.models = op.models /\ at.model = op.model
        /\ at.cached = op.cached /\ at.tokens = op.tokens
    BY <2>2 DEF MeterCalls
  <2> HIDE DEF at
  <2>6. /\ to \in MeterCalls /\ to.pc = "finish" /\ to.models = op.models /\ to.model = op.model
        /\ to.cached = op.cached /\ to.tokens = op.tokens
    BY <2>5 DEF MeterCalls
  <2> HIDE DEF to
  <2>7. Metered(to, row) /\ (meterFaults = 0 /\ ~peakTurned => SpansAdd(to, row))
    BY <2>1, <2>2, <2>6 DEF Metered, SpansAdd, OneModel, Charged, Booking
  <2> QED BY <1>f, <1>g, <2>1, <2>2, <2>4, <2>6, <2>7
<1>8. ASSUME NEW o \in MeterOps, FinishTrace(o) PROVE MeterInv'
  <2> DEFINE op == meterOp[o]
             row == traces[o]
             cost == CalcCost(op.model, Charged(op))
             new == [status |-> IF op.ok THEN "OK" ELSE "ERROR", tokens |-> op.tokens, cost |-> cost,
                     spans |-> row.spans, cached |-> op.cached]
  <2>1. op.pc = "finish" /\ Running(o) /\ UNCHANGED <<peak, peakTurned, meterFaults>>
    BY <1>8 DEF FinishTrace, Running
  <2>2. /\ op \in MeterCalls /\ row \in MeterRows /\ Metered(op, row)
        /\ meterFaults = 0 /\ ~peakTurned => SpansAdd(op, row)
    BY <1>r, <2>1
  <2>3. traces' = [traces EXCEPT ![o] = new]
    BY <1>8 DEF FinishTrace
  <2>t. op.tokens \in Nat /\ op.cached \in BOOLEAN /\ row.spans \in Nat
    BY <2>2 DEF MeterCalls, MeterRows
  <2>c. cost \in Nat
    <3>1. Charged(op) \in Nat
      BY <2>t DEF Charged
    <3> QED BY <1>s, <3>1, PricesAdd
  <2> HIDE DEF cost
  <2>4. new \in MeterRows /\ new.cost = cost /\ new.spans = row.spans
    BY <2>c, <2>t DEF MeterRows
  <2> HIDE DEF new
  <2>5. CASE Charged(op) > 0
    <3> DEFINE to == [op EXCEPT !.pc = "record"]
    <3>1. meterOp' = [meterOp EXCEPT ![o] = to]
      BY <1>8, <2>5 DEF FinishTrace, MeterGo
    <3>2. /\ to \in MeterCalls /\ to.pc = "record" /\ to.models = op.models /\ to.model = op.model
          /\ to.cached = op.cached /\ to.tokens = op.tokens /\ to.pc \in Booking
      BY <2>2 DEF MeterCalls, Booking
    <3> HIDE DEF to
    <3>3. Charged(to) = Charged(op) /\ (OneModel(to) <=> OneModel(op))
      BY <3>2 DEF Charged, OneModel
    <3>4. new # NoRow
      BY <2>4
    <3>5. Metered(to, new)
      BY <2>2, <3>2, <3>4 DEF Metered
    <3>6. meterFaults = 0 /\ ~peakTurned => SpansAdd(to, new)
      BY <2>2, <2>4, <3>2, <3>3 DEF SpansAdd, cost
    <3> QED BY <1>f, <1>g, <2>1, <2>3, <2>4, <3>1, <3>2, <3>5, <3>6
  <2>6. CASE ~(Charged(op) > 0)
    <3>1. meterOp' = [meterOp EXCEPT ![o] = MeterIdle]
      BY <1>8, <2>6 DEF FinishTrace, MeterEnd
    <3> QED BY <1>e, <1>f, <2>1, <2>3, <2>4, <3>1
  <2> QED BY <2>5, <2>6
(* One that counts goes to another place, or ends.                         *)
<1>p. ASSUME NEW o \in MeterOps, meterOp[o].pc \in Booking, NEW place \in Booking,
             meterOp' = [meterOp EXCEPT ![o].pc = place], UNCHANGED <<traces, peak, peakTurned>>,
             meterFaults' \in 0 .. MeterFaultMax, meterFaults' = 0 => meterFaults = 0
      PROVE  MeterInv'
  <2> DEFINE op == meterOp[o]
             row == traces[o]
             to == [op EXCEPT !.pc = place]
  <2>1. Running(o)
    BY <1>p DEF Running, Booking
  <2>2. /\ op \in MeterCalls /\ row \in MeterRows /\ Metered(op, row) /\ traces' = [traces EXCEPT ![o] = row]
        /\ meterFaults = 0 /\ ~peakTurned => SpansAdd(op, row)
    BY <1>p, <1>r, <2>1
  <2>3. meterOp' = [meterOp EXCEPT ![o] = to]
    BY <1>p, <1>s
  <2>4. /\ to \in MeterCalls /\ to.pc = place /\ to.models = op.models /\ to.model = op.model
        /\ to.cached = op.cached /\ to.tokens = op.tokens
    BY <1>p, <2>2 DEF MeterCalls
  <2> HIDE DEF to
  <2>5. Charged(to) = Charged(op) /\ (OneModel(to) <=> OneModel(op)) /\ to.pc # "ask" /\ to.pc # "call"
    BY <1>p, <2>4 DEF Charged, OneModel, Booking
  <2>6. Metered(to, row)
    BY <1>p, <2>2, <2>4, <2>5 DEF Metered
  <2>7. meterFaults' = 0 /\ ~peakTurned => SpansAdd(to, row)
    BY <1>p, <2>2, <2>4, <2>5 DEF SpansAdd
  <2> QED BY <1>g, <1>p, <2>2, <2>3, <2>4, <2>6, <2>7
<1>t. ASSUME NEW o \in MeterOps, MeterEnd(o), UNCHANGED <<traces, peak, meterFaults, peakTurned>> PROVE MeterInv'
  <2>1. traces' = [traces EXCEPT ![o] = traces[o]] /\ traces[o] \in {NoRow} \cup MeterRows
    BY <1>s, <1>t
  <2> QED BY <1>e, <1>f, <1>t, <2>1 DEF MeterEnd
<1>9. ASSUME NEW o \in MeterOps, RecordUsage(o) PROVE MeterInv'
  <2>1. MeterEnd(o) \/ MeterGo(o, "insert")
    BY <1>9 DEF RecordUsage
  <2>2. meterOp[o].pc \in Booking /\ UNCHANGED <<traces, peak, meterFaults, peakTurned>>
    BY <1>9 DEF RecordUsage, Booking
  <2> QED BY <1>f, <1>p, <1>t, <2>1, <2>2 DEF MeterGo, Booking
<1>11. ASSUME NEW o \in MeterOps, InsertUsage(o) PROVE MeterInv'
  <2>1. MeterEnd(o) \/ MeterGo(o, "again")
    BY <1>11 DEF InsertUsage
  <2>2. meterOp[o].pc \in Booking /\ UNCHANGED <<traces, peak, meterFaults, peakTurned>>
    BY <1>11 DEF InsertUsage, Booking
  <2> QED BY <1>f, <1>p, <1>t, <2>1, <2>2 DEF MeterGo, Booking
<1>12. ASSUME NEW o \in MeterOps, AddAgain(o) PROVE MeterInv'
  BY <1>12, <1>t DEF AddAgain
<1>13. ASSUME NEW o \in MeterOps, UpsertFails(o) PROVE MeterInv'
  <2>1. /\ meterOp' = [meterOp EXCEPT ![o].pc = "again"] /\ meterOp[o].pc \in Booking
        /\ UNCHANGED <<traces, peak, peakTurned>> /\ meterFaults < MeterFaultMax /\ meterFaults' = meterFaults + 1
    BY <1>13 DEF UpsertFails, MeterGo, Booking
  <2>2. meterFaults' \in 0 .. MeterFaultMax /\ meterFaults' # 0
    BY <1>s, <2>1
  <2> QED BY <1>p, <2>1, <2>2 DEF Booking
<1>10. ASSUME NEW o \in MeterOps, MeterFails(o) PROVE MeterInv'
  <2> DEFINE op == meterOp[o]
             row == traces[o]
  <2>1. Running(o) /\ UNCHANGED <<traces, peak, peakTurned>> /\ meterFaults < MeterFaultMax /\ meterFaults' = meterFaults + 1
    BY <1>10 DEF MeterFails
  <2>2. op \in MeterCalls /\ row \in MeterRows /\ Metered(op, row) /\ traces' = [traces EXCEPT ![o] = row]
    BY <1>r, <2>1
  <2>3. meterFaults' \in 0 .. MeterFaultMax /\ meterFaults' # 0
    BY <1>s, <2>1
  <2>4. CASE op.pc = "finish" /\ op.ok
    <3> DEFINE to == [op EXCEPT !.ok = FALSE]
    <3>1. meterOp' = [meterOp EXCEPT ![o] = to]
      BY <1>10, <2>4 DEF MeterFails
    <3>2. /\ to \in MeterCalls /\ to.pc = op.pc /\ to.models = op.models /\ to.model = op.model
          /\ to.cached = op.cached /\ to.tokens = op.tokens
      BY <2>2 DEF MeterCalls
    <3> HIDE DEF to
    <3>3. Metered(to, row)
      BY <2>2, <3>2 DEF Metered, Charged
    <3> QED BY <1>g, <2>1, <2>2, <2>3, <3>1, <3>2, <3>3
  <2>5. CASE ~(op.pc = "finish" /\ op.ok)
    <3>1. meterOp' = [meterOp EXCEPT ![o] = MeterIdle]
      BY <1>10, <2>5 DEF MeterFails, MeterEnd
    <3> QED BY <1>e, <2>1, <2>2, <2>3, <3>1
  <2> QED BY <2>4, <2>5
<1> QED BY <1>1, <1>2, <1>3, <1>4, <1>5, <1>6, <1>7, <1>8, <1>9, <1>10, <1>11, <1>12, <1>13 DEF MeterNext

-----------------------------------------------------------------------------
(* The n-th member of a set of positions.                                  *)
LEMMA NthMember ==
  ASSUME NEW m \in Nat, NEW at, at \subseteq 1 .. m, NEW n \in 1 .. Cardinality(at)
  PROVE  \E i \in at : Cardinality({j \in at : j <= i}) = n
<1> DEFINE upTo(i) == {j \in at : j <= i}
           enough == {i \in 0 .. m : Cardinality(upTo(i)) >= n}
<1>0. IsFiniteSet(1 .. m)
  BY FS_Interval
<1>f. IsFiniteSet(at) /\ Cardinality(at) \in Nat
  BY <1>0, FS_Subset, FS_CardinalityType
<1>g. \A i : IsFiniteSet(upTo(i)) /\ Cardinality(upTo(i)) \in Nat
  BY <1>f, FS_Subset, FS_CardinalityType
<1>n. n \in Nat /\ n >= 1 /\ n <= Cardinality(at)
  BY <1>f
<1>u. \A i : \A j : j \in upTo(i) <=> j \in at /\ j <= i
  OBVIOUS
<1>e. enough \subseteq 0 .. m /\ \A i \in 0 .. m : i \in enough <=> Cardinality(upTo(i)) >= n
  OBVIOUS
<1>a. \A j \in at : j \in Nat /\ 1 <= j /\ j <= m
  OBVIOUS
<1> HIDE DEF upTo, enough
<1>1. m \in enough
  <2>1. upTo(m) = at
    BY <1>a, <1>u
  <2> QED BY <1>e, <1>n, <2>1
<1>2. PICK i \in enough : \A y \in enough : i <= y
  <2>1. enough \subseteq Nat /\ enough # {}
    BY <1>1, <1>e
  <2> QED BY <2>1, LeastOf
<1>b. i \in Nat /\ i <= m
  BY <1>2, <1>e
<1>6. Cardinality(upTo(i)) >= n
  BY <1>2, <1>e
<1>3. i # 0
  <2>0. \A j \in at : ~(j <= 0)
    BY <1>a
  <2>3. \A j : j \notin upTo(0)
    BY <2>0, <1>u
  <2>1. upTo(0) = {}
    BY <2>3
  <2>2. Cardinality(upTo(0)) = 0
    BY <2>1, FS_EmptySet
  <2> QED BY <1>6, <1>n, <2>2
<1>4. i - 1 \in 0 .. m
  BY <1>b, <1>3
<1>5. Cardinality(upTo(i - 1)) < n
  <2>1. ~(i - 1 \in enough)
    BY <1>2, <1>b
  <2> QED BY <1>4, <1>e, <1>g, <1>n, <2>1
<1>7. i \in at
  <2> SUFFICES ASSUME i \notin at PROVE FALSE
    OBVIOUS
  <2>1. \A j : j \in upTo(i) <=> j \in upTo(i - 1)
    <3>1. \A j \in at : j <= i <=> j <= i - 1
      BY <1>a, <1>b
    <3> QED BY <1>u, <3>1
  <2>2. upTo(i) = upTo(i - 1)
    BY <2>1
  <2> QED BY <1>5, <1>6, <1>g, <1>n, <2>2
<1>8. Cardinality(upTo(i)) = Cardinality(upTo(i - 1)) + 1
  <2>1. \A j : j \in upTo(i) <=> j \in upTo(i - 1) \cup {i}
    <3>1. \A j \in at : j <= i <=> (j <= i - 1 \/ j = i)
      BY <1>a, <1>b
    <3>2. i <= i
      BY <1>b
    <3> QED BY <1>7, <1>u, <3>1, <3>2
  <2>2. i \notin upTo(i - 1)
    BY <1>b, <1>u
  <2>3. upTo(i) = upTo(i - 1) \cup {i}
    BY <2>1
  <2> QED BY <1>g, <2>2, <2>3, FS_AddElement
<1>9. Cardinality(upTo(i)) = n
  BY <1>5, <1>6, <1>8, <1>g, <1>n
<1> QED BY <1>7, <1>9 DEF upTo

(* No empty keyword is left.                                               *)
LEMMA FilledIsFilled ==
  ASSUME NEW keywords \in Seq(Words \cup {Empty})
  PROVE  Filled(keywords) \in Seq(Words)
<1> DEFINE at == {i \in DOMAIN keywords : keywords[i] # Empty}
           nth(n) == CHOOSE i \in at : Cardinality({j \in at : j <= i}) = n
<1>1. DOMAIN keywords = 1 .. Len(keywords) /\ Len(keywords) \in Nat /\ at \subseteq 1 .. Len(keywords)
  BY LenProperties
<1>2. \A n \in 1 .. Cardinality(at) : nth(n) \in at
  BY <1>1, NthMember
<1>3. \A i \in at : keywords[i] \in Words
  BY <1>1, ElementOfSeq
<1>4. Cardinality(at) \in Nat
  <2>1. IsFiniteSet(1 .. Len(keywords))
    BY <1>1, FS_Interval
  <2> QED BY <1>1, <2>1, FS_Subset, FS_CardinalityType
<1>5. Filled(keywords) = [n \in 1 .. Cardinality(at) |-> keywords[nth(n)]]
  BY DEF Filled
<1> HIDE DEF at, nth
<1>6. \A n \in 1 .. Cardinality(at) : keywords[nth(n)] \in Words
  BY <1>2, <1>3
<1> DEFINE f == [n \in 1 .. Cardinality(at) |-> keywords[nth(n)]]
<1>7. f \in [1 .. Cardinality(at) -> Words]
  BY <1>6
<1> HIDE DEF f
<1>8. f \in Seq(Words)
  BY <1>4, <1>7, SeqDef
<1> QED BY <1>5, <1>8 DEF f

(* A rule that a validation let in.                                        *)
Rules == [pattern : Words \cup {NoPattern}, keywords : Seq(Words)]
EngineInv ==
  /\ general \in {NoRule} \cup Rules /\ custom \in {NoRule} \cup Rules
  /\ trial.mode \in {"none", "pattern", "keywords"}

LEMMA EngineInitially == ASSUME EngineInit PROVE EngineInv
  BY DEF EngineInit, EngineInv, NoTrial

LEMMA ValidatedAreRules == ASSUME NEW form \in RuleForms, NEW stored \in Validate(form) PROVE stored \in Rules
<1>1. form \in Forms
  BY EngineAssumption
<1>2. form.pattern \in Words \cup {NoPattern} /\ stored = [form EXCEPT !.keywords = Filled(form.keywords)]
  BY <1>1 DEF Validate, Forms
<1>3. Filled(form.keywords) \in Seq(Words)
  BY <1>1, FilledIsFilled DEF Forms
<1>4. stored = [pattern |-> form.pattern, keywords |-> Filled(form.keywords)]
  BY <1>1, <1>2 DEF Forms
<1> QED BY <1>2, <1>3, <1>4 DEF Rules

LEMMA CleanedAreRules == ASSUME NEW form \in Forms, NEW stored \in CleanRule(form) PROVE stored \in Rules
<1> USE EngineAssumption
<1>1. stored = form /\ form.pattern # Bad /\ ~Contains(form.keywords, Empty)
  BY DEF CleanRule
<1>2. form.pattern \in Words \cup {NoPattern} /\ form.keywords \in Seq(Words \cup {Empty})
      /\ form = [pattern |-> form.pattern, keywords |-> form.keywords]
  BY <1>1 DEF Forms
<1> DEFINE kw == form.keywords
<1>3. kw \in [1 .. Len(kw) -> Words \cup {Empty}] /\ Len(kw) \in Nat
  BY <1>2, LenProperties
<1>4. \A i \in 1 .. Len(kw) : kw[i] # Empty
  BY <1>1 DEF Contains
<1>5. kw \in [1 .. Len(kw) -> Words]
  <2> HIDE DEF kw
  <2> QED BY <1>3, <1>4
<1>6. kw \in Seq(Words)
  BY <1>3, <1>5, SeqDef
<1> QED BY <1>1, <1>2, <1>6 DEF Rules

LEMMA ParsedAreForms == ASSUME NEW form \in Forms PROVE ParseRule(form) \in Forms
  BY DEF ParseRule, Forms

LEMMA EnginePreserved == ASSUME EngineInv, [EngineNext]_engineVars PROVE EngineInv'
<1>t. ASSUME NEW form, NEW content PROVE TryRuleOnText(form, content).mode \in {"none", "pattern", "keywords"}
  <2> DEFINE places == {i \in DOMAIN content : Compiles(form) /\ content[i] = form.pattern}
             words == ToSet(form.keywords) \ {Empty}
             whole == \A w \in words : Contains(content, w)
             spots == {IndexOf(content, w) : w \in words}
  <2>1. TryRuleOnText(form, content) =
          CASE places # {} -> [hit |-> TRUE, mode |-> "pattern", matches |-> places]
            [] places = {} /\ words # {} /\ whole -> [hit |-> TRUE, mode |-> "keywords", matches |-> spots]
            [] OTHER -> [hit |-> FALSE, mode |-> "none", matches |-> {}]
    BY DEF TryRuleOnText
  <2> HIDE DEF places, words, whole, spots
  <2>2. CASE places # {}
    BY <2>1, <2>2
  <2>3. CASE places = {} /\ words # {} /\ whole
    BY <2>1, <2>3
  <2>4. CASE places = {} /\ ~(words # {} /\ whole)
    BY <2>1, <2>4
  <2> QED BY <2>2, <2>3, <2>4
<1>1. CASE UNCHANGED engineVars
  BY <1>1 DEF EngineInv, engineVars
<1>2. CASE SaveGeneral
  BY <1>2, ValidatedAreRules DEF SaveGeneral, EngineInv
<1>3. CASE RemoveGeneral
  BY <1>3 DEF RemoveGeneral, EngineInv
<1>4. CASE SaveCustom
  <2>1. PICK form \in RuleForms : \E stored \in CleanRule(form) \cup CleanRule(ParseRule(form)) : custom' = stored
    BY <1>4 DEF SaveCustom
  <2>2. form \in Forms /\ ParseRule(form) \in Forms
    BY EngineAssumption, ParsedAreForms
  <2>3. custom' \in Rules
    BY <2>1, <2>2, CleanedAreRules
  <2> QED BY <1>4, <2>3 DEF SaveCustom, EngineInv
<1>5. CASE TryRule
  BY <1>5, <1>t DEF TryRule, EngineInv
<1>6. CASE TestRule
  BY <1>6, <1>t DEF TestRule, EngineInv, NoTrial
<1> QED BY <1>1, <1>2, <1>3, <1>4, <1>5, <1>6 DEF EngineNext

(* The first place of a word that occurs.                                  *)
LEMMA IndexFound ==
  ASSUME NEW content \in Seq(Words), NEW word, Contains(content, word)
  PROVE  IndexOf(content, word) \in DOMAIN content /\ content[IndexOf(content, word)] = word
         /\ IndexOf(content, word) > 0
<1> DEFINE at == {i \in DOMAIN content : content[i] = word}
<1>1. DOMAIN content = 1 .. Len(content) /\ Len(content) \in Nat
  BY LenProperties
<1>2. at # {} /\ at \subseteq Nat
  BY <1>1 DEF Contains
<1>3. PICK x \in at : \A y \in at : x <= y
  BY <1>2, LeastOf
<1>4. content[x] = word /\ \A j \in 1 .. x - 1 : content[j] # word
  BY <1>1, <1>3
<1>5. IndexOf(content, word) \in DOMAIN content /\ content[IndexOf(content, word)] = word
  BY <1>3, <1>4 DEF IndexOf
<1> QED BY <1>1, <1>5
LEMMA IndexMissing ==
  ASSUME NEW content, NEW word, ~Contains(content, word) PROVE IndexOf(content, word) = 0
  BY DEF IndexOf

(* The engine and the trial agree on every clause.                         *)
LEMMA RulesAgree == ASSUME NEW form \in Rules PROVE Agree(form)
<1> USE EngineAssumption
<1> SUFFICES ASSUME NEW content \in Clauses
             PROVE  LET tried == TryRuleOnText(form, content)
                        at == RuleHits(form, content)
                    IN (tried.hit <=> at > 0) /\ (at > 0 => at \in tried.matches)
  BY DEF Agree
<1> DEFINE byPattern == IF Compiles(form) THEN IndexOf(content, form.pattern) ELSE 0
           places == {i \in DOMAIN content : Compiles(form) /\ content[i] = form.pattern}
           words == ToSet(form.keywords)
           whole == \A w \in words : Contains(content, w)
           spots == {IndexOf(content, w) : w \in words}
           tried == TryRuleOnText(form, content)
           at == RuleHits(form, content)
<1>1. content \in Seq(Words) /\ form.keywords \in Seq(Words)
  BY DEF Rules
<1>2. Empty \notin words /\ words \ {Empty} = words
  <2>1. \A i \in DOMAIN form.keywords : form.keywords[i] \in Words
    BY <1>1, LenProperties, ElementOfSeq
  <2> QED BY <2>1 DEF ToSet
<1>3. words # {} => Head(form.keywords) \in words
  <2> SUFFICES ASSUME words # {} PROVE Head(form.keywords) \in words
    OBVIOUS
  <2>1. DOMAIN form.keywords = 1 .. Len(form.keywords) /\ Len(form.keywords) \in Nat
    BY <1>1, LenProperties
  <2>2. 1 \in DOMAIN form.keywords
    BY <2>1 DEF ToSet
  <2>3. form.keywords # <<>> /\ Head(form.keywords) = form.keywords[1]
    BY <1>1, <2>1, <2>2, EmptySeq, HeadTailProperties
  <2> QED BY <2>2, <2>3 DEF ToSet
<1>4. (places # {} <=> byPattern > 0) /\ byPattern \in Nat /\ (byPattern > 0 => byPattern \in places)
  <2>0. DOMAIN content = 1 .. Len(content) /\ Len(content) \in Nat
    BY <1>1, LenProperties
  <2>1. CASE ~Compiles(form)
    BY <2>1
  <2>2. CASE Compiles(form) /\ Contains(content, form.pattern)
    <3>1. byPattern = IndexOf(content, form.pattern)
      BY <2>2
    <3>2. byPattern \in DOMAIN content /\ content[byPattern] = form.pattern /\ byPattern > 0
      BY <1>1, <2>2, <3>1, IndexFound
    <3>3. byPattern \in places
      BY <2>2, <3>2
    <3> QED BY <2>0, <3>2, <3>3
  <2>3. CASE Compiles(form) /\ ~Contains(content, form.pattern)
    <3>1. byPattern = 0
      BY <2>3, IndexMissing
    <3>2. places = {}
      BY <2>0, <2>3 DEF Contains
    <3> QED BY <3>1, <3>2
  <2> QED BY <2>1, <2>2, <2>3
<1>5. tried =
          CASE places # {} -> [hit |-> TRUE, mode |-> "pattern", matches |-> places]
            [] places = {} /\ words \ {Empty} # {} /\ (\A w \in words \ {Empty} : Contains(content, w))
                 -> [hit |-> TRUE, mode |-> "keywords", matches |-> {IndexOf(content, w) : w \in words \ {Empty}}]
            [] OTHER -> [hit |-> FALSE, mode |-> "none", matches |-> {}]
  BY DEF TryRuleOnText
<1>6. at =
          CASE byPattern > 0 -> byPattern
            [] byPattern = 0 /\ words # {} /\ (\A w \in words : w # Empty /\ Contains(content, w))
                 -> IndexOf(content, Head(form.keywords))
            [] OTHER -> 0
  BY DEF RuleHits
<1>7. (\A w \in words : w # Empty /\ Contains(content, w)) <=> whole
  BY <1>2
<1>8. ASSUME words # {}, whole
      PROVE  IndexOf(content, Head(form.keywords)) \in spots /\ IndexOf(content, Head(form.keywords)) > 0
  BY <1>1, <1>3, <1>8, IndexFound
<1>9. (\A w \in words \ {Empty} : Contains(content, w)) <=> whole
  BY <1>2
<1>a. {IndexOf(content, w) : w \in words \ {Empty}} = spots
  BY <1>2
<1> HIDE DEF byPattern, places, words, whole, spots, tried, at
<1>b. (tried.hit <=> at > 0) /\ (at > 0 => at \in tried.matches)
  <2>1. CASE byPattern > 0
    <3>1. at = byPattern /\ places # {}
      BY <1>4, <1>6, <2>1
    <3>2. tried = [hit |-> TRUE, mode |-> "pattern", matches |-> places]
      BY <1>5, <3>1
    <3> QED BY <1>4, <2>1, <3>1, <3>2
  <2>2. CASE byPattern = 0 /\ words # {} /\ whole
    <3>1. at = IndexOf(content, Head(form.keywords)) /\ places = {}
      BY <1>4, <1>6, <1>7, <2>2
    <3>2. tried = [hit |-> TRUE, mode |-> "keywords", matches |-> spots]
      BY <1>2, <1>5, <1>9, <1>a, <2>2, <3>1
    <3> QED BY <1>8, <2>2, <3>1, <3>2
  <2>3. CASE byPattern = 0 /\ ~(words # {} /\ whole)
    <3>1. at = 0 /\ places = {}
      BY <1>4, <1>6, <1>7, <2>3
    <3>2. tried = [hit |-> FALSE, mode |-> "none", matches |-> {}]
      BY <1>2, <1>5, <1>9, <2>3, <3>1
    <3> QED BY <3>1, <3>2
  <2>4. byPattern > 0 \/ byPattern = 0
    BY <1>4
  <2> QED BY <2>1, <2>2, <2>3, <2>4
<1> QED BY <1>b DEF tried, at

LEMMA RulesInType == ASSUME EngineInv PROVE EngineTypeOK /\ TrialMatchesReview
  BY RulesAgree DEF EngineInv, EngineTypeOK, TrialMatchesReview, Rules

-----------------------------------------------------------------------------
Writes == [key : CaseKeys, wants : SUBSET (Codes \cup {f.code : f \in Findings}), on : BOOLEAN]
(* What sync-feedback still has to write can be written, and where the     *)
(* history says the cases are current nothing is left to repair.           *)
EvalInv ==
  /\ verdict \in [Findings -> {"OPEN", "IGNORED", "ACCEPTED"}]
  /\ cases \in [CaseKeys -> {NoCase} \cup CaseRows]
  /\ syncing \subseteq Writes /\ \A w \in syncing : ~w.on => cases[w.key] # NoCase
  /\ evalRun.status \in {"NONE", "RUNNING", "DONE", "FAILED"}
  /\ results \subseteq drafts /\ (evalRun.status = "NONE" => results = {})
  /\ current => syncing = {} /\ Repairs = {}

LEMMA WantedFollows == ASSUME UNCHANGED verdict PROVE Wanted' = Wanted /\ Decided' = Decided
<1>1. Decided' = Decided
  BY DEF Decided
<1>2. Ignored' = Ignored
  BY <1>1 DEF Ignored
<1>3. FalseAlarms' = FalseAlarms
  BY <1>2 DEF FalseAlarms
<1>4. \A f : AcceptedCodes(f)' = AcceptedCodes(f)
  BY <1>1, <1>2 DEF AcceptedCodes, SiblingsOf
<1>5. \A c : Gaps(c)' = Gaps(c)
  BY <1>1, <1>2 DEF Gaps
<1>6. Wanted' = Wanted
  BY <1>3, <1>4, <1>5 DEF Wanted
<1> QED BY <1>1, <1>6
LEMMA RepairsFollow == ASSUME UNCHANGED <<verdict, cases>> PROVE Repairs' = Repairs
  BY WantedFollows DEF Repairs

LEMMA CodesAreKept == \A f : AcceptedCodes(f) \subseteq {g.code : g \in Findings}
  BY DEF AcceptedCodes, SiblingsOf, Decided

LEMMA RepairsAreWrites ==
  ASSUME EvalInv
  PROVE  Repairs \subseteq Writes /\ \A w \in Repairs : ~w.on => cases[w.key] # NoCase
<1> DEFINE all == Codes \cup {f.code : f \in Findings}
<1>0. \A f \in Findings : <<"risk", f>> \in CaseKeys
  BY DEF CaseKeys
<1>1. \A c \in Codes : <<"agentgap", c>> \in CaseKeys
  BY DEF CaseKeys
<1>2. FalseAlarms \subseteq Findings
  BY DEF FalseAlarms, Ignored, Decided
<1>3. \A w \in Wanted : w.key \in CaseKeys /\ w.wants \in SUBSET all
  <2>1. ASSUME NEW w \in {[key |-> <<"risk", f>>, wants |-> AcceptedCodes(f) \ {f.code}] : f \in FalseAlarms}
        PROVE  w.key \in CaseKeys /\ w.wants \in SUBSET all
    <3>1. PICK f \in FalseAlarms : w = [key |-> <<"risk", f>>, wants |-> AcceptedCodes(f) \ {f.code}]
      BY <2>1
    <3> QED BY <1>0, <1>2, <3>1, CodesAreKept
  <2>2. ASSUME NEW w \in {[key |-> <<"agentgap", c>>, wants |-> AcceptedCodes(CHOOSE f \in Gaps(c) : TRUE) \cup {c}] :
                             c \in {d \in Codes : Cardinality(Gaps(d)) >= MinRepeat}}
        PROVE  w.key \in CaseKeys /\ w.wants \in SUBSET all
    <3>1. PICK c \in Codes : w = [key |-> <<"agentgap", c>>, wants |-> AcceptedCodes(CHOOSE f \in Gaps(c) : TRUE) \cup {c}]
      BY <2>2
    <3> QED BY <1>1, <3>1, CodesAreKept
  <2> QED BY <2>1, <2>2 DEF Wanted
<1>4. ASSUME NEW w \in {[key |-> v.key, wants |-> v.wants, on |-> TRUE] :
                           v \in {u \in Wanted : IF cases[u.key] = NoCase THEN TRUE
                                                 ELSE cases[u.key] # [wants |-> u.wants, active |-> TRUE]}}
      PROVE  w \in Writes /\ w.on
  <2>1. PICK v \in Wanted : w = [key |-> v.key, wants |-> v.wants, on |-> TRUE]
    BY <1>4
  <2>2. v.key \in CaseKeys /\ v.wants \in SUBSET all
    BY <1>3
  <2> QED BY <2>1, <2>2 DEF Writes
<1>5. ASSUME NEW w \in {[key |-> k, wants |-> {}, on |-> FALSE] :
                           k \in {j \in CaseKeys \ {v.key : v \in Wanted} :
                                    IF cases[j] = NoCase THEN FALSE ELSE cases[j].active}}
      PROVE  w \in Writes /\ cases[w.key] # NoCase
  <2>1. PICK k \in CaseKeys : w = [key |-> k, wants |-> {}, on |-> FALSE] /\ cases[k] # NoCase
    BY <1>5
  <2> QED BY <2>1 DEF Writes
<1> QED BY <1>4, <1>5 DEF Repairs

LEMMA EvalInitially == ASSUME EvalInit PROVE EvalInv
<1> USE EvalAssumption
<1>1. Decided = {} /\ FalseAlarms = {} /\ \A c : Gaps(c) = {}
  BY DEF EvalInit, Decided, FalseAlarms, Ignored, Gaps
<1>2. \A c : Cardinality(Gaps(c)) = 0
  BY <1>1, FS_EmptySet
<1>3. {d \in Codes : Cardinality(Gaps(d)) >= MinRepeat} = {}
  BY <1>2
<1>4. Wanted = {}
  BY <1>1, <1>3 DEF Wanted
<1>5. \A k \in CaseKeys : cases[k] = NoCase
  BY DEF EvalInit
<1>6. Repairs = {}
  BY <1>4, <1>5 DEF Repairs
<1>7. verdict \in [Findings -> {"OPEN", "IGNORED", "ACCEPTED"}] /\ cases \in [CaseKeys -> {NoCase} \cup CaseRows]
  BY DEF EvalInit
<1> QED BY <1>6, <1>7 DEF EvalInit, EvalInv, EvalIdle

LEMMA EvalPreserved == ASSUME EvalInv, [EvalNext]_evalVars PROVE EvalInv'
<1> USE EvalAssumption
<1>s. /\ verdict \in [Findings -> {"OPEN", "IGNORED", "ACCEPTED"}] /\ cases \in [CaseKeys -> {NoCase} \cup CaseRows]
      /\ syncing \subseteq Writes /\ \A w \in syncing : ~w.on => cases[w.key] # NoCase
  BY DEF EvalInv
<1>r. UNCHANGED <<verdict, cases>> => Repairs' = Repairs
  BY RepairsFollow
<1>1. CASE UNCHANGED evalVars
  BY <1>1, <1>r DEF EvalInv, evalVars
<1>2. ASSUME NEW f \in Findings, NEW status \in {"OPEN", "IGNORED", "ACCEPTED"}, Decide(f, status) PROVE EvalInv'
  BY <1>2 DEF Decide, EvalInv
<1>3. CASE StartSync
  BY <1>3, <1>r, RepairsAreWrites DEF StartSync, EvalInv
<1>4. CASE SyncStops
  BY <1>4 DEF SyncStops, EvalInv
<1>5. ASSUME NEW w \in syncing, WriteCase(w) PROVE EvalInv'
  <2>1. w.key \in CaseKeys /\ w.wants \in SUBSET (Codes \cup {f.code : f \in Findings}) /\ w.on \in BOOLEAN
    BY <1>s DEF Writes
  <2> DEFINE row == IF w.on THEN [wants |-> w.wants, active |-> TRUE] ELSE [cases[w.key] EXCEPT !.active = FALSE]
  <2>2. row \in CaseRows
    <3>1. CASE w.on
      BY <2>1, <3>1 DEF CaseRows
    <3>2. CASE ~w.on
      <4>1. cases[w.key] \in CaseRows
        BY <1>s, <2>1, <3>2
      <4>2. [cases[w.key] EXCEPT !.active = FALSE] \in CaseRows
        BY <4>1 DEF CaseRows
      <4> QED BY <3>2, <4>2
    <3> QED BY <3>1, <3>2
  <2>3. cases' = [cases EXCEPT ![w.key] = row]
    BY <1>5 DEF WriteCase
  <2> HIDE DEF row
  <2>4. cases' \in [CaseKeys -> {NoCase} \cup CaseRows]
    BY <1>s, <2>2, <2>3
  <2>5. \A v \in syncing' : ~v.on => cases'[v.key] # NoCase
    <3> SUFFICES ASSUME NEW v \in syncing', ~v.on PROVE cases'[v.key] # NoCase
      OBVIOUS
    <3>1. v \in syncing /\ v.key \in CaseKeys
      BY <1>5, <1>s DEF WriteCase, Writes
    <3>2. cases[v.key] # NoCase
      BY <1>s, <3>1
    <3>3. cases'[v.key] = (IF v.key = w.key THEN row ELSE cases[v.key])
      BY <1>s, <2>3, <3>1
    <3> QED BY <2>2, <3>2, <3>3
  <2> QED BY <1>5, <2>4, <2>5 DEF WriteCase, EvalInv
<1>6. ASSUME NEW withFeedback \in BOOLEAN, StartEval(withFeedback) PROVE EvalInv'
  BY <1>6, <1>r DEF StartEval, EvalInv, EvalIdle
<1>7. ASSUME NEW d \in drafts, StoreResult(d) PROVE EvalInv'
  BY <1>7, <1>r DEF StoreResult, EvalInv
<1>8. CASE FinishEval
  BY <1>8, <1>r DEF FinishEval, EvalInv
<1>9. CASE FailEval
  <2>1. evalRun'.status \in {"DONE", "FAILED", "NONE"} /\ (evalRun'.status = "NONE" => results = {})
    BY <1>9 DEF FailEval, EvalInv
  <2> QED BY <1>9, <1>r, <2>1 DEF FailEval, EvalInv
<1>10. CASE AgainEval
  BY <1>10, <1>r DEF AgainEval, EvalInv, EvalIdle
<1> QED BY <1>1, <1>2, <1>3, <1>4, <1>5, <1>6, <1>7, <1>8, <1>9, <1>10 DEF EvalNext

LEMMA EvalAgrees == ASSUME EvalInv PROVE EvalTypeOK /\ FeedbackMirrorsReview
<1>1. EvalTypeOK
  BY DEF EvalInv, EvalTypeOK
<1>2. ASSUME current, NEW k \in CaseKeys
      PROVE  (IF cases[k] = NoCase THEN FALSE ELSE cases[k].active)
               <=> \E w \in Wanted : w.key = k /\ cases[k].wants = w.wants
  <2>1. Repairs = {} /\ cases[k] \in {NoCase} \cup CaseRows
    BY <1>2 DEF EvalInv
  <2>2. \A v \in Wanted : ~(IF cases[v.key] = NoCase THEN TRUE
                            ELSE cases[v.key] # [wants |-> v.wants, active |-> TRUE])
    BY <2>1 DEF Repairs
  <2>3. k \notin {w.key : w \in Wanted} => ~(IF cases[k] = NoCase THEN FALSE ELSE cases[k].active)
    BY <2>1 DEF Repairs
  <2>4. ASSUME NEW w \in Wanted, w.key = k
        PROVE  cases[k] # NoCase /\ cases[k].active /\ cases[k].wants = w.wants
    <3>1. cases[k] # NoCase /\ cases[k] = [wants |-> w.wants, active |-> TRUE]
      BY <2>2, <2>4
    <3> QED BY <3>1
  <2>5. CASE \E w \in Wanted : w.key = k
    BY <2>4, <2>5
  <2>6. CASE ~\E w \in Wanted : w.key = k
    BY <2>3, <2>6
  <2> QED BY <2>5, <2>6
<1> QED BY <1>1, <1>2 DEF FeedbackMirrorsReview

-----------------------------------------------------------------------------
(* Once a review is decided the contract holds an opinion.                 *)
LibraryInv ==
  /\ libPlan \in LibraryPlans /\ seeded \subseteq Templates
  /\ libStatus \in {"READY", "REVIEWING", "WAITING_REVIEW", "COMPLETED"}
  /\ libTasks \in Seq(TaskRows) /\ Latest <= ReviewsMax
  /\ reportOf \in {NoReview} \cup Opinions
  /\ \A i \in 1 .. Latest : libTasks[i].status \in {"APPROVED", "REJECTED"} => reportOf # NoReview

LEMMA LibraryInitially == ASSUME LibraryInit PROVE LibraryInv
<1>1. Latest = 0 /\ libTasks \in Seq(TaskRows)
  BY EmptySeq DEF LibraryInit, Latest
<1> QED BY <1>1, LibraryAssumption DEF LibraryInit, LibraryInv

LEMMA LibraryPreserved == ASSUME LibraryInv, [LibraryNext]_libraryVars PROVE LibraryInv'
<1> USE LibraryAssumption
<1>s. libTasks \in Seq(TaskRows) /\ Latest \in Nat /\ Latest = Len(libTasks) /\ Latest <= ReviewsMax
      /\ DOMAIN libTasks = 1 .. Latest /\ \A i \in 1 .. Latest : libTasks[i] \in TaskRows
  BY LenProperties, ElementOfSeq DEF LibraryInv, Latest
(* The reviews and the opinion are left alone.                             *)
<1>u. ASSUME UNCHANGED <<libTasks, reportOf>>, libPlan' \in LibraryPlans, seeded' \subseteq Templates, libStatus' = libStatus
      PROVE  LibraryInv'
  BY <1>u DEF LibraryInv, Latest
<1>1. CASE UNCHANGED libraryVars
  BY <1>1, <1>u DEF LibraryInv, libraryVars
<1>2. CASE PlanTurns
  BY <1>2, <1>u DEF PlanTurns, LibraryInv
<1>3. CASE SeedTemplates
  BY <1>3, <1>u DEF SeedTemplates, LibraryInv
<1>4. CASE ReviewBegins
  <2>1. PICK coupon \in BOOLEAN : libTasks' = Append(libTasks, [status |-> "RUNNING", deep |-> coupon \/ CanExport, risks |-> [r \in RiskIds |-> "PENDING"]])
    BY <1>4 DEF ReviewBegins
  <2> DEFINE row == [status |-> "RUNNING", deep |-> coupon \/ CanExport, risks |-> [r \in RiskIds |-> "PENDING"]]
  <2>2. row \in TaskRows
    <3>1. (coupon \/ CanExport) \in BOOLEAN
      OBVIOUS
    <3>2. [r \in RiskIds |-> "PENDING"] \in [RiskIds -> {"PENDING", "ACCEPTED", "IGNORED"}]
      OBVIOUS
    <3> QED BY <3>1, <3>2 DEF TaskRows
  <2>3. row.status = "RUNNING"
    OBVIOUS
  <2>4. libTasks' = Append(libTasks, row)
    BY <2>1
  <2> HIDE DEF row
  <2>5. libTasks' \in Seq(TaskRows) /\ Len(libTasks') = Latest + 1
        /\ (\A i \in 1 .. Latest : libTasks'[i] = libTasks[i]) /\ libTasks'[Latest + 1] = row
    BY <1>s, <2>2, <2>4, AppendProperties
  <2>6. Len(libTasks') <= ReviewsMax
    BY <1>4, <1>s, <2>5 DEF ReviewBegins
  <2>7. ASSUME NEW i \in 1 .. Len(libTasks'), libTasks'[i].status \in {"APPROVED", "REJECTED"} PROVE reportOf # NoReview
    <3>1. i \in 1 .. Latest \/ i = Latest + 1
      BY <1>s, <2>5
    <3>2. i \in 1 .. Latest /\ libTasks'[i] = libTasks[i]
      BY <2>3, <2>5, <2>7, <3>1
    <3> QED BY <2>7, <3>2 DEF LibraryInv
  <2> QED BY <1>4, <2>5, <2>6, <2>7 DEF ReviewBegins, LibraryInv, Latest
(* One review goes on.                                                     *)
<1>g. ASSUME NEW i \in 1 .. Latest, NEW row \in TaskRows, libTasks' = [libTasks EXCEPT ![i] = row],
             row.status \in {"APPROVED", "REJECTED"} => reportOf' # NoReview,
             reportOf' = reportOf \/ reportOf' \in Opinions,
             libStatus' \in {"READY", "REVIEWING", "WAITING_REVIEW", "COMPLETED"},
             UNCHANGED <<libPlan, seeded>>
      PROVE  LibraryInv'
  <2>1. libTasks' \in Seq(TaskRows) /\ Len(libTasks') = Latest
        /\ \A j \in 1 .. Latest : libTasks'[j] = IF j = i THEN row ELSE libTasks[j]
    BY <1>g, <1>s, ExceptSeq
  <2>2. reportOf' \in {NoReview} \cup Opinions /\ (reportOf # NoReview => reportOf' # NoReview)
    BY <1>g DEF LibraryInv
  <2>3. ASSUME NEW j \in 1 .. Latest, libTasks'[j].status \in {"APPROVED", "REJECTED"} PROVE reportOf' # NoReview
    <3>1. CASE j = i
      BY <1>g, <2>1, <2>3, <3>1
    <3>2. CASE j # i
      BY <2>1, <2>2, <2>3, <3>2 DEF LibraryInv
    <3> QED BY <3>1, <3>2
  <2>4. Latest' = Latest
    BY <2>1 DEF Latest
  <2> QED BY <1>g, <1>s, <2>1, <2>2, <2>3, <2>4 DEF LibraryInv
<1>5. CASE ReviewWaits
  <2>1. Latest \in 1 .. Latest
    BY <1>5, <1>s DEF ReviewWaits
  <2> DEFINE row == [libTasks[Latest] EXCEPT !.status = "WAITING_REVIEW"]
  <2>2. row \in TaskRows /\ row.status = "WAITING_REVIEW"
    BY <1>s, <2>1 DEF TaskRows
  <2>3. libTasks' = [libTasks EXCEPT ![Latest] = row] /\ libStatus' = "WAITING_REVIEW" /\ UNCHANGED <<libPlan, reportOf, seeded>>
    BY <1>5, <2>1 DEF ReviewWaits
  <2> HIDE DEF row
  <2> QED BY <1>g, <2>1, <2>2, <2>3
<1>6. ASSUME NEW i \in 1 .. Latest, ReviewDecided(i) PROVE LibraryInv'
  <2>1. PICK verdicts \in [RiskIds -> {"ACCEPTED", "IGNORED"}], outcome \in {"APPROVED", "REJECTED"} :
          /\ libTasks' = [libTasks EXCEPT ![i] = [@ EXCEPT !.status = outcome, !.risks = verdicts]]
          /\ reportOf' = [task |-> i, risks |-> verdicts]
          /\ libStatus' = IF outcome = "APPROVED" THEN "COMPLETED" ELSE "READY"
    BY <1>6 DEF ReviewDecided
  <2> DEFINE at == [libTasks[i] EXCEPT !.status = outcome]
             row == [at EXCEPT !.risks = verdicts]
  <2>2. at \in TaskRows /\ at.status = outcome
    BY <1>s DEF TaskRows
  <2>3. libTasks' = [libTasks EXCEPT ![i] = row]
    BY <2>1
  <2> HIDE DEF at
  <2>4. row \in TaskRows
    BY <2>2 DEF TaskRows
  <2> HIDE DEF row
  <2>5. reportOf' \in Opinions /\ libStatus' \in {"READY", "COMPLETED"}
    BY <1>s, <2>1 DEF Opinions
  <2> QED BY <1>6, <1>g, <2>3, <2>4, <2>5 DEF ReviewDecided
<1>7. ASSUME NEW i \in 1 .. Latest, ReadReport(i) PROVE LibraryInv'
  BY <1>7, <1>u DEF ReadReport, LibraryInv
<1>8. ASSUME NEW i \in 1 .. Latest, ExportReport(i) PROVE LibraryInv'
  BY <1>8, <1>u DEF ExportReport, LibraryInv
<1>9. CASE ExportRevision
  BY <1>9, <1>u DEF ExportRevision, LibraryInv
<1>10. ASSUME NEW t \in Templates, PreviewTemplate(t) PROVE LibraryInv'
  BY <1>10, <1>u DEF PreviewTemplate, LibraryInv
<1>11. ASSUME NEW t \in Templates, DownloadTemplate(t) PROVE LibraryInv'
  BY <1>11, <1>u DEF DownloadTemplate, LibraryInv
<1>12. ASSUME NEW t \in Templates, AdoptTemplate(t) PROVE LibraryInv'
  BY <1>12, <1>u DEF AdoptTemplate, LibraryInv
<1> QED BY <1>1, <1>2, <1>3, <1>4, <1>5, <1>6, <1>7, <1>8, <1>9, <1>10, <1>11, <1>12 DEF LibraryNext

(* Every filter gives the contract one place.                              *)
LEMMA ListedOnce == ASSUME LibraryInv PROVE LibraryTypeOK /\ ListsArePartition
<1> USE LibraryAssumption
<1>s. Latest \in Nat /\ (Latest # 0 => Latest \in 1 .. Latest) /\ \A i \in 1 .. Latest : libTasks[i] \in TaskRows
  BY LenProperties, ElementOfSeq DEF LibraryInv, Latest
<1> DEFINE review == IF Latest = 0 THEN "none" ELSE libTasks[Latest].status
           filters == {f \in {"PENDING", "WAITING_REVIEW", "APPROVED", "FAILED"} : ListedAs(f)}
<1>1. review \in {"none", "RUNNING", "WAITING_REVIEW", "APPROVED", "REJECTED"}
  <2>1. CASE Latest = 0
    BY <2>1
  <2>2. CASE Latest # 0
    BY <1>s, <2>2 DEF TaskRows
  <2> QED BY <2>1, <2>2
<1>2. /\ ListedAs("PENDING") <=> libStatus # "FAILED" /\ review \in {"none", "RUNNING"}
      /\ ListedAs("WAITING_REVIEW") <=> review = "WAITING_REVIEW"
      /\ ListedAs("APPROVED") <=> review = "APPROVED"
      /\ ListedAs("FAILED") <=> libStatus = "FAILED" \/ review = "REJECTED"
  BY DEF ListedAs
<1>3. libStatus # "FAILED"
  BY DEF LibraryInv
<1>4. ListItem.review = review /\ ListItem.hasReport = (reportOf # NoReview)
  BY DEF ListItem
<1>5. review = "WAITING_REVIEW" <=> Latest \in PendingTasks
  <2>1. CASE Latest = 0
    BY <2>1 DEF PendingTasks
  <2>2. CASE Latest # 0
    BY <1>s, <2>2 DEF PendingTasks
  <2> QED BY <2>1, <2>2
<1>6. review \in {"APPROVED", "REJECTED"} => reportOf # NoReview
  <2>1. CASE Latest = 0
    BY <2>1
  <2>2. CASE Latest # 0
    BY <1>s, <2>2 DEF LibraryInv
  <2> QED BY <2>1, <2>2
<1> HIDE DEF review
<1>7. \E f : filters = {f}
  <2>1. CASE review \in {"none", "RUNNING"}
    <3>1. filters = {"PENDING"}
      BY <1>2, <1>3, <2>1
    <3> QED BY <3>1
  <2>2. CASE review = "WAITING_REVIEW"
    <3>1. filters = {"WAITING_REVIEW"}
      BY <1>2, <1>3, <2>2
    <3> QED BY <3>1
  <2>3. CASE review = "APPROVED"
    <3>1. filters = {"APPROVED"}
      BY <1>2, <1>3, <2>3
    <3> QED BY <3>1
  <2>4. CASE review = "REJECTED"
    <3>1. filters = {"FAILED"}
      BY <1>2, <1>3, <2>4
    <3> QED BY <3>1
  <2> QED BY <1>1, <2>1, <2>2, <2>3, <2>4
<1>8. Cardinality(filters) = 1
  BY <1>7, FS_Singleton
<1>9. LibraryTypeOK
  BY DEF LibraryInv, LibraryTypeOK
<1> QED BY <1>4, <1>5, <1>6, <1>8, <1>9 DEF ListsArePartition

--------------------------------------------------------------------------------
(* The month's row is the sum of the traces whose requests ended, until a  *)
(* statement fails.                                                        *)
Burned == {o \in Opened : ~Running(o) /\ ~traces[o].cached}
TokensOf == [o \in MeterOps |-> traces[o].tokens]
CostOf == [o \in MeterOps |-> traces[o].cost]
UsedCost == IF quotaUsage = NoRow THEN 0 ELSE quotaUsage.cost

Priced(op, row) ==
  op.pc \in Booking => ~op.cached /\ ~row.cached /\ row.tokens = op.tokens /\ row.status # "RUNNING"

MonthInv ==
  /\ IsFiniteSet(Opened) /\ quotaUsage \in {NoRow} \cup UsageRows
  /\ \A o \in MeterOps : Running(o) => Priced(meterOp[o], traces[o])
  /\ \A o \in MeterOps : Running(o) => (meterOp[o].pc = "again" /\ meterFaults = 0 => quotaUsage # NoRow)
  /\ meterFaults = 0 =>
       /\ \A o \in Opened : ~Running(o) => traces[o].status # "RUNNING"
       /\ UsedTokens = SumFunctionOnSet(TokensOf, Burned)
       /\ UsedCost = SumFunctionOnSet(CostOf, Burned)

LEMMA MonthInitially == ASSUME MeterInit PROVE MonthInv
<1>1. Opened = {} /\ Burned = {} /\ UsedTokens = 0 /\ UsedCost = 0 /\ quotaUsage = NoRow
  BY DEF MeterInit, Opened, Burned, UsedTokens, UsedCost
<1>2. \A o \in MeterOps : ~Running(o)
  BY DEF MeterInit, Running, MeterIdle
<1> QED BY <1>1, <1>2, SumEmpty, FS_EmptySet DEF MonthInv

LEMMA BurnedAre ==
  ASSUME MeterShape
  PROVE  \A o \in Burned : /\ o \in MeterOps /\ traces[o] \in MeterRows
                           /\ TokensOf[o] = traces[o].tokens /\ CostOf[o] = traces[o].cost
                           /\ TokensOf[o] \in Int /\ CostOf[o] \in Int
  BY DEF MeterShape, Burned, Opened, TokensOf, CostOf, MeterRows

(* What burned before stays as it was.                                     *)
LEMMA SumsStay ==
  ASSUME MeterShape, MeterShape', IsFiniteSet(Burned), NEW S, S \subseteq Burned, S \subseteq Burned', \A o \in S : traces'[o] = traces[o]
  PROVE  /\ SumFunctionOnSet(TokensOf', S) = SumFunctionOnSet(TokensOf, S)
         /\ SumFunctionOnSet(CostOf', S) = SumFunctionOnSet(CostOf, S)
<1> DEFINE f == TokensOf
           g == TokensOf'
           h == CostOf
           k == CostOf'
<1>1. \A o \in S : f[o] \in Int /\ f[o] = g[o] /\ h[o] \in Int /\ h[o] = k[o]
  <2>1. \A o \in S : o \in MeterOps /\ f[o] \in Int /\ h[o] \in Int
    BY BurnedAre
  <2> QED BY <2>1 DEF TokensOf, CostOf
<1>2. IsFiniteSet(S)
  BY FS_Subset
<1> HIDE DEF f, g, h, k
<1>3. SumFunctionOnSet(f, S) = SumFunctionOnSet(g, S) /\ SumFunctionOnSet(h, S) = SumFunctionOnSet(k, S)
  BY <1>1, <1>2, SumSame
<1> QED BY <1>3 DEF f, g, h, k

LEMMA MonthPreserved ==
  ASSUME MeterInv, MeterInv', MonthInv, [MeterNext]_meterVars PROVE MonthInv'
<1> USE MeterAssumption
<1>s. /\ traces \in [MeterOps -> {NoRow} \cup MeterRows] /\ meterOp \in [MeterOps -> {MeterIdle} \cup MeterCalls]
      /\ meterFaults \in Nat /\ MeterShape /\ MeterShape' /\ peak \in BOOLEAN
  BY DEF MeterInv, MeterShape
<1>i. MeterIdle.pc = "idle" /\ \A op \in MeterCalls : op.pc # "idle"
  BY DEF MeterIdle, MeterCalls, Booking
<1>m. /\ IsFiniteSet(Opened) /\ quotaUsage \in {NoRow} \cup UsageRows /\ IsFiniteSet(Burned)
      /\ \A o \in MeterOps : Running(o) => meterOp[o] \in MeterCalls /\ traces[o] \in MeterRows /\ Priced(meterOp[o], traces[o])
  <2>1. Burned \subseteq Opened
    BY DEF Burned
  <2> QED BY <1>s, <1>i, <2>1, FS_Subset DEF MonthInv, MeterInv, Running, Metered
(* A request opens, goes on or ends, and what burned does not change.      *)
<1>g. ASSUME NEW o \in MeterOps, NEW row \in MeterRows, traces' = [traces EXCEPT ![o] = row],
             NEW op \in {MeterIdle} \cup MeterCalls, meterOp' = [meterOp EXCEPT ![o] = op],
             UNCHANGED quotaUsage, Running(o) \/ traces[o] = NoRow,
             op \in MeterCalls => Priced(op, row), op.pc = "again" /\ meterFaults' = 0 => quotaUsage # NoRow,
             meterFaults' = 0 => meterFaults = 0,
             meterFaults' = 0 => op \in MeterCalls \/ (row.status # "RUNNING" /\ (row.cached \/ (row.tokens = 0 /\ row.cost = 0)))
      PROVE  MonthInv'
  <2>1. \A p \in MeterOps : meterOp'[p] = (IF p = o THEN op ELSE meterOp[p]) /\ traces'[p] = (IF p = o THEN row ELSE traces[p])
    BY <1>g, <1>s
  <2>2. Opened' = Opened \cup {o}
    BY <1>g, <2>1 DEF Opened
  <2>3. IsFiniteSet(Opened')
    BY <1>m, <2>2, FS_AddElement
  <2>4. ASSUME NEW p \in MeterOps, Running(p)' PROVE Priced(meterOp'[p], traces'[p])
    BY <1>g, <1>i, <1>m, <2>1, <2>4 DEF Running
  <2>a. ASSUME NEW p \in MeterOps, Running(p)', meterOp'[p].pc = "again", meterFaults' = 0 PROVE quotaUsage' # NoRow
    BY <1>g, <2>1, <2>a DEF Running, MonthInv
  <2>5. ASSUME meterFaults' = 0
        PROVE  /\ \A p \in Opened' : ~Running(p)' => traces'[p].status # "RUNNING"
               /\ UsedTokens' = SumFunctionOnSet(TokensOf', Burned')
               /\ UsedCost' = SumFunctionOnSet(CostOf', Burned')
    <3>1. o \notin Burned
      BY <1>g DEF Burned, Opened
    <3>2. \A p \in Opened' : ~Running(p)' => traces'[p].status # "RUNNING"
      <4> SUFFICES ASSUME NEW p \in Opened', ~Running(p)' PROVE traces'[p].status # "RUNNING"
        OBVIOUS
      <4>1. CASE p = o
        BY <1>g, <1>i, <2>1, <2>5, <4>1 DEF Running
      <4>2. CASE p # o
        BY <1>g, <2>1, <2>2, <2>5, <4>2 DEF Running, MonthInv, Opened
      <4> QED BY <4>1, <4>2
    <3>3. UsedTokens' = UsedTokens /\ UsedCost' = UsedCost
      BY <1>g DEF UsedTokens, UsedCost
    <3>4. /\ UsedTokens = SumFunctionOnSet(TokensOf, Burned)
          /\ UsedCost = SumFunctionOnSet(CostOf, Burned)
      BY <1>g, <2>5 DEF MonthInv
    <3>5. \A p \in MeterOps : p # o => (p \in Burned' <=> p \in Burned)
      BY <2>1 DEF Burned, Opened, Running
    <3>6. Burned \subseteq Burned' /\ \A p \in Burned : traces'[p] = traces[p]
      BY <2>1, <3>1, <3>5 DEF Burned, Opened
    <3>7. /\ SumFunctionOnSet(TokensOf', Burned) = SumFunctionOnSet(TokensOf, Burned)
          /\ SumFunctionOnSet(CostOf', Burned) = SumFunctionOnSet(CostOf, Burned)
      BY <1>m, <1>s, <3>6, SumsStay
    <3>8. CASE o \notin Burned'
      <4>1. Burned' = Burned
        BY <3>1, <3>5, <3>8 DEF Burned, Opened
      <4> QED BY <3>2, <3>3, <3>4, <3>7, <4>1
    <3>9. CASE o \in Burned'
      <4>1. Burned' = Burned \cup {o}
        BY <3>5, <3>6, <3>9 DEF Burned, Opened
      <4>2. TokensOf'[o] = 0 /\ CostOf'[o] = 0
        BY <1>g, <1>i, <2>1, <2>5, <3>9 DEF Burned, Opened, Running, TokensOf, CostOf
      <4> DEFINE f == TokensOf'
                 h == CostOf'
      <4>3. \A p \in Burned \cup {o} : f[p] \in Int /\ h[p] \in Int
        BY <1>s, <4>1 DEF MeterShape, Burned, Opened, TokensOf, CostOf, MeterRows
      <4> HIDE DEF f, h
      <4>4. /\ SumFunctionOnSet(f, Burned \cup {o}) = f[o] + SumFunctionOnSet(f, Burned)
            /\ SumFunctionOnSet(h, Burned \cup {o}) = h[o] + SumFunctionOnSet(h, Burned)
        BY <1>m, <3>1, <4>3, SumAdds
      <4>5. SumFunctionOnSet(f, Burned) \in Int /\ SumFunctionOnSet(h, Burned) \in Int
        BY <1>m, <4>3, SumChosen
      <4>6. f[o] = 0 /\ h[o] = 0
        BY <4>2 DEF f, h
      <4>7. /\ SumFunctionOnSet(f, Burned \cup {o}) = SumFunctionOnSet(f, Burned)
            /\ SumFunctionOnSet(h, Burned \cup {o}) = SumFunctionOnSet(h, Burned)
        BY <4>4, <4>5, <4>6
      <4>8. /\ SumFunctionOnSet(TokensOf', Burned \cup {o}) = SumFunctionOnSet(TokensOf', Burned)
            /\ SumFunctionOnSet(CostOf', Burned \cup {o}) = SumFunctionOnSet(CostOf', Burned)
        BY <4>7 DEF f, h
      <4> QED BY <3>2, <3>3, <3>4, <3>7, <4>1, <4>8
    <3> QED BY <3>8, <3>9
  <2> QED BY <1>g, <1>m, <2>3, <2>4, <2>5, <2>a DEF MonthInv
<1>1. CASE UNCHANGED meterVars
  BY <1>1 DEF MonthInv, meterVars, Opened, Burned, Running, UsedTokens, UsedCost, TokensOf, CostOf, Priced
<1>2. CASE TurnPeak
  BY <1>2 DEF TurnPeak, MonthInv, Opened, Burned, Running, UsedTokens, UsedCost, TokensOf, CostOf, Priced
<1>k. ASSUME NEW o \in MeterOps, Running(o)
      PROVE  meterOp[o] \in MeterCalls /\ traces[o] \in MeterRows /\ traces = [traces EXCEPT ![o] = traces[o]]
             /\ Priced(meterOp[o], traces[o])
  BY <1>k, <1>m, <1>s
<1>3. ASSUME NEW o \in MeterOps, OpenTrace(o) PROVE MonthInv'
  <2> DEFINE row == [status |-> "RUNNING", tokens |-> 0, cost |-> 0, spans |-> 0, cached |-> FALSE]
             op == [pc |-> "ask", model |-> CheapModel, tokens |-> 0, calls |-> 0, models |-> {}, cached |-> FALSE, ok |-> TRUE]
  <2>1. row \in MeterRows /\ op \in MeterCalls /\ Priced(op, row) /\ op.pc # "again"
    BY DEF MeterRows, MeterCalls, Priced, Booking
  <2>2. /\ meterOp' = [meterOp EXCEPT ![o] = op] /\ traces' = [traces EXCEPT ![o] = row]
        /\ traces[o] = NoRow /\ UNCHANGED <<quotaUsage, meterFaults>>
    BY <1>3 DEF OpenTrace
  <2> HIDE DEF row, op
  <2> QED BY <1>g, <2>1, <2>2
(* A request that goes on without writing its row.                         *)
<1>n. ASSUME NEW o \in MeterOps, Running(o), NEW op \in MeterCalls, meterOp' = [meterOp EXCEPT ![o] = op], op.pc \notin Booking,
             UNCHANGED <<quotaUsage, traces>>, meterFaults' = 0 => meterFaults = 0
      PROVE  MonthInv'
  <2>1. Priced(op, traces[o]) /\ op.pc # "again"
    BY <1>n DEF Priced, Booking
  <2> QED BY <1>g, <1>k, <1>n, <2>1
<1>4. ASSUME NEW o \in MeterOps, FromCache(o) PROVE MonthInv'
  <2> DEFINE op == [meterOp[o] EXCEPT !.pc = "finish", !.cached = TRUE, !.tokens = 1]
  <2>1. Running(o) /\ meterOp' = [meterOp EXCEPT ![o] = op] /\ UNCHANGED <<quotaUsage, traces, meterFaults>>
    BY <1>4, <1>s DEF FromCache, Running
  <2>2. op \in MeterCalls /\ op.pc \notin Booking
    BY <1>k, <2>1 DEF MeterCalls, Booking
  <2> HIDE DEF op
  <2> QED BY <1>n, <2>1, <2>2
<1>5. ASSUME NEW o \in MeterOps, AssertQuota(o) PROVE MonthInv'
  <2> DEFINE place == IF QuotaLeft THEN "call" ELSE "finish"
             op == [meterOp[o] EXCEPT !.pc = place, !.ok = QuotaLeft]
  <2>1. Running(o) /\ meterOp' = [meterOp EXCEPT ![o] = op] /\ UNCHANGED <<quotaUsage, traces, meterFaults>>
    BY <1>5, <1>s DEF AssertQuota, Running
  <2>p. place \in {"call", "finish"} /\ QuotaLeft \in BOOLEAN
    BY DEF QuotaLeft
  <2> HIDE DEF place
  <2>2. op \in MeterCalls /\ op.pc \notin Booking
    BY <1>k, <2>1, <2>p DEF MeterCalls, Booking
  <2> HIDE DEF op
  <2> QED BY <1>n, <2>1, <2>2
<1>6. ASSUME NEW o \in MeterOps, CallModel(o) PROVE MonthInv'
  <2>1. Running(o) /\ UNCHANGED quotaUsage
    BY <1>6 DEF CallModel, Running
  <2>2. PICK model \in ModelNames \cup {CheapModel}, named \in BOOLEAN :
          /\ meterOp' = [meterOp EXCEPT ![o] =
               [pc |-> "call", model |-> IF named THEN model ELSE meterOp[o].model, tokens |-> meterOp[o].tokens + 1, calls |-> meterOp[o].calls + 1,
                models |-> meterOp[o].models \cup {model}, cached |-> meterOp[o].cached, ok |-> meterOp[o].ok]]
          /\ \/ /\ traces' = [traces EXCEPT ![o].spans = @ + CalcCost(model, 1)]
                /\ UNCHANGED meterFaults
             \/ /\ meterFaults < MeterFaultMax /\ meterFaults' = meterFaults + 1
                /\ UNCHANGED traces
    BY <1>6 DEF CallModel
  <2> DEFINE op == [pc |-> "call", model |-> IF named THEN model ELSE meterOp[o].model, tokens |-> meterOp[o].tokens + 1, calls |-> meterOp[o].calls + 1,
                    models |-> meterOp[o].models \cup {model}, cached |-> meterOp[o].cached, ok |-> meterOp[o].ok]
  <2>3. op \in MeterCalls /\ op.pc \notin Booking
    BY <1>k, <2>1 DEF MeterCalls, Booking
  <2>4. meterOp' = [meterOp EXCEPT ![o] = op]
    BY <2>2
  <2> HIDE DEF op
  <2>5. CASE traces' = [traces EXCEPT ![o].spans = @ + CalcCost(model, 1)] /\ UNCHANGED meterFaults
    <3> DEFINE new == [traces[o] EXCEPT !.spans = traces[o].spans + CalcCost(model, 1)]
    <3>1. traces' = [traces EXCEPT ![o] = new]
      BY <1>s, <2>5
    <3>2. CalcCost(model, 1) \in Nat /\ traces[o].spans \in Nat
      BY <1>k, <1>s, <2>1, PricesAdd DEF MeterRows
    <3>3. new \in MeterRows
      BY <1>k, <2>1, <3>2 DEF MeterRows
    <3> HIDE DEF new
    <3>4. Priced(op, new) /\ op.pc # "again"
      BY <2>3 DEF Priced, Booking
    <3> QED BY <1>g, <2>1, <2>3, <2>4, <2>5, <3>1, <3>3, <3>4
  <2>6. CASE meterFaults' = meterFaults + 1 /\ UNCHANGED traces
    <3>1. meterFaults' # 0
      BY <1>s, <2>6
    <3> QED BY <1>n, <2>1, <2>3, <2>4, <2>6, <3>1
  <2> QED BY <2>2, <2>5, <2>6
<1>7. ASSUME NEW o \in MeterOps, CallsEnd(o) PROVE MonthInv'
  <2>1. Running(o) /\ UNCHANGED <<quotaUsage, traces, meterFaults>>
    BY <1>7 DEF CallsEnd, Running
  <2>2. PICK ok \in BOOLEAN : meterOp' = [meterOp EXCEPT ![o] = [meterOp[o] EXCEPT !.pc = "finish", !.ok = ok]]
    BY <1>7, <1>s DEF CallsEnd
  <2> DEFINE op == [meterOp[o] EXCEPT !.pc = "finish", !.ok = ok]
  <2>3. op \in MeterCalls /\ op.pc \notin Booking /\ meterOp' = [meterOp EXCEPT ![o] = op]
    BY <1>k, <2>1, <2>2 DEF MeterCalls, Booking
  <2> HIDE DEF op
  <2> QED BY <1>n, <2>1, <2>3
<1>8. ASSUME NEW o \in MeterOps, FinishTrace(o) PROVE MonthInv'
  <2> DEFINE op == meterOp[o]
             cost == CalcCost(op.model, Charged(op))
             row == [status |-> IF op.ok THEN "OK" ELSE "ERROR", tokens |-> op.tokens, cost |-> cost,
                     spans |-> traces[o].spans, cached |-> op.cached]
             to == IF Charged(op) > 0 THEN [op EXCEPT !.pc = "record"] ELSE MeterIdle
  <2>1. /\ Running(o) /\ UNCHANGED <<quotaUsage, meterFaults>> /\ traces' = [traces EXCEPT ![o] = row]
        /\ op.pc = "finish"
    BY <1>8 DEF FinishTrace, Running
  <2>2. meterOp' = [meterOp EXCEPT ![o] = to]
    BY <1>8, <1>s DEF FinishTrace, MeterGo, MeterEnd
  <2>3. op \in MeterCalls /\ traces[o] \in MeterRows
    BY <1>k, <2>1
  <2>4. /\ op.tokens \in Nat /\ op.cached \in BOOLEAN /\ op.ok \in BOOLEAN /\ traces[o].spans \in Nat
        /\ Charged(op) \in Nat
    BY <2>3 DEF MeterCalls, MeterRows, Charged
  <2>5. cost \in Nat /\ CalcCost(op.model, 0) = 0
    BY <1>s, <2>4, PricesAdd
  <2>6. Charged(op) = 0 => cost = 0
    BY <2>5
  <2>7. /\ row.status # "RUNNING" /\ row.cached = op.cached /\ row.tokens = op.tokens
        /\ row.cost = cost
    OBVIOUS
  <2> HIDE DEF cost
  <2>8. row \in MeterRows
    BY <2>4, <2>5 DEF MeterRows
  <2> HIDE DEF row
  <2>9. CASE Charged(op) > 0
    <3>1. to \in MeterCalls /\ to.pc = "record" /\ to.tokens = op.tokens /\ to.cached = op.cached
      BY <2>3, <2>9 DEF MeterCalls, Booking
    <3>2. Priced(to, row)
      BY <2>4, <2>7, <2>9, <3>1 DEF Priced, Charged
    <3> QED BY <1>g, <2>1, <2>2, <2>8, <3>1, <3>2
  <2>10. CASE ~(Charged(op) > 0)
    <3>1. to = MeterIdle /\ Charged(op) = 0
      BY <2>10, <2>4
    <3>2. row.cached \/ (row.tokens = 0 /\ row.cost = 0)
      BY <2>4, <2>6, <2>7, <3>1 DEF Charged
    <3> QED BY <1>g, <1>i, <2>1, <2>2, <2>7, <2>8, <3>1, <3>2
  <2> QED BY <2>10, <2>9
(* One that counts books, adding to the row or as a new one.               *)
<1>b. ASSUME NEW o \in MeterOps, meterOp[o].pc \in Booking, MeterEnd(o), UNCHANGED <<traces, meterFaults>>,
             quotaUsage' = IF quotaUsage = NoRow THEN AddUsageAnew(Charged(meterOp[o]), traces[o].cost)
                           ELSE AddUsage(Charged(meterOp[o]), traces[o].cost)
      PROVE  MonthInv'
  <2> DEFINE op == meterOp[o]
             row == traces[o]
  <2>1. /\ Running(o) /\ UNCHANGED <<traces, meterFaults>> /\ op.pc \in Booking
        /\ quotaUsage' = IF quotaUsage = NoRow THEN AddUsageAnew(Charged(op), row.cost) ELSE AddUsage(Charged(op), row.cost)
        /\ meterOp' = [meterOp EXCEPT ![o] = MeterIdle]
    BY <1>b DEF Running, MeterEnd, Booking
  <2>2. op \in MeterCalls /\ row \in MeterRows /\ Priced(op, row)
    BY <1>k, <2>1
  <2>3. /\ Charged(op) = row.tokens /\ ~row.cached /\ row.status # "RUNNING" /\ row.tokens \in Nat /\ row.cost \in Nat
    BY <2>1, <2>2 DEF Priced, Charged, MeterRows
  <2>4. /\ quotaUsage' \in UsageRows /\ UsedTokens \in Nat /\ UsedCost \in Nat
        /\ quotaUsage'.tokens = UsedTokens + row.tokens /\ quotaUsage'.cost = UsedCost + row.cost
    <3>1. CASE quotaUsage = NoRow
      BY <2>1, <2>3, <3>1 DEF AddUsageAnew, UsageRows, UsedTokens, UsedCost
    <3>2. CASE quotaUsage # NoRow
      <4>1. quotaUsage.tokens \in Nat /\ quotaUsage.cost \in Nat
        BY <1>m, <3>2 DEF UsageRows
      <4> QED BY <2>1, <2>3, <3>2, <4>1 DEF AddUsage, UsageRows, UsedTokens, UsedCost
    <3> QED BY <3>1, <3>2
  <2>5. UsedTokens' = UsedTokens + row.tokens /\ UsedCost' = UsedCost + row.cost
    BY <2>4 DEF UsedTokens, UsedCost
  <2>6. \A p \in MeterOps : meterOp'[p] = (IF p = o THEN MeterIdle ELSE meterOp[p])
    BY <1>s, <2>1
  <2>7. Opened' = Opened /\ o \in Opened /\ ~Running(o)'
    BY <1>i, <2>1, <2>2, <2>6 DEF Opened, Running
  <2>8. Burned' = Burned \cup {o} /\ o \notin Burned
    BY <2>1, <2>3, <2>6, <2>7 DEF Burned, Opened, Running
  <2>9. ASSUME NEW p \in MeterOps, Running(p)' PROVE Priced(meterOp'[p], traces'[p])
    BY <1>i, <1>m, <2>1, <2>6, <2>9 DEF Running
  <2>a. quotaUsage' # NoRow
    BY <2>4
  <2>10. ASSUME meterFaults' = 0
         PROVE  /\ \A p \in Opened' : ~Running(p)' => traces'[p].status # "RUNNING"
                /\ UsedTokens' = SumFunctionOnSet(TokensOf', Burned')
                /\ UsedCost' = SumFunctionOnSet(CostOf', Burned')
    <3>1. /\ UsedTokens = SumFunctionOnSet(TokensOf, Burned) /\ UsedCost = SumFunctionOnSet(CostOf, Burned)
          /\ \A p \in Opened : ~Running(p) => traces[p].status # "RUNNING"
      BY <2>1, <2>10 DEF MonthInv
    <3>2. \A p \in Opened' : ~Running(p)' => traces'[p].status # "RUNNING"
      BY <2>1, <2>3, <2>6, <2>7, <3>1 DEF Running, Opened
    <3>3. \A p \in Burned \cup {o} : TokensOf[p] \in Int /\ CostOf[p] \in Int
      <4>1. \A p \in Burned : TokensOf[p] \in Int /\ CostOf[p] \in Int
        BY <1>s, BurnedAre
      <4>2. TokensOf[o] \in Int /\ CostOf[o] \in Int
        BY <2>3 DEF TokensOf, CostOf
      <4> QED BY <4>1, <4>2
    <3>4. /\ SumFunctionOnSet(TokensOf, Burned \cup {o}) = TokensOf[o] + SumFunctionOnSet(TokensOf, Burned)
          /\ SumFunctionOnSet(CostOf, Burned \cup {o}) = CostOf[o] + SumFunctionOnSet(CostOf, Burned)
      BY <1>m, <2>8, <3>3, SumAdds
    <3>5. TokensOf[o] = row.tokens /\ CostOf[o] = row.cost /\ TokensOf' = TokensOf /\ CostOf' = CostOf
      BY <2>1 DEF TokensOf, CostOf
    <3> QED BY <2>3, <2>4, <2>5, <2>8, <3>1, <3>2, <3>4, <3>5
  <2> QED BY <1>m, <2>4, <2>7, <2>9, <2>10, <2>a DEF MonthInv
(* One that counts goes to another place, or ends with nothing booked.     *)
<1>p. ASSUME NEW o \in MeterOps, meterOp[o].pc \in Booking, NEW place \in Booking, MeterGo(o, place),
             UNCHANGED <<quotaUsage, traces, meterFaults>>, place = "again" => quotaUsage # NoRow
      PROVE  MonthInv'
  <2> DEFINE op == [meterOp[o] EXCEPT !.pc = place]
  <2>1. Running(o)
    BY <1>p DEF Running, Booking
  <2>2. meterOp' = [meterOp EXCEPT ![o] = op]
    BY <1>p, <1>s DEF MeterGo
  <2>3. op \in MeterCalls /\ op.pc = place /\ op.tokens = meterOp[o].tokens /\ op.cached = meterOp[o].cached
    BY <1>k, <1>p, <2>1 DEF MeterCalls
  <2> HIDE DEF op
  <2>4. Priced(op, traces[o])
    BY <1>k, <1>p, <2>1, <2>3 DEF Priced
  <2> QED BY <1>g, <1>k, <1>p, <2>1, <2>2, <2>3, <2>4
<1>9. ASSUME NEW o \in MeterOps, RecordUsage(o) PROVE MonthInv'
  <2>1. meterOp[o].pc \in Booking /\ UNCHANGED <<traces, meterFaults>>
    BY <1>9 DEF RecordUsage, Booking
  <2>2. CASE quotaUsage = NoRow
    <3>1. MeterGo(o, "insert") /\ UNCHANGED quotaUsage
      BY <1>9, <2>2 DEF RecordUsage
    <3> QED BY <1>p, <2>1, <3>1 DEF Booking
  <2>3. CASE quotaUsage # NoRow
    <3>1. quotaUsage' = AddUsage(Charged(meterOp[o]), traces[o].cost) /\ MeterEnd(o)
      BY <1>9, <2>3 DEF RecordUsage
    <3> QED BY <1>b, <2>1, <2>3, <3>1
  <2> QED BY <2>2, <2>3
<1>11. ASSUME NEW o \in MeterOps, InsertUsage(o) PROVE MonthInv'
  <2>1. meterOp[o].pc \in Booking /\ UNCHANGED <<traces, meterFaults>>
    BY <1>11 DEF InsertUsage, Booking
  <2>2. CASE quotaUsage # NoRow
    <3>1. MeterGo(o, "again") /\ UNCHANGED quotaUsage
      BY <1>11, <2>2 DEF InsertUsage
    <3> QED BY <1>p, <2>1, <2>2, <3>1 DEF Booking
  <2>3. CASE quotaUsage = NoRow
    <3>1. quotaUsage' = AddUsageAnew(Charged(meterOp[o]), traces[o].cost) /\ MeterEnd(o)
      BY <1>11, <2>3 DEF InsertUsage
    <3> QED BY <1>b, <2>1, <2>3, <3>1
  <2> QED BY <2>2, <2>3
<1>12. ASSUME NEW o \in MeterOps, AddAgain(o) PROVE MonthInv'
  <2>1. meterOp[o].pc = "again" /\ MeterEnd(o) /\ UNCHANGED <<traces, meterFaults>> /\ Running(o) /\ meterOp[o].pc \in Booking
    BY <1>12 DEF AddAgain, Booking, Running
  <2>2. CASE quotaUsage = NoRow
    <3>1. meterFaults' # 0
      BY <2>1, <2>2 DEF MonthInv
    <3>2. UNCHANGED quotaUsage /\ meterOp' = [meterOp EXCEPT ![o] = MeterIdle] /\ MeterIdle \notin MeterCalls /\ MeterIdle.pc # "again"
      BY <1>12, <1>i, <2>1, <2>2 DEF AddAgain, MeterEnd
    <3> QED BY <1>g, <1>k, <2>1, <3>1, <3>2
  <2>3. CASE quotaUsage # NoRow
    <3>1. quotaUsage' = AddUsage(Charged(meterOp[o]), traces[o].cost)
      BY <1>12, <2>3 DEF AddAgain
    <3> QED BY <1>b, <2>1, <2>3, <3>1
  <2> QED BY <2>2, <2>3
<1>13. ASSUME NEW o \in MeterOps, UpsertFails(o) PROVE MonthInv'
  <2> DEFINE op == [meterOp[o] EXCEPT !.pc = "again"]
             row == traces[o]
  <2>1. meterOp[o].pc \in Booking /\ UNCHANGED traces /\ meterFaults' = meterFaults + 1 /\ MeterGo(o, "again")
    BY <1>13 DEF UpsertFails, Booking
  <2>r. Running(o)
    BY <2>1 DEF Running, Booking
  <2>f. meterFaults' # 0
    BY <1>s, <2>1
  <2>2. meterOp[o] \in MeterCalls /\ row \in MeterRows /\ Priced(meterOp[o], row)
    BY <1>k, <2>r
  <2>3. meterOp' = [meterOp EXCEPT ![o] = op]
    BY <1>s, <2>1 DEF MeterGo
  <2>4. op \in MeterCalls /\ op.tokens = meterOp[o].tokens /\ op.cached = meterOp[o].cached
    BY <2>2 DEF MeterCalls, Booking
  <2> HIDE DEF op
  <2>5. Priced(op, row)
    BY <2>1, <2>2, <2>4 DEF Priced
  <2>6. row.cost \in Nat /\ Charged(meterOp[o]) \in Nat
    BY <2>2 DEF MeterRows, MeterCalls, Charged
  <2>7. quotaUsage' \in {NoRow} \cup UsageRows
    <3>1. CASE quotaUsage' = quotaUsage
      BY <1>m, <3>1
    <3>2. CASE quotaUsage = NoRow /\ quotaUsage' = AddUsageAnew(Charged(meterOp[o]), traces[o].cost)
      BY <2>6, <3>2 DEF AddUsageAnew, UsageRows
    <3>3. CASE quotaUsage # NoRow /\ quotaUsage' = AddUsage(Charged(meterOp[o]), traces[o].cost)
      <4>1. quotaUsage.tokens \in Nat /\ quotaUsage.cost \in Nat
        BY <1>m, <3>3 DEF UsageRows
      <4> QED BY <2>6, <3>3, <4>1 DEF AddUsage, UsageRows
    <3> QED BY <1>13, <3>1, <3>2, <3>3 DEF UpsertFails
  <2>8. Opened' = Opened
    BY <2>1 DEF Opened
  <2>9. ASSUME NEW p \in MeterOps, Running(p)' PROVE Priced(meterOp'[p], traces'[p])
    <3>1. meterOp'[p] = IF p = o THEN op ELSE meterOp[p]
      BY <1>s, <2>3
    <3> QED BY <1>k, <2>1, <2>5, <2>9, <3>1 DEF Running
  <2> QED BY <1>m, <2>7, <2>8, <2>9, <2>f DEF MonthInv
<1>10. ASSUME NEW o \in MeterOps, MeterFails(o) PROVE MonthInv'
  <2>1. /\ Running(o) /\ UNCHANGED <<quotaUsage, traces>> /\ meterFaults' = meterFaults + 1 /\ meterFaults' # 0
    BY <1>10, <1>s DEF MeterFails
  <2>2. CASE meterOp[o].pc = "finish" /\ meterOp[o].ok
    <3> DEFINE op == [meterOp[o] EXCEPT !.ok = FALSE]
    <3>1. meterOp' = [meterOp EXCEPT ![o] = op]
      BY <1>10, <1>s, <2>2 DEF MeterFails
    <3>2. op \in MeterCalls /\ op.pc \notin Booking
      BY <1>k, <2>1, <2>2 DEF MeterCalls, Booking
    <3> HIDE DEF op
    <3> QED BY <1>n, <2>1, <3>1, <3>2
  <2>3. CASE ~(meterOp[o].pc = "finish" /\ meterOp[o].ok)
    <3>1. meterOp' = [meterOp EXCEPT ![o] = MeterIdle] /\ MeterIdle \notin MeterCalls /\ MeterIdle.pc # "again"
      BY <1>10, <1>i, <2>3 DEF MeterFails, MeterEnd
    <3> QED BY <1>g, <1>k, <2>1, <3>1
  <2> QED BY <2>2, <2>3
<1> QED BY <1>1, <1>2, <1>3, <1>4, <1>5, <1>6, <1>7, <1>8, <1>9, <1>10, <1>11, <1>12, <1>13 DEF MeterNext

LEMMA MonthAgrees == ASSUME MeterInv, MonthInv PROVE MonthMatchesTraces
<1> SUFFICES ASSUME meterFaults = 0, Closed = Opened
             PROVE  LET burned == {o \in Opened : ~traces[o].cached} IN
                    /\ \A o \in Opened : traces[o].status # "RUNNING"
                    /\ UsedTokens = SumFunction([o \in burned |-> traces[o].tokens])
                    /\ (quotaUsage # NoRow) => quotaUsage.cost = SumFunction([o \in burned |-> traces[o].cost])
  BY DEF MonthMatchesTraces
<1> DEFINE burned == {o \in Opened : ~traces[o].cached}
           f == [o \in burned |-> traces[o].tokens]
           h == [o \in burned |-> traces[o].cost]
<1>1. \A o \in Opened : ~Running(o)
  BY DEF Closed
<1>2. burned = Burned
  BY <1>1 DEF Burned
<1>3. IsFiniteSet(Burned)
  <2>1. Burned \subseteq Opened
    BY DEF Burned
  <2> QED BY <2>1, FS_Subset DEF MonthInv
<1>4. \A o \in Burned : /\ TokensOf[o] \in Int /\ TokensOf[o] = f[o]
                        /\ CostOf[o] \in Int /\ CostOf[o] = h[o]
  BY <1>2, BurnedAre DEF MeterInv
<1>5. SumFunction(f) = SumFunctionOnSet(f, Burned) /\ SumFunction(h) = SumFunctionOnSet(h, Burned)
  BY <1>2 DEF SumFunction
<1> HIDE DEF f, h
<1>6. SumFunctionOnSet(TokensOf, Burned) = SumFunctionOnSet(f, Burned) /\ SumFunctionOnSet(CostOf, Burned) = SumFunctionOnSet(h, Burned)
  BY <1>3, <1>4, SumSame
<1>7. /\ \A o \in Opened : traces[o].status # "RUNNING"
      /\ UsedTokens = SumFunctionOnSet(TokensOf, Burned) /\ UsedCost = SumFunctionOnSet(CostOf, Burned)
  BY <1>1 DEF MonthInv
<1>8. UsedTokens = SumFunction(f) /\ (quotaUsage # NoRow => quotaUsage.cost = SumFunction(h))
  BY <1>5, <1>6, <1>7 DEF UsedCost
<1> QED BY <1>7, <1>8 DEF f, h

--------------------------------------------------------------------------------
(* A run counts what it stored and shows full marks for nothing less.      *)
DraftFits(d) ==
  /\ d.result.tp \in Nat /\ d.result.fp \in Nat /\ d.result.fn \in Nat
  /\ d.result.passed => d.result.fp = 0 /\ d.result.fn = 0
  /\ d.group = "RISK_DETECT" /\ d.result.fp = 0 /\ d.result.fn = 0 => d.result.passed

RunInv ==
  /\ IsFiniteSet(drafts) /\ \A d \in drafts : DraftFits(d)
  /\ evalRun.status = "DONE" => /\ drafts = results /\ evalRun.caseCount = Cardinality(results)
                                /\ evalRun.passCount = Cardinality(Passed(results))

LEMMA RunInitially == ASSUME EvalInit PROVE RunInv
BY FS_EmptySet DEF EvalInit, RunInv, EvalIdle

(* What a case may be run with.                                            *)
CaseRuns(c) ==
  c.group \in {"RISK_DETECT", "RAG_RECALL", "FAITHFULNESS"} /\ IsFiniteSet(c.wants) /\ IsFiniteSet(Fires(c.task))

LEMMA ResultsFit ==
  ASSUME NEW c, CaseRuns(c), NEW r \in GroupResults(c)
  PROVE  /\ r.tp \in Nat /\ r.fp \in Nat /\ r.fn \in Nat /\ r.passed \in BOOLEAN
         /\ r.passed => r.fp = 0 /\ r.fn = 0
         /\ c.group = "RISK_DETECT" /\ r.fp = 0 /\ r.fn = 0 => r.passed
<1> USE DEF CaseRuns
<1>1. CASE c.group = "RISK_DETECT"
  <2> DEFINE fp == Fires(c.task) \ c.wants
             fn == c.wants \ Fires(c.task)
             tp == c.wants \cap Fires(c.task)
  <2>1. r = [passed |-> fp = {} /\ fn = {}, tp |-> Cardinality(tp), fp |-> Cardinality(fp), fn |-> Cardinality(fn)]
    BY <1>1 DEF GroupResults, RiskResult
  <2>2. IsFiniteSet(fp) /\ IsFiniteSet(fn) /\ IsFiniteSet(tp)
    BY FS_Subset
  <2> HIDE DEF fp, fn, tp
  <2>3. /\ Cardinality(fp) \in Nat /\ Cardinality(fn) \in Nat /\ Cardinality(tp) \in Nat
        /\ (Cardinality(fp) = 0 <=> fp = {}) /\ (Cardinality(fn) = 0 <=> fn = {})
    BY <2>2, FS_CardinalityType, FS_EmptySet
  <2> QED BY <2>1, <2>3
<1>2. CASE c.group = "RAG_RECALL"
  <2> DEFINE matched == c.wants \cap Fires(c.task)
  <2>1. r = [passed |-> matched = c.wants, tp |-> Cardinality(matched), fp |-> 0,
             fn |-> Cardinality(c.wants) - Cardinality(matched)]
    BY <1>2 DEF GroupResults, RagResult
  <2>2. matched \subseteq c.wants /\ IsFiniteSet(matched)
    BY FS_Subset
  <2>3. /\ Cardinality(matched) \in Nat /\ Cardinality(c.wants) \in Nat /\ Cardinality(matched) <= Cardinality(c.wants)
    BY <2>2, FS_CardinalityType, FS_Subset
  <2> HIDE DEF matched
  <2>4. r.fn \in Nat /\ r.tp \in Nat /\ r.fp = 0 /\ r.passed \in BOOLEAN
    <3> DEFINE n == Cardinality(c.wants) - Cardinality(matched)
               b == matched = c.wants
    <3>1. n \in Nat /\ b \in BOOLEAN
      BY <2>3
    <3>2. r = [passed |-> b, tp |-> Cardinality(matched), fp |-> 0, fn |-> n]
      BY <2>1
    <3> HIDE DEF n, b
    <3> QED BY <2>3, <3>1, <3>2
  <2>5. ASSUME r.passed PROVE r.fn = 0
    <3>1. matched = c.wants
      BY <2>1, <2>5
    <3>2. r.fn = Cardinality(c.wants) - Cardinality(matched)
      BY <2>1
    <3> QED BY <2>3, <3>1, <3>2
  <2> QED BY <1>2, <2>4, <2>5
<1>3. CASE c.group = "FAITHFULNESS"
  <2>1. r \in FaithResults(c)
    BY <1>3 DEF GroupResults
  <2>2. PICK b \in BOOLEAN : r = [passed |-> b, tp |-> 0, fp |-> 0, fn |-> 0]
    BY <2>1 DEF FaithResults
  <2> QED BY <1>3, <2>2
<1> QED BY <1>1, <1>2, <1>3

(* Something is chosen whenever a case has a result.                       *)
LEMMA JudgedIsResult ==
  ASSUME NEW c, CaseRuns(c), GroupResults(c) # {}, NEW judged \in BOOLEAN
  PROVE  (CHOOSE r \in GroupResults(c) : c.group = "FAITHFULNESS" => r.passed = judged) \in GroupResults(c)
<1>1. \E r \in GroupResults(c) : c.group = "FAITHFULNESS" => r.passed = judged
  <2>1. CASE c.group = "FAITHFULNESS"
    <3> DEFINE r == [passed |-> judged, tp |-> 0, fp |-> 0, fn |-> 0]
    <3>1. GroupResults(c) = IF WithLlm THEN FaithResults(c) ELSE {}
      BY <2>1 DEF GroupResults
    <3>2. r \in FaithResults(c) /\ r.passed = judged
      BY DEF FaithResults
    <3> QED BY <3>1, <3>2
  <2> QED BY <2>1
<1> QED BY <1>1

LEMMA CasesRun ==
  ASSUME EvalInv, NEW withFeedback \in BOOLEAN
  PROVE  IsFiniteSet(EvalCases(withFeedback)) /\ \A c \in EvalCases(withFeedback) : CaseRuns(c)
<1> USE EvalAssumption
<1> DEFINE based(b) == [group |-> b.group, task |-> b.task, wants |-> b.wants, key |-> <<b.group, b.task>>]
           feeding(k) == [group |-> "RISK_DETECT", task |-> k[2].task, wants |-> cases[k].wants, key |-> k]
           base == {based(b) : b \in Baseline}
           keys == {j \in CaseKeys : IF cases[j] = NoCase \/ j[1] # "risk" THEN FALSE ELSE cases[j].active}
           fed == {feeding(k) : k \in keys}
           risky == {<<"risk", f>> : f \in Findings}
           codes == {f.code : f \in Findings}
<1>1. EvalCases(withFeedback) = base \cup (IF withFeedback THEN fed ELSE {})
  BY DEF EvalCases
<1>2. IsFiniteSet(base)
  <2> DEFINE f == [b \in Baseline |-> based(b)]
  <2>1. \A t \in base : \E b \in Baseline : t = f[b]
    OBVIOUS
  <2> HIDE DEF f, base
  <2> QED BY <2>1, ImageIsFinite
<1>3. IsFiniteSet(risky)
  <2> DEFINE f == [b \in Findings |-> <<"risk", b>>]
  <2>1. \A t \in risky : \E b \in Findings : t = f[b]
    OBVIOUS
  <2> HIDE DEF f, risky
  <2> QED BY <2>1, ImageIsFinite
<1>4. IsFiniteSet(codes)
  <2> DEFINE f == [b \in Findings |-> b.code]
  <2>1. \A t \in codes : \E b \in Findings : t = f[b]
    OBVIOUS
  <2> HIDE DEF f, codes
  <2> QED BY <2>1, ImageIsFinite
<1>5. keys \subseteq risky
  BY DEF CaseKeys
<1>6. IsFiniteSet(fed)
  <2>1. IsFiniteSet(keys)
    BY <1>3, <1>5, FS_Subset
  <2> DEFINE f == [k \in keys |-> feeding(k)]
  <2>2. \A t \in fed : \E k \in keys : t = f[k]
    OBVIOUS
  <2> HIDE DEF f, fed, keys
  <2> QED BY <2>1, <2>2, ImageIsFinite
<1>7. \A c \in base : CaseRuns(c)
  BY DEF CaseRuns
<1>8. ASSUME NEW c \in fed PROVE CaseRuns(c)
  <2>1. PICK k \in keys : c = feeding(k)
    BY <1>8
  <2>2. PICK f \in Findings : k = <<"risk", f>>
    BY <1>5
  <2>3. k \in CaseKeys /\ cases[k] # NoCase
    OBVIOUS
  <2>4. cases[k] \in CaseRows
    BY <2>3 DEF EvalInv
  <2>5. cases[k].wants \subseteq Codes \cup codes
    BY <2>4 DEF CaseRows
  <2>6. IsFiniteSet(cases[k].wants)
    BY <1>4, <2>5, FS_Union, FS_Subset
  <2>7. c.task = f.task /\ c.wants = cases[k].wants /\ c.group = "RISK_DETECT"
    BY <2>1, <2>2
  <2>8. IsFiniteSet(Fires(c.task))
    BY <2>7
  <2> QED BY <2>6, <2>7, <2>8 DEF CaseRuns
<1> HIDE DEF base, fed
<1>9. IsFiniteSet(EvalCases(withFeedback))
  BY <1>1, <1>2, <1>6, FS_Union, FS_EmptySet
<1> QED BY <1>1, <1>7, <1>8, <1>9

LEMMA RunPreserved ==
  ASSUME EvalInv, RunInv, [EvalNext]_evalVars PROVE RunInv'
<1> USE DEF RunInv, DraftFits, Passed
<1>1. CASE UNCHANGED evalVars
  BY <1>1 DEF evalVars
<1>2. ASSUME NEW f \in Findings, NEW status \in {"OPEN", "IGNORED", "ACCEPTED"}, Decide(f, status) PROVE RunInv'
  BY <1>2 DEF Decide
<1>3. CASE StartSync
  BY <1>3 DEF StartSync
<1>4. CASE SyncStops
  BY <1>4 DEF SyncStops
<1>5. ASSUME NEW w \in syncing, WriteCase(w) PROVE RunInv'
  BY <1>5 DEF WriteCase
<1>6. ASSUME NEW withFeedback \in BOOLEAN, StartEval(withFeedback) PROVE RunInv'
  <2> DEFINE all == EvalCases(withFeedback)
             some == {d \in all : GroupResults(d) # {}}
  <2>1. PICK judged \in BOOLEAN :
          drafts' = {[case |-> c.key, group |-> c.group, result |-> CHOOSE r \in GroupResults(c) :
                        c.group = "FAITHFULNESS" => r.passed = judged] : c \in some}
    BY <1>6 DEF StartEval
  <2> DEFINE chosen(c) == CHOOSE r \in GroupResults(c) : c.group = "FAITHFULNESS" => r.passed = judged
             draft(c) == [case |-> c.key, group |-> c.group, result |-> chosen(c)]
             f == [c \in some |-> draft(c)]
  <2>2. IsFiniteSet(some) /\ \A c \in some : CaseRuns(c) /\ GroupResults(c) # {}
    BY CasesRun, FS_Subset
  <2>3. \A t \in drafts' : \E c \in some : t = draft(c)
    BY <2>1
  <2>4. \A t \in drafts' : \E c \in some : t = f[c]
    BY <2>3
  <2>5. IsFiniteSet(drafts')
    <3> HIDE DEF f, some
    <3> QED BY <2>2, <2>4, ImageIsFinite
  <2>6. \A d \in drafts' : DraftFits(d)
    <3> SUFFICES ASSUME NEW d \in drafts' PROVE DraftFits(d)
      OBVIOUS
    <3>1. PICK c \in some : d = draft(c)
      BY <2>3
    <3>2. chosen(c) \in GroupResults(c) /\ CaseRuns(c)
      BY <2>2, JudgedIsResult
    <3>3. d.result = chosen(c) /\ d.group = c.group
      BY <3>1
    <3> HIDE DEF chosen, some
    <3>4. DraftFits(d)
      BY <3>2, <3>3, ResultsFit DEF DraftFits
    <3> QED BY <3>4
  <2>7. evalRun'.status # "DONE"
    BY <1>6 DEF StartEval, EvalIdle
  <2> QED BY <2>5, <2>6, <2>7
<1>7. ASSUME NEW d \in drafts, StoreResult(d) PROVE RunInv'
  BY <1>7 DEF StoreResult
<1>8. CASE FinishEval
  BY <1>8 DEF FinishEval
<1>9. CASE FailEval
  <2>1. evalRun'.status # "DONE"
    BY <1>9 DEF FailEval, EvalInv
  <2> QED BY <1>9, <2>1 DEF FailEval
<1>10. CASE AgainEval
  BY <1>10, FS_EmptySet DEF AgainEval, EvalIdle
<1> QED BY <1>1, <1>2, <1>3, <1>4, <1>5, <1>6, <1>7, <1>8, <1>9, <1>10 DEF EvalNext

(* Per cent of a part in a whole.                                          *)
LEMMA PerCent ==
  ASSUME NEW t \in Nat, NEW x \in Nat, t + x # 0
  PROVE  /\ (100 * t) \div (t + x) \in 0 .. 100
         /\ (100 * t) \div (t + x) = 100 => x = 0
         /\ x = 0 => (100 * t) \div (t + x) = 100
<1> DEFINE n == t + x
           q == (100 * t) \div n
<1>1. n \in Nat /\ n > 0 /\ t <= n /\ (x = 0 <=> t = n)
  OBVIOUS
<1>2. q \in Int /\ n * q <= 100 * t /\ 100 * t < n * (q + 1)
  OBVIOUS
<1> HIDE DEF q, n
<1>3. q >= 0
  <2> SUFFICES ASSUME q <= -1 PROVE FALSE
    BY <1>2
  <2>1. n * (q + 1) <= 0
    BY <1>1, <1>2
  <2>2. n * (q + 1) \in Int
    BY <1>1, <1>2
  <2> QED BY <1>2, <2>1, <2>2
<1>4. q <= 100
  <2> SUFFICES ASSUME q >= 101 PROVE FALSE
    BY <1>2
  <2>1. n * q >= n * 101
    BY <1>1, <1>2
  <2> QED BY <1>1, <1>2, <2>1
<1>5. q = 100 => t = n
  BY <1>1, <1>2
<1>6. t = n => q = 100
  <2> SUFFICES ASSUME t = n, q <= 99 PROVE FALSE
    BY <1>2, <1>4
  <2>1. n * (q + 1) <= n * 100
    BY <1>1, <1>2, <1>3
  <2> QED BY <1>1, <1>2, <2>1
<1> QED BY <1>1, <1>3, <1>4, <1>5, <1>6 DEF q, n

LEMMA FullMarks ==
  ASSUME NEW p \in 0 .. 100, NEW r \in 0 .. 100
  PROVE  /\ p = r /\ p \in {0, 100} => F1(p, r) \in {0, 100}
         /\ F1(p, r) = 100 => p = 100 /\ r = 100
<1>1. p = 0 /\ r = 0 => F1(p, r) = 0
  BY DEF F1
<1>2. p = 100 /\ r = 100 => F1(p, r) = 100
  BY DEF F1
<1>3. ASSUME F1(p, r) = 100 PROVE p = 100 /\ r = 100
  <2> DEFINE n == p + r
             a == 2 * p * r
  <2>1. n # 0 /\ n \in Nat /\ a \in Nat /\ a \div n = 100
    BY <1>3 DEF F1
  <2>2. n * (a \div n) <= a
    BY <2>1
  <2>3. n * 100 <= a
    BY <2>1, <2>2
  <2>4. p * r <= 100 * r /\ p * r <= p * 100
    OBVIOUS
  <2>5. p * r = 100 * r /\ p * r = 100 * p
    BY <2>3, <2>4
  <2>6. p = r /\ p # 0
    BY <2>1, <2>5
  <2> QED BY <2>5, <2>6
<1> QED BY <1>1, <1>2, <1>3

(* What the figures of a run add up.                                       *)
LEMMA TotalsAre ==
  ASSUME RunInv, evalRun.status = "DONE", NEW count \in {"tp", "fp", "fn"}
  PROVE  /\ Total(results, count) \in Nat
         /\ Total(results, count) = 0 =>
              \A d \in results : d.group = "RISK_DETECT" => d.result[count] = 0
         /\ (\A d \in results : d.group = "RISK_DETECT" => d.result[count] = 0) => Total(results, count) = 0
<1> DEFINE S == {e \in results : e.group = "RISK_DETECT"}
           f == [d \in S |-> d.result[count]]
<1>1. IsFiniteSet(S) /\ \A d \in S : d.result[count] \in Nat
  BY FS_Subset DEF RunInv, DraftFits
<1>2. Total(results, count) = SumFunctionOnSet(f, S)
  BY DEF Total, SumFunction
<1>3. \A d \in S : f[d] = d.result[count]
  OBVIOUS
<1>4. \A d \in results : d.group = "RISK_DETECT" <=> d \in S
  OBVIOUS
<1> HIDE DEF f, S
<1>5. SumFunctionOnSet(f, S) \in Nat
  BY <1>1, <1>3, SumIsNat
<1>6. SumFunctionOnSet(f, S) = 0 => \A d \in S : f[d] = 0
  BY <1>1, <1>3, SumOfNone
<1>7. (\A d \in S : f[d] = 0) => SumFunctionOnSet(f, S) = 0
  BY <1>1, SumOfZeros
<1>8. Total(results, count) \in Nat
  BY <1>2, <1>5
<1>9. ASSUME Total(results, count) = 0, NEW d \in results, d.group = "RISK_DETECT" PROVE d.result[count] = 0
  BY <1>2, <1>3, <1>4, <1>6, <1>9
<1>10. ASSUME \A d \in results : d.group = "RISK_DETECT" => d.result[count] = 0 PROVE Total(results, count) = 0
  <2>1. \A d \in S : f[d] = 0
    <3> TAKE d \in S
    <3>1. d \in results /\ d.group = "RISK_DETECT"
      BY DEF S
    <3> QED BY <1>3, <1>10, <3>1
  <2> QED BY <1>2, <1>7, <2>1
<1> QED BY <1>8, <1>9, <1>10

LEMMA RunAgrees == ASSUME RunInv PROVE DoneRunIsWhole
<1> SUFFICES ASSUME evalRun.status = "DONE" PROVE DoneRunIsWhole
  BY DEF DoneRunIsWhole
<1> DEFINE tp == Total(results, "tp")
           fp == Total(results, "fp")
           fn == Total(results, "fn")
           p == Precision(results)
           r == Recall(results)
<1>1. \A d \in results : DraftFits(d)
  BY DEF RunInv
<1>2. /\ tp \in Nat /\ fp \in Nat /\ fn \in Nat
      /\ fp = 0 => \A d \in results : d.group = "RISK_DETECT" => d.result.fp = 0
      /\ fn = 0 => \A d \in results : d.group = "RISK_DETECT" => d.result.fn = 0
      /\ (\A d \in results : d.group = "RISK_DETECT" => d.result.fp = 0) => fp = 0
      /\ (\A d \in results : d.group = "RISK_DETECT" => d.result.fn = 0) => fn = 0
  BY TotalsAre
<1>3. /\ p = IF tp + fp = 0 THEN 0 ELSE (100 * tp) \div (tp + fp)
      /\ r = IF tp + fn = 0 THEN 0 ELSE (100 * tp) \div (tp + fn)
  BY DEF Precision, Recall
<1> HIDE DEF tp, fp, fn, p, r
<1>4. p \in 0 .. 100 /\ r \in 0 .. 100 /\ (p = 100 => fp = 0) /\ (r = 100 => fn = 0)
  <2>1. p \in 0 .. 100 /\ (p = 100 => fp = 0)
    <3>1. CASE tp + fp = 0
      BY <1>3, <3>1
    <3>2. CASE tp + fp # 0
      <4>1. p = (100 * tp) \div (tp + fp)
        BY <1>3, <3>2
      <4> QED BY <1>2, <3>2, <4>1, PerCent
    <3> QED BY <3>1, <3>2
  <2>2. r \in 0 .. 100 /\ (r = 100 => fn = 0)
    <3>1. CASE tp + fn = 0
      BY <1>3, <3>1
    <3>2. CASE tp + fn # 0
      <4>1. r = (100 * tp) \div (tp + fn)
        BY <1>3, <3>2
      <4> QED BY <1>2, <3>2, <4>1, PerCent
    <3> QED BY <3>1, <3>2
  <2> QED BY <2>1, <2>2
<1>5. ASSUME \A d \in results : d.result.passed PROVE F1(p, r) \in {0, 100}
  <2>1. fp = 0 /\ fn = 0
    BY <1>1, <1>2, <1>5 DEF DraftFits
  <2>2. p = r /\ p \in {0, 100}
    BY <1>2, <1>3, <2>1, PerCent
  <2> QED BY <1>4, <2>2, FullMarks
<1>6. ASSUME F1(p, r) = 100 PROVE \A d \in results : d.group = "RISK_DETECT" => d.result.passed
  <2>1. fp = 0 /\ fn = 0
    BY <1>4, <1>6, FullMarks
  <2> QED BY <1>1, <1>2, <2>1 DEF DraftFits
<1>7. /\ evalRun.caseCount = Cardinality(results) /\ evalRun.passCount = Cardinality(Passed(results))
      /\ \A d \in results : d.result.passed => d.result.fn = 0 /\ d.result.fp = 0
  BY <1>1 DEF RunInv, DraftFits
<1> QED BY <1>5, <1>6, <1>7 DEF DoneRunIsWhole, p, r

--------------------------------------------------------------------------------
(* What was given out stays what was paid for.                             *)
Figures(doc) ==
  /\ doc.high + doc.med + doc.low = Len(doc.order)
  /\ \A j \in 1 .. Len(doc.order) - 1 : RankOf[SeverityOf[doc.order[j]]] <= RankOf[SeverityOf[doc.order[j + 1]]]
ServedFits(doc) ==
  /\ doc.kind \in {"docx", "template"} => doc.plan \in PaidPlans
  /\ doc.kind \in {"page", "docx"} => Figures(doc.doc)
  /\ doc.kind = "docx" => doc.doc.task = doc.asked
  /\ doc.kind = "page" => doc.asked \in 1 .. Latest /\ doc.doc.task \in 1 .. Latest
  /\ doc.kind = "revision" =>
       /\ doc.asked \in 1 .. Latest /\ (doc.plan \in PaidPlans \/ libTasks[doc.asked].deep)
       /\ (\A r \in RiskIds : ClauseOf[r] # 0) => doc.doc.printed = doc.doc.counted
       /\ doc.doc.printed <= doc.doc.counted
ServedInv ==
  /\ reportOf # NoReview => reportOf.task \in 1 .. Latest
  /\ served # NoReview => ServedFits(served)

LEMMA ServedInitially == ASSUME LibraryInit PROVE ServedInv
BY DEF LibraryInit, ServedInv

LEMMA SeqOfSet ==
  ASSUME NEW S, IsFiniteSet(S)
  PROVE  SetToSeq(S) \in Seq(S) /\ Len(SetToSeq(S)) = Cardinality(S)
<1> DEFINE n == Cardinality(S)
           s == SetToSeq(S)
<1>1. n \in Nat /\ \E f : f \in Bijection(1 .. n, S)
  BY FS_CardinalityType DEF ExistsBijection
<1>2. \E f \in [1 .. n -> S] : IsInjective(f)
  BY <1>1 DEF Bijection, Injection, IsInjective
<1>3. s \in [1 .. n -> S]
  BY <1>2 DEF SetToSeq
<1> HIDE DEF s, n
<1>4. s \in Seq(S) /\ Len(s) = n
  BY <1>1, <1>3
<1> QED BY <1>4 DEF s, n

LEMMA RisksInOrder ==
  /\ SortedRisks \in Seq(RiskIds)
  /\ Cardinality({r \in RiskIds : SeverityOf[r] = "HIGH"}) + Cardinality({r \in RiskIds : SeverityOf[r] = "MED"})
       + Cardinality({r \in RiskIds : SeverityOf[r] = "LOW"}) = Len(SortedRisks)
  /\ \A j \in 1 .. Len(SortedRisks) - 1 : RankOf[SeverityOf[SortedRisks[j]]] <= RankOf[SeverityOf[SortedRisks[j + 1]]]
<1> USE LibraryAssumption
<1> DEFINE a == SetToSeq(RisksOf(1))
           b == SetToSeq(RisksOf(2))
           c == SetToSeq(RisksOf(3))
           k == Len(a)
           m == Len(b)
           n == Len(c)
<1>1. /\ \A r \in RiskIds : SeverityOf[r] \in {"HIGH", "MED", "LOW"}
      /\ RankOf["HIGH"] = 1 /\ RankOf["MED"] = 2 /\ RankOf["LOW"] = 3
  BY DEF RankOf
<1>2. /\ RisksOf(1) = {r \in RiskIds : SeverityOf[r] = "HIGH"}
      /\ RisksOf(2) = {r \in RiskIds : SeverityOf[r] = "MED"}
      /\ RisksOf(3) = {r \in RiskIds : SeverityOf[r] = "LOW"}
  BY <1>1 DEF RisksOf
<1>3. \A rank : RisksOf(rank) \subseteq RiskIds /\ IsFiniteSet(RisksOf(rank))
  BY FS_Subset DEF RisksOf
<1>4. /\ a \in Seq(RisksOf(1)) /\ b \in Seq(RisksOf(2)) /\ c \in Seq(RisksOf(3))
      /\ k = Cardinality(RisksOf(1)) /\ m = Cardinality(RisksOf(2)) /\ n = Cardinality(RisksOf(3))
  BY <1>3, SeqOfSet
<1>5. SortedRisks = (a \o b) \o c
  BY DEF SortedRisks
<1> HIDE DEF a, b, c
<1>6. a \in Seq(RiskIds) /\ b \in Seq(RiskIds) /\ c \in Seq(RiskIds) /\ k \in Nat /\ m \in Nat /\ n \in Nat
  BY <1>3, <1>4, SeqMonotonic, LenProperties
<1> DEFINE ab == a \o b
           all == ab \o c
<1>7. /\ ab \in Seq(RiskIds) /\ Len(ab) = k + m
      /\ \A i \in 1 .. k + m : ab[i] = IF i <= k THEN a[i] ELSE b[i - k]
  BY <1>6, ConcatProperties
<1> HIDE DEF ab
<1>8. /\ all \in Seq(RiskIds) /\ Len(all) = k + m + n
      /\ \A i \in 1 .. k + m + n : all[i] = IF i <= k + m THEN ab[i] ELSE c[i - (k + m)]
  <2>1. /\ all \in Seq(RiskIds) /\ Len(all) = Len(ab) + Len(c)
        /\ \A i \in 1 .. Len(ab) + Len(c) : all[i] = IF i <= Len(ab) THEN ab[i] ELSE c[i - Len(ab)]
    BY <1>6, <1>7, ConcatProperties
  <2> HIDE DEF all
  <2> QED BY <1>6, <1>7, <2>1
<1> HIDE DEF all
<1>9. /\ \A i \in 1 .. k : RankOf[SeverityOf[a[i]]] = 1
      /\ \A i \in 1 .. m : RankOf[SeverityOf[b[i]]] = 2
      /\ \A i \in 1 .. n : RankOf[SeverityOf[c[i]]] = 3
  <2>1. /\ \A i \in 1 .. k : a[i] \in RisksOf(1)
        /\ \A i \in 1 .. m : b[i] \in RisksOf(2)
        /\ \A i \in 1 .. n : c[i] \in RisksOf(3)
    BY <1>4, ElementOfSeq
  <2> QED BY <2>1 DEF RisksOf
<1> HIDE DEF k, m, n
<1>10. \A i \in 1 .. k + m + n : RankOf[SeverityOf[all[i]]] = IF i <= k THEN 1 ELSE IF i <= k + m THEN 2 ELSE 3
  <2> TAKE i \in 1 .. k + m + n
  <2>1. CASE i <= k
    <3>1. i \in 1 .. k /\ i \in 1 .. k + m /\ i <= k + m
      BY <1>6, <2>1
    <3>2. all[i] = a[i]
      BY <1>7, <1>8, <2>1, <3>1
    <3> QED BY <1>9, <2>1, <3>1, <3>2
  <2>2. CASE ~(i <= k) /\ i <= k + m
    <3>1. i - k \in 1 .. m /\ all[i] = b[i - k]
      BY <1>6, <1>7, <1>8, <2>2
    <3> QED BY <1>9, <2>2, <3>1
  <2>3. CASE ~(i <= k) /\ ~(i <= k + m)
    <3>1. i - (k + m) \in 1 .. n /\ all[i] = c[i - (k + m)]
      BY <1>6, <1>8, <2>3
    <3> QED BY <1>9, <2>3, <3>1
  <2> QED BY <2>1, <2>2, <2>3
<1>11. \A j \in 1 .. Len(all) - 1 : RankOf[SeverityOf[all[j]]] <= RankOf[SeverityOf[all[j + 1]]]
  <2> TAKE j \in 1 .. Len(all) - 1
  <2>1. j \in 1 .. k + m + n /\ j + 1 \in 1 .. k + m + n
    BY <1>6, <1>8
  <2> DEFINE rank(i) == IF i <= k THEN 1 ELSE IF i <= k + m THEN 2 ELSE 3
  <2>2. rank(j) <= rank(j + 1)
    BY <1>6, <2>1
  <2> QED BY <1>10, <2>1, <2>2
<1>12. SortedRisks = all
  BY <1>5 DEF all, ab
<1> QED BY <1>2, <1>4, <1>8, <1>11, <1>12 DEF k, m, n

LEMMA OpinionsFit ==
  ASSUME NEW task, NEW verdicts
  PROVE  /\ Figures(Opinion(task, verdicts)) /\ Opinion(task, verdicts).task = task
         /\ Figures(OpinionDocx(task, verdicts)) /\ OpinionDocx(task, verdicts).task = task
<1> DEFINE doc == Opinion(task, verdicts)
           docx == OpinionDocx(task, verdicts)
<1>1. /\ doc.order = SortedRisks /\ doc.task = task
      /\ doc.high = Cardinality({r \in RiskIds : SeverityOf[r] = "HIGH"})
      /\ doc.med = Cardinality({r \in RiskIds : SeverityOf[r] = "MED"})
      /\ doc.low = Cardinality({r \in RiskIds : SeverityOf[r] = "LOW"})
  BY DEF Opinion
<1>2. /\ docx.order = doc.order /\ docx.task = doc.task /\ docx.high = doc.high /\ docx.med = doc.med
      /\ docx.low = doc.low
  BY DEF OpinionDocx
<1>3. Figures(doc)
  BY <1>1, RisksInOrder DEF Figures
<1> HIDE DEF doc, docx
<1>4. Figures(docx)
  BY <1>2, <1>3 DEF Figures
<1> QED BY <1>1, <1>2, <1>3, <1>4 DEF doc, docx

LEMMA ServedPreserved ==
  ASSUME LibraryInv, ServedInv, [LibraryNext]_libraryVars PROVE ServedInv'
<1> USE LibraryAssumption
<1>s. libTasks \in Seq(TaskRows) /\ Latest \in Nat /\ Latest = Len(libTasks)
      /\ DOMAIN libTasks = 1 .. Latest /\ \A i \in 1 .. Latest : libTasks[i] \in TaskRows
  BY LenProperties, ElementOfSeq DEF LibraryInv, Latest
(* The reviews go on, each as deep as it began.                            *)
<1>g. ASSUME Latest' \in Nat, Latest <= Latest', UNCHANGED served,
             \A i \in 1 .. Latest : libTasks'[i].deep = libTasks[i].deep,
             reportOf' = reportOf \/ reportOf'.task \in 1 .. Latest
      PROVE  ServedInv'
  <2>1. 1 .. Latest \subseteq 1 .. Latest'
    BY <1>g, <1>s
  <2>2. reportOf' # NoReview => reportOf'.task \in 1 .. Latest'
    BY <1>g, <2>1 DEF ServedInv
  <2>3. ASSUME served # NoReview, ServedFits(served) PROVE ServedFits(served)'
    BY <1>g, <2>1, <2>3 DEF ServedFits, Figures
  <2> QED BY <1>g, <2>2, <2>3 DEF ServedInv
(* A document is given out.                                                *)
<1>d. ASSUME UNCHANGED <<libTasks, reportOf>>, ServedFits(served')
      PROVE  ServedInv'
  BY <1>d DEF ServedInv, ServedFits, Figures, Latest
<1>u. ASSUME UNCHANGED <<libTasks, reportOf, served>> PROVE ServedInv'
  BY <1>u DEF ServedInv, ServedFits, Figures, Latest
<1>1. CASE UNCHANGED libraryVars
  BY <1>1, <1>u DEF libraryVars
<1>2. CASE PlanTurns
  BY <1>2, <1>u DEF PlanTurns
<1>3. CASE SeedTemplates
  BY <1>3, <1>u DEF SeedTemplates
<1>4. CASE ReviewBegins
  <2>1. PICK coupon \in BOOLEAN : libTasks' = Append(libTasks, [status |-> "RUNNING", deep |-> coupon \/ CanExport, risks |-> [r \in RiskIds |-> "PENDING"]])
    BY <1>4 DEF ReviewBegins
  <2> DEFINE row == [status |-> "RUNNING", deep |-> coupon \/ CanExport, risks |-> [r \in RiskIds |-> "PENDING"]]
  <2>2. libTasks' = Append(libTasks, row) /\ UNCHANGED <<reportOf, served>>
    BY <1>4, <2>1 DEF ReviewBegins
  <2> HIDE DEF row
  <2>3. Len(libTasks') = Latest + 1 /\ \A i \in 1 .. Latest : libTasks'[i] = libTasks[i]
    BY <1>s, <2>2
  <2>4. Latest' = Latest + 1
    BY <2>3 DEF Latest
  <2> QED BY <1>g, <1>s, <2>2, <2>3, <2>4
<1>e. ASSUME NEW i \in 1 .. Latest, NEW row, libTasks' = [libTasks EXCEPT ![i] = row], row.deep = libTasks[i].deep
      PROVE  Latest' = Latest /\ \A j \in 1 .. Latest : libTasks'[j].deep = libTasks[j].deep
  <2>1. Len(libTasks') = Len(libTasks) /\ \A j \in 1 .. Latest : libTasks'[j] = IF j = i THEN row ELSE libTasks[j]
    BY <1>e, <1>s
  <2> QED BY <1>e, <2>1 DEF Latest
<1>5. CASE ReviewWaits
  <2>1. Latest \in 1 .. Latest
    BY <1>5, <1>s DEF ReviewWaits
  <2> DEFINE row == [libTasks[Latest] EXCEPT !.status = "WAITING_REVIEW"]
  <2>2. row.deep = libTasks[Latest].deep
    BY <1>s, <2>1 DEF TaskRows
  <2>3. libTasks' = [libTasks EXCEPT ![Latest] = row] /\ UNCHANGED <<reportOf, served>>
    BY <1>5, <2>1 DEF ReviewWaits
  <2> HIDE DEF row
  <2>4. Latest' = Latest /\ \A j \in 1 .. Latest : libTasks'[j].deep = libTasks[j].deep
    BY <1>e, <2>1, <2>2, <2>3
  <2> QED BY <1>g, <1>s, <2>3, <2>4
<1>6. ASSUME NEW i \in 1 .. Latest, ReviewDecided(i) PROVE ServedInv'
  <2>1. PICK verdicts \in [RiskIds -> {"ACCEPTED", "IGNORED"}], outcome \in {"APPROVED", "REJECTED"} :
          /\ libTasks' = [libTasks EXCEPT ![i] = [@ EXCEPT !.status = outcome, !.risks = verdicts]]
          /\ reportOf' = [task |-> i, risks |-> verdicts]
    BY <1>6 DEF ReviewDecided
  <2> DEFINE at == [libTasks[i] EXCEPT !.status = outcome]
             row == [at EXCEPT !.risks = verdicts]
  <2>2. row.deep = libTasks[i].deep
    BY <1>s DEF TaskRows
  <2>3. libTasks' = [libTasks EXCEPT ![i] = row] /\ reportOf'.task = i /\ UNCHANGED served
    BY <1>6, <2>1 DEF ReviewDecided
  <2> HIDE DEF row
  <2>4. Latest' = Latest /\ \A j \in 1 .. Latest : libTasks'[j].deep = libTasks[j].deep
    BY <1>e, <2>2, <2>3
  <2> QED BY <1>g, <1>s, <2>3, <2>4
<1>7. ASSUME NEW i \in 1 .. Latest, ReadReport(i) PROVE ServedInv'
  <2> DEFINE doc == Opinion(reportOf.task, reportOf.risks)
  <2>1. /\ served' = [kind |-> "page", asked |-> i, doc |-> doc, plan |-> libPlan] /\ reportOf # NoReview
        /\ UNCHANGED <<libTasks, reportOf>>
    BY <1>7 DEF ReadReport
  <2>2. Figures(doc) /\ doc.task \in 1 .. Latest
    BY <2>1, OpinionsFit DEF ServedInv
  <2> HIDE DEF doc
  <2>3. ServedFits(served')
    BY <2>1, <2>2 DEF ServedFits
  <2> QED BY <1>d, <2>1, <2>3
<1>8. ASSUME NEW i \in 1 .. Latest, ExportReport(i) PROVE ServedInv'
  <2> DEFINE doc == OpinionDocx(i, libTasks[i].risks)
  <2>1. /\ served' = [kind |-> "docx", asked |-> i, doc |-> doc, plan |-> libPlan] /\ libPlan \in PaidPlans
        /\ UNCHANGED <<libTasks, reportOf>>
    BY <1>8 DEF ExportReport, CanExport
  <2>2. Figures(doc) /\ doc.task = i
    BY OpinionsFit
  <2> HIDE DEF doc
  <2>3. ServedFits(served')
    BY <2>1, <2>2 DEF ServedFits
  <2> QED BY <1>d, <2>1, <2>3
<1>9. CASE ExportRevision
  <2>1. PICK revised \in SUBSET RiskIds \ {{}} :
          served' = [kind |-> "revision", asked |-> Latest, plan |-> libPlan,
                     doc |-> [counted |-> Cardinality(revised),
                              printed |-> Cardinality({r \in revised : ClauseOf[r] \in 1..ClauseCount}),
                              changed |-> RevisedClauses(revised),
                              kept |-> (1..ClauseCount) \ RevisedClauses(revised)]]
    BY <1>9 DEF ExportRevision
  <2> DEFINE printed == {r \in revised : ClauseOf[r] \in 1..ClauseCount}
             changed == RevisedClauses(revised)
             others == (1..ClauseCount) \ RevisedClauses(revised)
             doc == [counted |-> Cardinality(revised), printed |-> Cardinality(printed),
                     changed |-> changed, kept |-> others]
  <2>2. served' = [kind |-> "revision", asked |-> Latest, plan |-> libPlan, doc |-> doc]
    BY <2>1
  <2>3. /\ Latest \in 1 .. Latest /\ (libPlan \in PaidPlans \/ libTasks[Latest].deep)
        /\ UNCHANGED <<libTasks, reportOf>>
    BY <1>9, <1>s DEF ExportRevision, CanExport
  <2>4. IsFiniteSet(revised) /\ Cardinality(printed) <= Cardinality(revised)
    BY FS_Subset
  <2>5. (\A r \in RiskIds : ClauseOf[r] # 0) => printed = revised
    <3> SUFFICES ASSUME \A r \in RiskIds : ClauseOf[r] # 0 PROVE \A r \in revised : ClauseOf[r] \in 1..ClauseCount
      OBVIOUS
    <3> QED OBVIOUS
  <2>6. doc.counted = Cardinality(revised) /\ doc.printed = Cardinality(printed)
    OBVIOUS
  <2> HIDE DEF doc, printed
  <2>7. ServedFits(served')
    BY <2>2, <2>3, <2>4, <2>5, <2>6 DEF ServedFits
  <2> QED BY <1>d, <2>3, <2>7
<1>10. ASSUME NEW t \in Templates, PreviewTemplate(t) PROVE ServedInv'
  BY <1>10, <1>d DEF PreviewTemplate, ServedFits
<1>11. ASSUME NEW t \in Templates, DownloadTemplate(t) PROVE ServedInv'
  BY <1>11, <1>d DEF DownloadTemplate, ServedFits, CanExport
<1>12. ASSUME NEW t \in Templates, AdoptTemplate(t) PROVE ServedInv'
  BY <1>12, <1>u DEF AdoptTemplate
<1> QED BY <1>1, <1>2, <1>3, <1>4, <1>5, <1>6, <1>7, <1>8, <1>9, <1>10, <1>11, <1>12 DEF LibraryNext

LEMMA ServedAgrees == ASSUME ServedInv PROVE ServedAsPaid
<1> SUFFICES ASSUME served # NoReview, ServedFits(served) PROVE ServedAsPaid
  BY DEF ServedInv, ServedAsPaid
<1>1. served.kind = "page" /\ Latest = 1 => served.doc.task = served.asked
  <2> SUFFICES ASSUME served.kind = "page", Latest = 1 PROVE served.doc.task = served.asked
    OBVIOUS
  <2>1. served.asked \in 1 .. 1 /\ served.doc.task \in 1 .. 1
    BY DEF ServedFits
  <2> QED BY <2>1
<1> QED BY <1>1 DEF ServedFits, Figures, ServedAsPaid

--------------------------------------------------------------------------------
(* The pages that add the records up.                                      *)
ShownInv ==
  /\ IsFiniteSet(events) /\ Len(traced) <= TracesMax
  /\ todoRows \in [1 .. 2 -> Nat]

LEMMA ShownInitially == ASSUME ReportInit PROVE ShownInv
<1>1. todoRows = <<0, 0>> /\ events = {} /\ traced = <<>>
  BY DEF ReportInit
<1> QED BY <1>1, FS_EmptySet, ReportAssumption DEF ShownInv

LEMMA ShownPreserved ==
  ASSUME ReportInv, ShownInv, [ReportNext]_reportVars PROVE ShownInv'
<1> USE ReportAssumption DEF ShownInv
<1>s. traced \in Seq(TraceRows) /\ Len(traced) \in Nat
  BY LenProperties DEF ReportInv, ReportShape
<1>1. CASE UNCHANGED reportVars
  BY <1>1 DEF reportVars
<1>2. ASSUME NEW batch, NEW token, NEW persona, NEW down \in BOOLEAN, Track(batch, token, persona, down)
      PROVE  ShownInv'
  <2>1. UNCHANGED <<traced, todoRows>>
    BY <1>2 DEF Track
  <2>2. CASE UNCHANGED <<events, accepted>>
    BY <2>1, <2>2
  <2>3. CASE ~UNCHANGED <<events, accepted>>
    <3>1. /\ batch \subseteq EventTypes
          /\ events' = events \cup
               {<<type, ResolveIdentity(token), SanitizeProps(SentProps(persona)), rptime>> : type \in batch}
      BY <1>2, <2>3 DEF Track
    <3> DEFINE row(type) == <<type, ResolveIdentity(token), SanitizeProps(SentProps(persona)), rptime>>
               rows == {row(type) : type \in batch}
               f == [type \in batch |-> row(type)]
    <3>2. IsFiniteSet(batch)
      BY <3>1, FS_Subset DEF EventTypes
    <3>3. \A t \in rows : \E type \in batch : t = f[type]
      OBVIOUS
    <3>4. events' = events \cup rows
      BY <3>1
    <3> HIDE DEF f, rows
    <3>5. IsFiniteSet(rows)
      BY <3>2, <3>3, ImageIsFinite
    <3> QED BY <2>1, <3>4, <3>5, FS_Union
  <2> QED BY <2>2, <2>3
<1>3. CASE TodoChanges
  <2>1. PICK r \in 1 .. 2 : todoRows' = [todoRows EXCEPT ![r] = todoRows[r] + 1]
    BY <1>3 DEF TodoChanges
  <2>2. todoRows' \in [1 .. 2 -> Nat]
    BY <2>1
  <2> QED BY <1>3, <2>2 DEF TodoChanges
<1>4. CASE LogAudit
  BY <1>4 DEF LogAudit
<1>5. CASE ReportTick
  BY <1>5 DEF ReportTick
<1>6. CASE TraceStarts
  <2>1. Len(traced') = Len(traced) + 1 /\ Len(traced) < TracesMax /\ UNCHANGED <<events, todoRows>>
    BY <1>6, <1>s DEF TraceStarts
  <2> QED BY <1>s, <2>1
<1>7. ASSUME NEW i \in DOMAIN traced, TraceEnds(i) PROVE ShownInv'
  <2>1. PICK row : traced' = [traced EXCEPT ![i] = row]
    BY <1>7 DEF TraceEnds
  <2>2. Len(traced') = Len(traced)
    BY <1>s, <2>1
  <2> QED BY <1>7, <2>2 DEF TraceEnds
<1>8. ASSUME NEW i \in DOMAIN traced, Books(i) PROVE ShownInv'
  BY <1>8 DEF Books
<1> QED BY <1>1, <1>2, <1>3, <1>4, <1>5, <1>6, <1>7, <1>8 DEF ReportNext

(* Each user of a step has one plan.                                       *)
LEMMA FunnelAdds ==
  ASSUME ReportInv, ShownInv, NEW i \in 1 .. Len(Steps), NEW from, NEW to
  PROVE  GetFunnel(from, to)[i].count
           = SumFunction([p \in Range(PlanOf) |-> GetBreakdown("plan", p, Steps[i], from, to)])
<1> DEFINE E == {e \in events : e[1] = Steps[i] /\ InRange(e, from, to)}
           U == {e[2] : e \in E} \ {Nobody}
           P == Range(PlanOf)
           class == [u \in U |-> PlanOf[u]]
           h == [p \in P |-> GetBreakdown("plan", p, Steps[i], from, to)]
<1>1. GetFunnel(from, to)[i].count = Cardinality(U)
  BY DEF GetFunnel, DistinctUsers
<1>2. U \subseteq Trackers
  BY DEF ReportInv, ReportShape
<1>3. IsFiniteSet(U)
  BY <1>2, FS_Subset, ReportAssumption
<1>4. P = {PlanOf[u] : u \in Trackers}
  BY ReportAssumption DEF Range
<1>5. IsFiniteSet(P)
  <2> DEFINE f == [u \in Trackers |-> PlanOf[u]]
  <2>1. \A t \in P : \E u \in Trackers : t = f[u]
    BY <1>4
  <2> HIDE DEF f, P
  <2> QED BY <2>1, ImageIsFinite, ReportAssumption
<1>6. class \in [U -> P] /\ \A u \in U : class[u] = PlanOf[u]
  BY <1>2, <1>4
<1>7. ASSUME NEW p \in P PROVE h[p] = Cardinality(ClassIn(U, class, p))
  <2> DEFINE W == {e \in events : /\ e[1] = Steps[i] /\ InRange(e, from, to)
                                  /\ IF "plan" = "plan" THEN JoinedPlan(e, p) ELSE JoinedPersona(e, p)}
  <2>1. h[p] = Cardinality({e[2] : e \in W} \ {Nobody})
    BY DEF GetBreakdown, DistinctUsers
  <2>2. W = {e \in E : e[2] # Nobody /\ PlanOf[e[2]] = p}
    BY DEF JoinedPlan
  <2>3. {e[2] : e \in W} \ {Nobody} = {u \in U : class[u] = p}
    BY <2>2, <1>6
  <2> QED BY <2>1, <2>3 DEF ClassIn
<1>8. SumFunction(h) = SumFunctionOnSet(h, P)
  BY DEF SumFunction
<1> HIDE DEF U, P, class, h
<1>9. Cardinality(U) = SumFunctionOnSet(h, P)
  BY <1>3, <1>5, <1>6, <1>7, CountByClasses
<1> QED BY <1>1, <1>8, <1>9 DEF h, P

(* The filtered list is no longer than the list.                           *)
LEMMA RowsAre ==
  ASSUME traced \in Seq(TraceRows), NEW status
  PROVE  NewestFirst(status) \in Seq(TraceRows) /\ Len(NewestFirst(status)) <= Len(traced)
<1> DEFINE n == Len(traced)
           V == Seq(TraceRows)
           Is(H) == H = [k \in 0 .. Len(traced) |->
                           IF k = 0 THEN <<>>
                           ELSE IF status \in {"any", traced[k].status} THEN <<traced[k]>> \o H[k - 1] ELSE H[k - 1]]
           F == CHOOSE H : Is(H)
           g == [p \in (1 .. n) \X V |-> IF status \in {"any", traced[p[1]].status} THEN <<traced[p[1]]>> \o p[2] ELSE p[2]]
<1>0. n \in Nat /\ \A k \in 1 .. n : traced[k] \in TraceRows
  BY LenProperties, ElementOfSeq
<1>1. NewestFirst(status) = F[n]
  BY DEF NewestFirst
<1>2. \A k \in 1 .. n, v \in V : g[<<k, v>>] = IF status \in {"any", traced[k].status} THEN <<traced[k]>> \o v ELSE v
  OBVIOUS
<1>3. \A k \in 1 .. n, v \in V : g[<<k, v>>] \in V /\ Len(g[<<k, v>>]) <= Len(v) + 1
  <2> HIDE DEF g
  <2> TAKE k \in 1 .. n, v \in V
  <2>1. <<traced[k]>> \in V /\ Len(<<traced[k]>>) = 1
    BY <1>0
  <2>2. <<traced[k]>> \o v \in V /\ Len(<<traced[k]>> \o v) = 1 + Len(v) /\ Len(v) \in Nat
    BY <2>1, ConcatProperties, LenProperties
  <2>3. v \in V /\ Len(v) <= Len(v) + 1
    BY <2>2
  <2>4. Len(<<traced[k]>> \o v) <= Len(v) + 1
    BY <2>2
  <2>5. CASE status \in {"any", traced[k].status}
    <3>1. g[<<k, v>>] = <<traced[k]>> \o v
      BY <1>2, <2>5
    <3> QED BY <2>2, <2>4, <3>1
  <2>6. CASE status \notin {"any", traced[k].status}
    <3>1. g[<<k, v>>] = v
      BY <1>2, <2>6
    <3> QED BY <2>3, <3>1
  <2> QED BY <2>5, <2>6
<1>4. <<>> \in V
  OBVIOUS
<1> HIDE DEF g
<1>5. PICK G \in [0 .. n -> V] : Recurs(G, n, <<>>, g)
  <2> HIDE DEF V, n
  <2> QED BY <1>0, <1>3, <1>4, RecursExists
<1>6. Is(G)
  <2> DEFINE H == [k \in 0 .. n |->
                    IF k = 0 THEN <<>>
                    ELSE IF status \in {"any", traced[k].status} THEN <<traced[k]>> \o G[k - 1] ELSE G[k - 1]]
  <2>1. \A k \in 0 .. n : G[k] = H[k]
    <3> TAKE k \in 0 .. n
    <3>1. CASE k = 0
      BY <1>5, <3>1 DEF Recurs
    <3>2. CASE k # 0
      <4>1. k \in 1 .. n /\ k - 1 \in 0 .. n
        BY <1>0, <3>2
      <4>2. G[k] = g[<<k, G[k - 1]>>] /\ G[k - 1] \in V
        BY <1>5, <4>1 DEF Recurs
      <4> HIDE DEF V
      <4> QED BY <1>2, <3>2, <4>1, <4>2
    <3> QED BY <3>1, <3>2
  <2>2. G = H
    BY <2>1
  <2> QED BY <2>2
<1>7. Is(F)
  <2> HIDE DEF Is
  <2> QED BY <1>6
<1> HIDE DEF F
<1>8. F \in [0 .. n -> V] /\ Recurs(F, n, <<>>, g)
  <2> DEFINE T == {m \in Nat : m <= n => F[m] \in V /\ F[m] = G[m]}
  <2>1. 0 \in T
    BY <1>4, <1>5, <1>7 DEF Recurs
  <2>2. ASSUME NEW m \in Nat, m \in T PROVE m + 1 \in T
    <3> SUFFICES ASSUME m + 1 <= n PROVE F[m + 1] \in V /\ F[m + 1] = G[m + 1]
      OBVIOUS
    <3>1. F[m] = G[m] /\ m + 1 \in 0 .. n /\ m + 1 # 0 /\ (m + 1) - 1 = m /\ G[m + 1] \in V
      BY <1>0, <1>5, <2>2
    <3>2. F[m + 1] = (IF status \in {"any", traced[m + 1].status} THEN <<traced[m + 1]>> \o F[m] ELSE F[m])
      BY <1>7, <3>1
    <3>3. G[m + 1] = (IF status \in {"any", traced[m + 1].status} THEN <<traced[m + 1]>> \o G[m] ELSE G[m])
      BY <1>6, <3>1
    <3> QED BY <3>1, <3>2, <3>3
  <2> HIDE DEF T
  <2>3. Nat \subseteq T
    BY <2>1, <2>2, NatInd
  <2>4. \A k \in 0 .. n : F[k] = G[k]
    BY <1>0, <2>3 DEF T
  <2>5. F = [k \in 0 .. n |-> F[k]]
    BY <1>7
  <2>6. F = G
    BY <1>5, <2>4, <2>5
  <2> QED BY <1>5, <2>6
<1> DEFINE T == {m \in Nat : m <= n => Len(F[m]) <= m}
<1>9. 0 \in T
  BY <1>8 DEF Recurs
<1>10. ASSUME NEW m \in Nat, m \in T PROVE m + 1 \in T
  <2> SUFFICES ASSUME m + 1 <= n PROVE Len(F[m + 1]) <= m + 1
    OBVIOUS
  <2>1. m + 1 \in 1 .. n /\ (m + 1) - 1 = m /\ m \in 0 .. n /\ Len(F[m]) <= m
    BY <1>0, <1>10
  <2>2. F[m + 1] = g[<<m + 1, F[m]>>] /\ F[m] \in V /\ F[m + 1] \in V
    <3> DEFINE p == m + 1
    <3>1. F[p] = g[<<p, F[p - 1]>>]
      BY <1>8, <2>1 DEF Recurs
    <3>2. p - 1 = m /\ p \in 0 .. n
      BY <1>0, <2>1
    <3>3. F[m] \in V /\ F[p] \in V
      BY <1>8, <2>1, <3>2
    <3> QED BY <3>1, <3>2, <3>3
  <2>3. Len(F[m + 1]) <= Len(F[m]) + 1
    BY <1>3, <2>1, <2>2
  <2>4. Len(F[m]) \in Nat /\ Len(F[m + 1]) \in Nat
    BY <2>2, LenProperties
  <2> QED BY <2>1, <2>3, <2>4
<1> HIDE DEF T
<1>11. Nat \subseteq T
  BY <1>9, <1>10, NatInd
<1>12. Len(F[n]) <= n /\ F[n] \in V
  BY <1>0, <1>8, <1>11 DEF T
<1> QED BY <1>1, <1>12

LEMMA PagesAreTheList ==
  ASSUME ReportInv, ShownInv, NEW size \in 1 .. TracesMax, NEW status
  PROVE  FlattenSeq([page \in 1 .. TracesMax |-> ListTraces(page, size, status).items])
           = ListTraces(1, TracesMax, status).items
<1> DEFINE rows == NewestFirst(status)
           pages == [page \in 1 .. TracesMax |-> ListTraces(page, size, status).items]
<1>1. traced \in Seq(TraceRows) /\ Len(traced) <= TracesMax /\ TracesMax \in Nat /\ Len(traced) \in Nat
  BY LenProperties, ReportAssumption DEF ReportInv, ReportShape, ShownInv
<1>2. rows \in Seq(TraceRows) /\ Len(rows) <= TracesMax /\ Len(rows) \in Nat
  <2>1. rows \in Seq(TraceRows) /\ Len(rows) <= Len(traced)
    BY <1>1, RowsAre
  <2> HIDE DEF rows
  <2> QED BY <1>1, <2>1, LenProperties
<1>3. \A page \in 1 .. TracesMax : pages[page] = SubSeq(rows, (page - 1) * size + 1, Min({page * size, Len(rows)}))
  BY DEF ListTraces
<1>4. ListTraces(1, TracesMax, status).items = SubSeq(rows, (1 - 1) * TracesMax + 1, Min({1 * TracesMax, Len(rows)}))
  BY DEF ListTraces
<1>5. Len(pages) = TracesMax
  BY <1>1
<1> HIDE DEF rows, pages
<1>6. FlattenSeq(pages) = SubSeq(rows, 1, Len(rows))
  BY <1>1, <1>2, <1>3, <1>5, PagesJoin
<1>7. (1 - 1) * TracesMax + 1 = 1 /\ 1 * TracesMax = TracesMax
  BY <1>1
<1>8. Min({TracesMax, Len(rows)}) = Len(rows)
  BY <1>1, <1>2, MinOfTwo
<1> QED BY <1>4, <1>6, <1>7, <1>8 DEF pages

LEMMA OverIsHundred ==
  ASSUME usage \in Nat PROVE \A quota \in 1 .. 3 : OverLimit(quota) <=> UsedPct(quota) >= 100
<1>1. (100 * usage) \div 1 = 100 * usage
  OBVIOUS
<1>2. OverLimit(1) <=> UsedPct(1) >= 100
  BY <1>1 DEF OverLimit, UsedPct
<1>3. OverLimit(2) <=> UsedPct(2) >= 100
  BY DEF OverLimit, UsedPct
<1>4. OverLimit(3) <=> UsedPct(3) >= 100
  BY DEF OverLimit, UsedPct
<1>5. \A quota \in 1 .. 3 : quota = 1 \/ quota = 2 \/ quota = 3
  OBVIOUS
<1> QED BY <1>2, <1>3, <1>4, <1>5

LEMMA WaitingIsShown ==
  ASSUME ShownInv PROVE Todos.waiting <= Todos.pending /\ (Todos.pending > 0 => Todos.waiting > 0)
<1>1. todoRows[1] \in Nat
  BY DEF ShownInv
<1>2. Todos.waiting = Min({todoRows[1], 2}) /\ Todos.pending = todoRows[1]
  BY DEF Todos
<1>3. Min({todoRows[1], 2}) = IF todoRows[1] <= 2 THEN todoRows[1] ELSE 2
  BY <1>1, MinOfTwo
<1> QED BY <1>1, <1>2, <1>3

(* The rows and the clock.                                                 *)
LEMMA RowsInTime ==
  ASSUME ReportInv
  PROVE  /\ IsFiniteSet(DOMAIN traced) /\ rptime \in Nat
         /\ \A k \in DOMAIN traced : /\ traced[k].at \in Nat /\ traced[k].at <= rptime /\ traced[k].tokens \in Nat
                                     /\ traced[k].status = "RUNNING" <=> traced[k].model = NoModel
<1>1. /\ traced \in Seq(TraceRows) /\ DOMAIN traced = 1 .. Len(traced) /\ Len(traced) \in Nat
      /\ \A k \in DOMAIN traced : traced[k] \in TraceRows
  BY LenProperties, ElementOfSeq DEF ReportInv, ReportShape
<1>2. IsFiniteSet(DOMAIN traced)
  BY <1>1, FS_Interval
<1>3. \A k \in DOMAIN traced : traced[k].at \in Nat /\ traced[k].tokens \in Nat
  BY <1>1 DEF TraceRows
<1> QED BY <1>2, <1>3 DEF ReportInv, ReportShape, TracesFit

LEMMA ChartAdds ==
  ASSUME ReportInv
  PROVE  SumFunction([i \in 1 .. ChartDays |-> FillSevenDays[i].totalCalls])
           = Cardinality({k \in DOMAIN traced : traced[k].at >= WindowStart /\ UtcDay(traced[k].at) <= ChartKey(ChartDays)})
<1> DEFINE S == {k \in DOMAIN traced : traced[k].at >= WindowStart /\ UtcDay(traced[k].at) <= ChartKey(ChartDays)}
           P == 1 .. ChartDays
           midnight == LocalMidnight(rptime)
           last == ChartKey(ChartDays)
           class == [k \in S |-> UtcDay(traced[k].at) - last + ChartDays]
           h == [i \in P |-> FillSevenDays[i].totalCalls]
<1>1. /\ IsFiniteSet(DOMAIN traced) /\ ChartDays \in Nat \ {0} /\ midnight \in Int
      /\ \A k \in DOMAIN traced : traced[k].at \in Nat
  BY RowsInTime, ReportAssumption DEF LocalMidnight, LocalDay
<1> HIDE DEF midnight
<1>2. WindowStart = midnight - 3 * (ChartDays - 1) /\ \A i \in P : ChartKey(i) = (midnight - 3 * (ChartDays - i)) \div 3
  BY DEF WindowStart, ChartKey, UtcDay, midnight
<1>3. last \in Int /\ \A i \in P : ChartKey(i) = last - ChartDays + i
  <2>1. last = (midnight - 3 * (ChartDays - ChartDays)) \div 3
    BY <1>1, <1>2
  <2>2. last = midnight \div 3
    BY <1>1, <2>1
  <2>3. ASSUME NEW i \in P PROVE (midnight - 3 * (ChartDays - i)) \div 3 = midnight \div 3 - (ChartDays - i)
    BY <1>1
  <2> HIDE DEF last
  <2> QED BY <1>1, <1>2, <2>2, <2>3
<1>4. \A k \in S : UtcDay(traced[k].at) \in Int /\ UtcDay(traced[k].at) >= last - ChartDays + 1 /\ UtcDay(traced[k].at) <= last
  <2> TAKE k \in S
  <2>1. traced[k].at \in Nat /\ traced[k].at >= midnight - 3 * (ChartDays - 1)
    BY <1>1, <1>2
  <2>2. traced[k].at \div 3 >= (midnight - 3 * (ChartDays - 1)) \div 3
    BY <1>1, <2>1
  <2>3. 1 \in P
    BY <1>1
  <2>4. ChartKey(1) = last - ChartDays + 1 /\ ChartKey(1) = (midnight - 3 * (ChartDays - 1)) \div 3
    BY <1>2, <1>3, <2>3
  <2> HIDE DEF last
  <2>5. UtcDay(traced[k].at) >= last - ChartDays + 1
    BY <2>2, <2>4 DEF UtcDay
  <2> QED BY <2>1, <2>5 DEF UtcDay, last
<1>5. IsFiniteSet(S) /\ IsFiniteSet(P)
  BY <1>1, FS_Subset, FS_Interval
<1>6. ASSUME NEW k \in S PROVE class[k] = UtcDay(traced[k].at) - last + ChartDays /\ class[k] \in P
  <2>1. class[k] = UtcDay(traced[k].at) - last + ChartDays
    OBVIOUS
  <2> HIDE DEF class, last
  <2> QED BY <1>1, <1>3, <1>4, <2>1
<1>7. ASSUME NEW i \in P PROVE h[i] = Cardinality(ClassIn(S, class, i))
  <2> DEFINE D == {k \in DOMAIN traced : traced[k].at >= WindowStart /\ UtcDay(traced[k].at) = ChartKey(i)}
  <2>1. h[i] = Cardinality(D)
    BY DEF FillSevenDays
  <2>2. ASSUME NEW k \in D PROVE k \in S /\ class[k] = i
    <3>1. UtcDay(traced[k].at) = last - ChartDays + i /\ UtcDay(traced[k].at) <= last
      <4> HIDE DEF last
      <4> QED BY <1>1, <1>3
    <3>2. k \in S
      BY <3>1
    <3> HIDE DEF class, S, last
    <3> QED BY <1>1, <1>3, <1>6, <3>1, <3>2
  <2>3. ASSUME NEW k \in S, class[k] = i PROVE k \in D
    <3>1. UtcDay(traced[k].at) = last - ChartDays + i
      <4> HIDE DEF class, last, S
      <4> QED BY <1>1, <1>3, <1>4, <1>6, <2>3
    <3> QED BY <1>3, <3>1
  <2>4. D = ClassIn(S, class, i)
    <3> HIDE DEF class
    <3> QED BY <2>2, <2>3 DEF ClassIn
  <2> QED BY <2>1, <2>4
<1>8. SumFunction(h) = SumFunctionOnSet(h, P) /\ class \in [S -> P]
  BY <1>6 DEF SumFunction
<1> HIDE DEF S, P, class, h
<1>9. Cardinality(S) = SumFunctionOnSet(h, P)
  BY <1>5, <1>7, <1>8, CountByClasses
<1> QED BY <1>8, <1>9 DEF h, S, P

LEMMA CallsOfToday ==
  ASSUME ReportInv
  PROVE  StatsOverview.apiCalls
           = Cardinality({i \in TodayRows : traced[i].model \notin {"cache", NoModel}})
             + Cardinality({i \in TodayRows : traced[i].status = "RUNNING"})
<1> DEFINE real == {i \in TodayRows : traced[i].model \notin {"cache", NoModel}}
           open == {i \in TodayRows : traced[i].status = "RUNNING"}
<1>1. StatsOverview.apiCalls = Cardinality(TodayRows) - Cardinality(CacheHits)
  BY DEF StatsOverview
<1>2. IsFiniteSet(TodayRows) /\ \A i \in TodayRows : traced[i].status = "RUNNING" <=> traced[i].model = NoModel
  BY RowsInTime, FS_Subset DEF TodayRows
<1>3. CacheHits \subseteq TodayRows /\ NoModel # "cache"
  BY ReportAssumption DEF CacheHits
<1>4. TodayRows \ CacheHits = real \cup open /\ real \cap open = {}
  BY <1>2, <1>3 DEF CacheHits
<1>5. IsFiniteSet(real) /\ IsFiniteSet(open) /\ IsFiniteSet(CacheHits)
  BY <1>2, <1>3, FS_Subset
<1> HIDE DEF real, open
<1>6. Cardinality(real \cup open) = Cardinality(real) + Cardinality(open)
  <2>1. Cardinality(real \cap open) = 0
    BY <1>4, FS_EmptySet
  <2>2. Cardinality(real) \in Nat /\ Cardinality(open) \in Nat
    BY <1>5, FS_CardinalityType
  <2>3. Cardinality(real \cup open) = Cardinality(real) + Cardinality(open) - Cardinality(real \cap open)
    BY <1>5, FS_Union
  <2> QED BY <2>1, <2>2, <2>3
<1>7. Cardinality(TodayRows \ CacheHits) = Cardinality(TodayRows) - Cardinality(CacheHits)
  <2>1. TodayRows \cap CacheHits = CacheHits
    BY <1>3
  <2> QED BY <1>2, <2>1, FS_Difference
<1> QED BY <1>1, <1>4, <1>6, <1>7 DEF real, open

LEMMA BillAdds ==
  ASSUME ReportInv, rptime >= MonthBegins
  PROVE  /\ MonthTotals.calls = SumFunction([d \in 1 .. BeijingDayOfMonth |-> Daily[d].calls])
         /\ MonthTotals.tokens = SumFunction([d \in 1 .. BeijingDayOfMonth |-> Daily[d].peak + Daily[d].off])
<1> DEFINE P == 1 .. BeijingDayOfMonth
           first == LocalDay(MonthBegins)
           day(d) == {i \in MonthRows : LocalDay(traced[i].at) = first + d - 1}
           class == [k \in MonthRows |-> LocalDay(traced[k].at) - first + 1]
           f == [i \in DOMAIN traced |-> traced[i].tokens]
           h == [d \in P |-> Daily[d].calls]
           t == [d \in P |-> Daily[d].peak + Daily[d].off]
<1>1. /\ IsFiniteSet(MonthRows) /\ rptime \in Nat /\ MonthBegins \in Nat /\ ZoneAhead \in Nat
      /\ \A k \in MonthRows : /\ k \in DOMAIN traced /\ traced[k].at \in Nat /\ traced[k].at <= rptime
                              /\ traced[k].at >= MonthBegins /\ traced[k].tokens \in Nat
  BY RowsInTime, ReportAssumption, FS_Subset DEF MonthRows
<1>2. \A a, b \in Nat : LocalDay(a) \in Int /\ (a <= b => LocalDay(a) <= LocalDay(b))
  BY <1>1 DEF LocalDay
<1>3. first \in Int /\ BeijingDayOfMonth \in Int /\ BeijingDayOfMonth = LocalDay(rptime) - first + 1
  BY <1>1, <1>2 DEF BeijingDayOfMonth
<1> HIDE DEF first
<1>4. ASSUME NEW k \in MonthRows
      PROVE  class[k] = LocalDay(traced[k].at) - first + 1 /\ class[k] \in P /\ LocalDay(traced[k].at) \in Int
  <2>1. class[k] = LocalDay(traced[k].at) - first + 1
    OBVIOUS
  <2>2. LocalDay(traced[k].at) \in Int /\ first <= LocalDay(traced[k].at) /\ LocalDay(traced[k].at) <= LocalDay(rptime)
        /\ LocalDay(rptime) \in Int
    BY <1>1, <1>2 DEF first
  <2> HIDE DEF class
  <2> QED BY <1>3, <2>1, <2>2
<1>5. class \in [MonthRows -> P] /\ IsFiniteSet(P)
  BY <1>3, <1>4, FS_Interval
<1>6. ASSUME NEW d \in P PROVE day(d) = ClassIn(MonthRows, class, d) /\ IsFiniteSet(day(d)) /\ day(d) \subseteq MonthRows
  <2>1. \A k \in MonthRows : LocalDay(traced[k].at) = first + d - 1 <=> class[k] = d
    <3> HIDE DEF class
    <3> QED BY <1>3, <1>4
  <2>2. IsFiniteSet(day(d))
    BY <1>1, FS_Subset
  <2> HIDE DEF class
  <2> QED BY <2>1, <2>2 DEF ClassIn
<1>7. ASSUME NEW S, S \subseteq MonthRows
      PROVE  IsFiniteSet(S) /\ (\A i \in S : f[i] \in Int) /\ TokensIn(S) = SumFunctionOnSet(f, S)
  <2> DEFINE g == [i \in S |-> traced[i].tokens]
  <2>1. IsFiniteSet(S)
    BY <1>1, <1>7, FS_Subset
  <2>2. \A i \in S : f[i] \in Int /\ f[i] = g[i]
    BY <1>1, <1>7
  <2>3. TokensIn(S) = SumFunctionOnSet(g, S)
    BY DEF TokensIn, SumFunction
  <2> HIDE DEF f, g
  <2> QED BY <2>1, <2>2, <2>3, SumSame
<1>8. ASSUME NEW d \in P
      PROVE  /\ h[d] = Cardinality(ClassIn(MonthRows, class, d))
             /\ t[d] = SumFunctionOnSet(f, ClassIn(MonthRows, class, d))
  <2> DEFINE A == {i \in day(d) : IsPeak(traced[i].at)}
             B == {i \in day(d) : ~IsPeak(traced[i].at)}
  <2>1. Daily[d] = [calls |-> Cardinality(day(d)), peak |-> TokensIn(A), off |-> TokensIn(B)]
    BY DEF Daily, first
  <2>2. h[d] = Cardinality(day(d)) /\ t[d] = TokensIn(A) + TokensIn(B)
    <3>1. h[d] = Daily[d].calls /\ t[d] = Daily[d].peak + Daily[d].off
      OBVIOUS
    <3> DEFINE a == TokensIn(A)
               b == TokensIn(B)
               c == Cardinality(day(d))
    <3>2. Daily[d] = [calls |-> c, peak |-> a, off |-> b]
      BY <2>1
    <3> HIDE DEF h, t, a, b, c
    <3>3. Daily[d].calls = c /\ Daily[d].peak = a /\ Daily[d].off = b
      BY <3>2
    <3> QED BY <3>1, <3>3 DEF a, b, c
  <2>3. A \subseteq MonthRows /\ B \subseteq MonthRows /\ A \cup B = day(d) /\ A \cap B = {}
    OBVIOUS
  <2> HIDE DEF A, B, f, h, t
  <2>4. SumFunctionOnSet(f, A \cup B) = SumFunctionOnSet(f, A) + SumFunctionOnSet(f, B)
    <3>1. IsFiniteSet(A) /\ IsFiniteSet(B) /\ \A i \in A \cup B : f[i] \in Int
      BY <1>7, <2>3
    <3> QED BY <2>3, <3>1, SumOfTwo
  <2>5. TokensIn(A) = SumFunctionOnSet(f, A) /\ TokensIn(B) = SumFunctionOnSet(f, B)
    BY <1>7, <2>3
  <2> HIDE DEF day
  <2> QED BY <1>6, <2>2, <2>3, <2>4, <2>5
<1>9. /\ SumFunction(h) = SumFunctionOnSet(h, P) /\ SumFunction(t) = SumFunctionOnSet(t, P)
      /\ MonthTotals.calls = Cardinality(MonthRows) /\ MonthTotals.tokens = SumFunctionOnSet(f, MonthRows)
  <2>1. MonthTotals.tokens = TokensIn(MonthRows) /\ MonthTotals.calls = Cardinality(MonthRows)
    BY DEF MonthTotals
  <2>2. TokensIn(MonthRows) = SumFunctionOnSet(f, MonthRows)
    <3> HIDE DEF f
    <3> QED BY <1>7
  <2> QED BY <2>1, <2>2 DEF SumFunction
<1>10. \A i \in MonthRows : f[i] \in Int
  <2> HIDE DEF f
  <2> QED BY <1>7
<1> HIDE DEF P, class, f, h, t, day
<1>11. Cardinality(MonthRows) = SumFunctionOnSet(h, P)
  BY <1>1, <1>5, <1>8, CountByClasses
<1>12. SumFunctionOnSet(f, MonthRows) = SumFunctionOnSet(t, P)
  BY <1>1, <1>5, <1>8, <1>10, SumByClasses
<1> QED BY <1>9, <1>11, <1>12 DEF h, t, P

LEMMA FiguresOfPages == ASSUME ReportInv, ShownInv PROVE ReportsAgree
<1>1. usage \in Nat
  BY ReportsInType DEF ReportTypeOK
<1>2. \A i \in 1 .. Len(Steps), from, to \in {0, rptime} : ParseRange(from, to) # <<>> =>
        GetFunnel(from, to)[i].count =
          SumFunction([p \in Range(PlanOf) |-> GetBreakdown("plan", p, Steps[i], from, to)])
  BY FunnelAdds
<1>3. \A size \in 1 .. TracesMax, status \in {"any", "OK", "ERROR"} :
        FlattenSeq([page \in 1 .. TracesMax |-> ListTraces(page, size, status).items])
          = ListTraces(1, TracesMax, status).items
  BY PagesAreTheList
<1>4. rptime >= MonthBegins =>
       /\ MonthTotals.calls = SumFunction([d \in 1 .. BeijingDayOfMonth |-> Daily[d].calls])
       /\ MonthTotals.tokens = SumFunction([d \in 1 .. BeijingDayOfMonth |-> Daily[d].peak + Daily[d].off])
  BY BillAdds
<1> QED BY <1>1, <1>2, <1>3, <1>4, OverIsHundred, WaitingIsShown, ChartAdds, CallsOfToday DEF ReportsAgree

================================================================================
