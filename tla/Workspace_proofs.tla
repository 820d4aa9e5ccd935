---------------------------- MODULE Workspace_proofs ----------------------------
(***************************************************************************)
(* Workspace's properties hold for any number of requests, rows, messages  *)
(* and faults and any limit.  A step of one part leaves the variables of   *)
(* the others alone, so that the invariants of Limits_proofs and           *)
(* Records_proofs hold together.  The clauses a text is cut into are read  *)
(* here; the lemmas about sums and sequences are those of Records_proofs.  *)
(***************************************************************************)
EXTENDS Workspace, Limits_proofs, Records_proofs

(* The text without its line breaks.                                       *)
Piece(t) == IF t = "line" THEN <<>> ELSE <<t>>

LEMMA PiecesAre ==
  ASSUME NEW V, NEW s \in Seq(V)
  PROVE  /\ [i \in 1 .. Len(s) |-> Piece(s[i])] \in Seq(Seq(V))
         /\ Solid(s) = FlattenSeq([i \in 1 .. Len(s) |-> Piece(s[i])])
         /\ Solid(s) \in Seq(V)
<1> DEFINE P == [i \in 1 .. Len(s) |-> Piece(s[i])]
<1>1. Len(s) \in Nat /\ \A i \in 1 .. Len(s) : s[i] \in V
  BY LenProperties, ElementOfSeq
<1>2. \A i \in 1 .. Len(s) : Piece(s[i]) \in Seq(V)
  BY <1>1 DEF Piece
<1>3. P \in Seq(Seq(V))
  BY <1>1, <1>2
<1>4. Solid(s) = FlattenSeq(P)
  BY DEF Solid, Piece
<1> HIDE DEF P
<1>5. FlattenSeq(P) \in Seq(V)
  BY <1>3, FlattenInSeq
<1> QED BY <1>3, <1>4, <1>5 DEF P

LEMMA SolidJoins ==
  ASSUME NEW V, NEW a \in Seq(V), NEW b \in Seq(V) PROVE Solid(a \o b) = Solid(a) \o Solid(b)
<1> DEFINE P(s) == [i \in 1 .. Len(s) |-> Piece(s[i])]
           c == a \o b
<1>1. /\ c \in Seq(V) /\ Len(c) = Len(a) + Len(b) /\ Len(a) \in Nat /\ Len(b) \in Nat
      /\ \A i \in 1 .. Len(c) : c[i] = IF i <= Len(a) THEN a[i] ELSE b[i - Len(a)]
  BY ConcatProperties, LenProperties
<1> HIDE DEF c
<1>2. P(a) \in Seq(Seq(V)) /\ P(b) \in Seq(Seq(V)) /\ P(c) \in Seq(Seq(V))
  BY <1>1, PiecesAre
<1>3. Len(P(a)) = Len(a) /\ Len(P(b)) = Len(b) /\ Len(P(c)) = Len(c)
  BY <1>1
<1>4. /\ \A i \in 1 .. Len(a) : P(a)[i] = Piece(a[i])
      /\ \A i \in 1 .. Len(b) : P(b)[i] = Piece(b[i])
      /\ \A i \in 1 .. Len(c) : P(c)[i] = Piece(c[i])
  OBVIOUS
<1>5. Solid(a) = FlattenSeq(P(a)) /\ Solid(b) = FlattenSeq(P(b)) /\ Solid(c) = FlattenSeq(P(c))
  BY <1>1, PiecesAre
<1> HIDE DEF P
<1>6. /\ P(a) \o P(b) \in Seq(Seq(V)) /\ Len(P(a) \o P(b)) = Len(a) + Len(b)
      /\ \A i \in 1 .. Len(a) + Len(b) : (P(a) \o P(b))[i] = IF i <= Len(a) THEN P(a)[i] ELSE P(b)[i - Len(a)]
  <2> DEFINE x == P(a)
             y == P(b)
  <2>1. x \in Seq(Seq(V)) /\ y \in Seq(Seq(V)) /\ Len(x) = Len(a) /\ Len(y) = Len(b)
    BY <1>2, <1>3
  <2> HIDE DEF x, y
  <2>2. /\ x \o y \in Seq(Seq(V)) /\ Len(x \o y) = Len(a) + Len(b)
        /\ \A i \in 1 .. Len(a) + Len(b) : (x \o y)[i] = IF i <= Len(a) THEN x[i] ELSE y[i - Len(a)]
    <3>1. /\ x \o y \in Seq(Seq(V)) /\ Len(x \o y) = Len(x) + Len(y)
          /\ \A i \in 1 .. Len(x) + Len(y) : (x \o y)[i] = IF i <= Len(x) THEN x[i] ELSE y[i - Len(x)]
      BY <2>1, ConcatProperties, ZenonT(30)
    <3> QED BY <2>1, <3>1
  <2> QED BY <2>2 DEF x, y
<1>7. ASSUME NEW i \in 1 .. Len(c) PROVE P(c)[i] = (P(a) \o P(b))[i]
  <2>1. CASE i <= Len(a)
    <3>1. i \in 1 .. Len(a) /\ i \in 1 .. Len(a) + Len(b)
      BY <1>1, <2>1
    <3> QED BY <1>1, <1>4, <1>6, <2>1, <3>1
  <2>2. CASE ~(i <= Len(a))
    <3>1. i - Len(a) \in 1 .. Len(b) /\ i \in 1 .. Len(a) + Len(b)
      BY <1>1, <2>2
    <3>2. P(c)[i] = Piece(b[i - Len(a)]) /\ (P(a) \o P(b))[i] = P(b)[i - Len(a)]
      BY <1>1, <1>4, <1>6, <2>2, <3>1
    <3> QED BY <1>4, <3>1, <3>2
  <2> QED BY <2>1, <2>2
<1>8. P(c) = P(a) \o P(b)
  BY <1>1, <1>2, <1>3, <1>6, <1>7, SeqEqual
<1>9. FlattenSeq(P(a) \o P(b)) = FlattenSeq(P(a)) \o FlattenSeq(P(b))
  BY <1>2, FlattenJoins
<1>10. Solid(c) = Solid(a) \o Solid(b)
  BY <1>5, <1>8, <1>9
<1> QED BY <1>10 DEF c

LEMMA SolidOfBreaks ==
  ASSUME NEW V, NEW s \in Seq(V), \A i \in 1 .. Len(s) : s[i] = "line" PROVE Solid(s) = <<>>
<1> DEFINE n == Len(s)
           P == [i \in 1 .. n |-> Piece(s[i])]
<1>1. n \in Nat /\ P \in Seq(Seq(V)) /\ Solid(s) = FlattenSeq(P) /\ Len(P) = n
  <2>1. P \in Seq(Seq(V)) /\ Solid(s) = FlattenSeq(P)
    BY PiecesAre
  <2> QED BY <2>1, LenProperties
<1>2. \A i \in 1 .. n : P[i] = <<>>
  BY DEF Piece
<1> HIDE DEF P, n
<1>3. PICK F \in [0 .. n -> Seq(V)] : Joined(F, P) /\ FlattenSeq(P) = F[n]
  BY <1>1, FlattenSteps
<1> DEFINE T == {k \in Nat : k <= n => F[k] = <<>>}
<1>4. 0 \in T
  BY <1>3 DEF Joined
<1>5. ASSUME NEW k \in Nat, k \in T PROVE k + 1 \in T
  <2> SUFFICES ASSUME k + 1 <= n PROVE F[k + 1] = <<>>
    OBVIOUS
  <2> DEFINE p == k + 1
  <2>1. p \in 1 .. n /\ p - 1 = k /\ F[k] = <<>>
    BY <1>1, <1>5
  <2>2. F[p] = F[p - 1] \o P[p] /\ P[p] = <<>>
    BY <1>1, <1>2, <1>3, <2>1 DEF Joined
  <2>3. <<>> \o <<>> = <<>>
    OBVIOUS
  <2> QED BY <2>1, <2>2, <2>3
<1> HIDE DEF T
<1>6. Nat \subseteq T
  BY <1>4, <1>5, NatInd
<1> QED BY <1>1, <1>3, <1>6 DEF T

LEMMA SolidShort == ASSUME NEW V, NEW s \in Seq(V) PROVE Len(Solid(s)) <= Len(s) /\ Len(Solid(s)) \in Nat
<1> DEFINE n == Len(s)
           P == [i \in 1 .. n |-> Piece(s[i])]
<1>1. /\ n \in Nat /\ P \in Seq(Seq(V)) /\ Solid(s) = FlattenSeq(P) /\ Len(P) = n
      /\ Solid(s) \in Seq(V)
  <2>1. P \in Seq(Seq(V)) /\ Solid(s) = FlattenSeq(P) /\ Solid(s) \in Seq(V)
    BY PiecesAre
  <2> QED BY <2>1, LenProperties
<1>2. \A i \in 1 .. n : P[i] \in Seq(V) /\ Len(P[i]) <= 1
  <2> TAKE i \in 1 .. n
  <2>1. s[i] \in V
    BY <1>1, ElementOfSeq
  <2>2. P[i] = Piece(s[i])
    OBVIOUS
  <2> HIDE DEF P
  <2>3. CASE s[i] = "line"
    <3>1. P[i] = <<>>
      BY <2>2, <2>3 DEF Piece
    <3> QED BY <3>1
  <2>4. CASE s[i] # "line"
    <3>1. P[i] = <<s[i]>>
      BY <2>2, <2>4 DEF Piece
    <3> QED BY <2>1, <3>1
  <2> QED BY <2>3, <2>4
<1> HIDE DEF P, n
<1>3. PICK F \in [0 .. n -> Seq(V)] : Joined(F, P) /\ FlattenSeq(P) = F[n]
  BY <1>1, FlattenSteps
<1> DEFINE T == {k \in Nat : k <= n => Len(F[k]) <= k}
<1>4. 0 \in T
  BY <1>3 DEF Joined
<1>5. ASSUME NEW k \in Nat, k \in T PROVE k + 1 \in T
  <2> SUFFICES ASSUME k + 1 <= n PROVE Len(F[k + 1]) <= k + 1
    OBVIOUS
  <2> DEFINE p == k + 1
  <2>1. p \in 1 .. n /\ p - 1 = k /\ Len(F[k]) <= k /\ k \in 0 .. n
    BY <1>1, <1>5
  <2>2. F[p] = F[p - 1] \o P[p] /\ Len(P[p]) <= 1 /\ P[p] \in Seq(V) /\ F[k] \in Seq(V)
    BY <1>1, <1>2, <1>3, <2>1 DEF Joined
  <2>3. Len(F[p]) = Len(F[k]) + Len(P[p]) /\ Len(F[k]) \in Nat /\ Len(P[p]) \in Nat
    BY <2>1, <2>2, ConcatProperties, LenProperties
  <2>4. Len(F[p]) <= p
    BY <2>1, <2>2, <2>3
  <2> QED BY <2>4
<1> HIDE DEF T
<1>6. Nat \subseteq T
  BY <1>4, <1>5, NatInd
<1>7. Len(F[n]) <= n
  <2>1. n \in T /\ n <= n
    BY <1>1, <1>6
  <2> QED BY <2>1 DEF T
<1>8. Len(Solid(s)) \in Nat
  BY <1>1, LenProperties
<1> QED BY <1>1, <1>3, <1>7, <1>8 DEF n

(* The part of a sequence between two places.                              *)
LEMMA CutIs ==
  ASSUME NEW V, NEW s \in Seq(V), NEW a \in 1 .. Len(s) + 1, NEW b \in 0 .. Len(s), a <= b + 1
  PROVE  /\ SubSeq(s, a, b) \in Seq(V) /\ Len(SubSeq(s, a, b)) = b - a + 1
         /\ \A i \in 1 .. b - a + 1 : SubSeq(s, a, b)[i] = s[a + i - 1]
<1>1. Len(s) \in Nat /\ \A i \in 1 .. Len(s) : s[i] \in V
  BY LenProperties, ElementOfSeq
<1> QED BY <1>1

(* The ends of a set of places.                                            *)
LEMMA EndsOf ==
  ASSUME NEW n \in Nat, NEW S, S \subseteq 1 .. n, S # {}
  PROVE  Min(S) \in S /\ Max(S) \in S /\ \A x \in S : Min(S) <= x /\ x <= Max(S)
<1>1. \E x \in S : \A y \in S : x <= y
  <2>1. S \subseteq Nat
    OBVIOUS
  <2> QED BY <2>1, LeastOf
<1>2. Min(S) \in S /\ \A y \in S : Min(S) <= y
  BY <1>1 DEF Min
<1>3. \E x \in S : \A y \in S : x >= y
  <2> DEFINE R == {m \in Nat : \E x \in S : m = n - x}
  <2>1. R \subseteq Nat /\ R # {}
    <3>1. PICK x \in S : TRUE
      OBVIOUS
    <3>2. n - x \in R
      BY <3>1
    <3> QED BY <3>2
  <2>2. PICK m \in R : \A k \in R : m <= k
    <3> HIDE DEF R
    <3> QED BY <2>1, LeastOf
  <2>3. PICK x \in S : m = n - x
    OBVIOUS
  <2>4. ASSUME NEW y \in S PROVE x >= y
    <3>1. n - y \in R /\ x \in Int /\ y \in Int
      OBVIOUS
    <3> HIDE DEF R
    <3>2. m <= n - y
      BY <2>2, <3>1
    <3> QED BY <2>3, <3>1, <3>2
  <2> QED BY <2>4
<1>4. Max(S) \in S /\ \A y \in S : Max(S) >= y
  BY <1>3 DEF Max
<1> QED BY <1>2, <1>4

(* trim takes away line breaks only.                                       *)
LEMMA TrimKeeps ==
  ASSUME NEW V, NEW s \in Seq(V) PROVE TrimLines(s) \in Seq(V) /\ Solid(TrimLines(s)) = Solid(s)
<1> DEFINE n == Len(s)
           S == {j \in 1 .. n : s[j] # "line"}
<1>0. n \in Nat
  BY LenProperties
<1>1. CASE S = {}
  <2>1. TrimLines(s) = <<>> /\ \A i \in 1 .. n : s[i] = "line"
    BY <1>1 DEF TrimLines
  <2>2. Solid(s) = <<>>
    BY <2>1, SolidOfBreaks
  <2>3. <<>> \in Seq(V) /\ Len(<<>>) = 0 /\ \A i \in 1 .. Len(<<>>) : <<>>[i] = "line"
    OBVIOUS
  <2>4. Solid(<<>>) = <<>>
    BY <2>3, SolidOfBreaks
  <2> QED BY <2>1, <2>2, <2>3, <2>4
<1>2. CASE S # {}
  <2> DEFINE a == Min(S)
             b == Max(S)
  <2>1. TrimLines(s) = SubSeq(s, a, b)
    BY <1>2 DEF TrimLines
  <2>2. a \in S /\ b \in S /\ \A x \in S : a <= x /\ x <= b
    <3> HIDE DEF S
    <3> QED BY <1>0, <1>2, EndsOf DEF S
  <2> HIDE DEF a, b
  <2>3. a \in 1 .. n /\ b \in 1 .. n /\ a <= b /\ \A i \in 1 .. n : i < a \/ i > b => s[i] = "line"
    <3>1. a \in 1 .. n /\ b \in 1 .. n /\ a <= b
      BY <2>2
    <3>2. ASSUME NEW i \in 1 .. n, i < a \/ i > b PROVE s[i] = "line"
      <4>1. ~(a <= i /\ i <= b)
        BY <3>1, <3>2
      <4>2. i \notin S
        BY <2>2, <4>1
      <4> QED BY <4>2
    <3> QED BY <3>1, <3>2
  <2> HIDE DEF S
  <2> DEFINE l == SubSeq(s, 1, a - 1)
             m == SubSeq(s, a, b)
             r == SubSeq(s, b + 1, n)
             h == SubSeq(s, 1, b)
  <2>4. l \in Seq(V) /\ Len(l) = a - 1 /\ \A i \in 1 .. a - 1 : l[i] = s[i]
    BY <1>0, <2>3
  <2>5. r \in Seq(V) /\ Len(r) = n - b /\ \A i \in 1 .. n - b : r[i] = s[b + i]
    BY <1>0, <2>3
  <2>6. m \in Seq(V) /\ h \in Seq(V)
    BY <1>0, <2>3
  <2>7. l \o m = h
    <3>1. a - 1 \in Nat /\ b \in Nat /\ a - 1 <= b /\ b <= n /\ (a - 1) + 1 = a
      BY <1>0, <2>3
    <3>2. SubSeq(s, 1, a - 1) \o SubSeq(s, (a - 1) + 1, b) = SubSeq(s, 1, b)
      BY <3>1, CutsJoin
    <3> QED BY <3>1, <3>2
  <2>8. h \o r = s
    <3>1. SubSeq(s, 1, b) \o SubSeq(s, b + 1, n) = SubSeq(s, 1, n)
      BY <1>0, <2>3, CutsJoin
    <3>2. SubSeq(s, 1, n) = s
      BY <1>0
    <3> QED BY <3>1, <3>2
  <2>9. (\A i \in 1 .. Len(l) : l[i] = "line") /\ (\A i \in 1 .. Len(r) : r[i] = "line")
    <3>1. ASSUME NEW i \in 1 .. a - 1 PROVE s[i] = "line"
      BY <1>0, <2>3
    <3>2. ASSUME NEW i \in 1 .. n - b PROVE s[b + i] = "line"
      <4>1. b + i \in 1 .. n /\ b + i > b
        BY <1>0, <2>3
      <4> QED BY <2>3, <4>1
    <3> HIDE DEF l, r
    <3> QED BY <2>4, <2>5, <3>1, <3>2
  <2> HIDE DEF l, m, r, h
  <2>10. Solid(l) = <<>> /\ Solid(r) = <<>>
    BY <2>4, <2>5, <2>9, SolidOfBreaks
  <2>11. Solid(h) = Solid(l) \o Solid(m) /\ Solid(s) = Solid(h) \o Solid(r)
    BY <2>4, <2>5, <2>6, <2>7, <2>8, SolidJoins
  <2>12. Solid(m) \in Seq(V) /\ Solid(h) \in Seq(V)
    BY <2>6, PiecesAre
  <2>13. Solid(h) = Solid(m)
    BY <2>10, <2>11, <2>12, ConcatEmptySeq
  <2>14. Solid(s) = Solid(h)
    BY <2>10, <2>11, <2>12, ConcatEmptySeq
  <2> QED BY <2>1, <2>6, <2>13, <2>14 DEF m
<1> QED BY <1>1, <1>2

(* The markers stand in the text, one after the other.                     *)
Rising(q, k) == \A i, j \in 1 .. Len(q) : q[i] \in 1 .. k /\ (i < j => q[i] < q[j])

LEMMA HeadsEnd == ASSUME NEW V, NEW text \in Seq(V), NEW i \in 1 .. Len(text) PROVE HeadEnd(text, i) \in Int
<1> DEFINE n == Len(text)
           S == {i + HeadMax, n} \cup {j - 1 : j \in {j \in i .. n : text[j] = "line"}}
<1>1. n \in Nat /\ HeadMax \in Nat
  BY LenProperties, ParserAssumption
<1>2. S \subseteq Nat /\ S # {}
  BY <1>1
<1>3. HeadEnd(text, i) = Min(S)
  BY DEF HeadEnd
<1> HIDE DEF S
<1>4. \E x \in S : \A y \in S : x <= y
  BY <1>2, LeastOf
<1>5. Min(S) \in S
  BY <1>4 DEF Min
<1>6. Min(S) \in Nat
  BY <1>2, <1>5
<1> QED BY <1>3, <1>6

LEMMA MarkersRise ==
  ASSUME NEW V, NEW text \in Seq(V)
  PROVE  Markers(text) \in Seq(Nat) /\ Rising(Markers(text), Len(text))
<1> DEFINE n == Len(text)
           R == [last : Int, at : Seq(Nat)]
           fresh(i) == IF text[i] = "mark" THEN <<i>> ELSE <<>>
           Is(H) == H = [i \in 0 .. n |->
                           IF i = 0 THEN [last |-> 0, at |-> <<>>]
                           ELSE IF i <= H[i - 1].last \/ text[i] \notin Marks THEN H[i - 1]
                                ELSE [last |-> HeadEnd(text, i), at |-> H[i - 1].at \o fresh(i)]]
           F == CHOOSE H : Is(H)
           b == [last |-> 0, at |-> <<>>]
           g == [p \in (1 .. n) \X R |->
                   IF p[1] <= p[2].last \/ text[p[1]] \notin Marks THEN p[2]
                   ELSE [last |-> HeadEnd(text, p[1]), at |-> p[2].at \o fresh(p[1])]]
<1>0. n \in Nat
  BY LenProperties
<1>1. Markers(text) = F[n].at
  BY DEF Markers
<1>2. \A k \in 1 .. n, v \in R :
        g[<<k, v>>] = IF k <= v.last \/ text[k] \notin Marks THEN v
                      ELSE [last |-> HeadEnd(text, k), at |-> v.at \o fresh(k)]
  OBVIOUS
<1>3. b \in R
  OBVIOUS
<1>4. \A k \in 1 .. n : fresh(k) \in Seq(Nat) /\ (fresh(k) = <<>> \/ fresh(k) = <<k>>)
  OBVIOUS
<1> HIDE DEF g, fresh
<1>5. \A k \in 1 .. n, v \in R : g[<<k, v>>] \in R
  <2> TAKE k \in 1 .. n, v \in R
  <2>1. HeadEnd(text, k) \in Int
    BY HeadsEnd
  <2>2. v.at \o fresh(k) \in Seq(Nat)
    BY <1>4, ConcatProperties
  <2> DEFINE q == v.at \o fresh(k)
             e == HeadEnd(text, k)
  <2>3. q \in Seq(Nat) /\ e \in Int
    BY <2>1, <2>2
  <2>4. g[<<k, v>>] = v \/ g[<<k, v>>] = [last |-> e, at |-> q]
    BY <1>2
  <2> HIDE DEF q, e
  <2>5. [last |-> e, at |-> q] \in R
    BY <2>3
  <2> QED BY <2>4, <2>5
<1>6. \E H : Is(H)
  <2> HIDE DEF R
  <2>1. PICK G \in [0 .. n -> R] : Recurs(G, n, b, g)
    <3> HIDE DEF n, b
    <3> QED BY <1>0, <1>3, <1>5, RecursExists
  <2> DEFINE H == [i \in 0 .. n |->
                     IF i = 0 THEN [last |-> 0, at |-> <<>>]
                     ELSE IF i <= G[i - 1].last \/ text[i] \notin Marks THEN G[i - 1]
                          ELSE [last |-> HeadEnd(text, i), at |-> G[i - 1].at \o fresh(i)]]
  <2>2. \A k \in 0 .. n : G[k] = H[k]
    <3> TAKE k \in 0 .. n
    <3>1. CASE k = 0
      BY <2>1, <3>1 DEF Recurs
    <3>2. CASE k # 0
      <4>1. k \in 1 .. n /\ k - 1 \in 0 .. n
        BY <1>0, <3>2
      <4>2. G[k] = g[<<k, G[k - 1]>>] /\ G[k - 1] \in R
        BY <2>1, <4>1 DEF Recurs
      <4> QED BY <1>2, <3>2, <4>1, <4>2
    <3> QED BY <3>1, <3>2
  <2>3. G = H
    BY <2>2
  <2> QED BY <2>3
<1>7. Is(F)
  <2> HIDE DEF Is
  <2> QED BY <1>6
<1> HIDE DEF F
<1>8. F \in [0 .. n -> R] /\ Recurs(F, n, b, g)
  <2>1. F = [k \in 0 .. n |-> F[k]]
    BY <1>7
  <2>2. F[0] = b
    BY <1>0, <1>7
  <2>3. ASSUME NEW k \in 1 .. n, F[k - 1] \in R PROVE F[k] = g[<<k, F[k - 1]>>]
    <3>1. k \in 0 .. n /\ k # 0
      BY <1>0
    <3>2. F[k] = IF k <= F[k - 1].last \/ text[k] \notin Marks THEN F[k - 1]
                 ELSE [last |-> HeadEnd(text, k), at |-> F[k - 1].at \o fresh(k)]
      BY <1>7, <3>1
    <3> HIDE DEF R
    <3> QED BY <1>2, <2>3, <3>2
  <2>4. \A k \in 1 .. n : F[k - 1] \in R => F[k] = g[<<k, F[k - 1]>>]
    BY <2>3
  <2>5. Stays(g, n, R) /\ TakesSteps(F, n, b, g, R)
    <3> HIDE DEF R, n, b
    <3> QED BY <1>5, <2>1, <2>2, <2>4 DEF Stays, TakesSteps
  <2> HIDE DEF R, n, b
  <2> QED BY <1>0, <1>3, <2>5, RecursOnly
<1> HIDE DEF Is
<1> DEFINE T == {k \in Nat : k <= n => Rising(F[k].at, k)}
<1>9. 0 \in T
  <2>1. F[0].at = <<>>
    BY <1>8 DEF Recurs
  <2> QED BY <2>1 DEF Rising
<1>10. ASSUME NEW k \in Nat, k \in T PROVE k + 1 \in T
  <2> DEFINE p == k + 1
  <2> SUFFICES ASSUME p <= n PROVE Rising(F[p].at, p)
    OBVIOUS
  <2>1. p \in 1 .. n /\ p - 1 = k /\ k \in 0 .. n /\ Rising(F[k].at, k)
    BY <1>0, <1>10
  <2>2. F[k] \in R /\ F[p] = g[<<p, F[k]>>]
    <3>1. F[p] = g[<<p, F[p - 1]>>]
      BY <1>8, <2>1 DEF Recurs
    <3> QED BY <1>8, <2>1, <3>1
  <2> DEFINE q == F[k].at
  <2>3. q \in Seq(Nat) /\ Len(q) \in Nat /\ \A i \in 1 .. Len(q) : q[i] \in Nat
    BY <2>2, LenProperties, ElementOfSeq
  <2>4. F[p].at = q \/ F[p].at = q \o fresh(p)
    <3> DEFINE e == HeadEnd(text, p)
               w == F[k].at \o fresh(p)
    <3>1. F[p] = F[k] \/ F[p] = [last |-> e, at |-> w]
      BY <1>2, <2>1, <2>2
    <3> HIDE DEF e, w
    <3>2. F[p].at = F[k].at \/ F[p].at = w
      BY <3>1
    <3> QED BY <3>2 DEF w
  <2>5. F[p].at = q \/ F[p].at = q \o <<p>>
    <3>1. q \o <<>> = q
      BY <2>3, ConcatEmptySeq
    <3> QED BY <1>4, <2>1, <2>4, <3>1
  <2>6. Rising(q, k)
    BY <2>1
  <2>7. p = k + 1 /\ p \in Nat
    OBVIOUS
  <2> HIDE DEF q, p
  <2>8. CASE F[p].at = q
    BY <2>3, <2>6, <2>7, <2>8 DEF Rising
  <2>9. CASE F[p].at = q \o <<p>>
    <3> DEFINE w == q \o <<p>>
    <3>1. <<p>> \in Seq(Nat) /\ Len(<<p>>) = 1 /\ <<p>>[1] = p
      BY <2>7
    <3>2. Len(w) = Len(q) + 1 /\ \A i \in 1 .. Len(q) + 1 : w[i] = IF i <= Len(q) THEN q[i] ELSE <<p>>[i - Len(q)]
      BY <2>3, <3>1, ConcatProperties
    <3>3. \A i \in 1 .. Len(q) : w[i] = q[i] /\ q[i] \in 1 .. k
      BY <2>3, <2>6, <3>2 DEF Rising
    <3>4. w[Len(q) + 1] = p
      BY <2>3, <3>1, <3>2
    <3> HIDE DEF w
    <3>5. ASSUME NEW i \in 1 .. Len(w), NEW j \in 1 .. Len(w) PROVE w[i] \in 1 .. p /\ (i < j => w[i] < w[j])
      <4>1. CASE i \in 1 .. Len(q)
        <5>1. w[i] = q[i] /\ q[i] \in 1 .. k
          BY <3>3, <4>1
        <5>2. CASE j \in 1 .. Len(q)
          BY <2>6, <2>7, <3>3, <4>1, <5>1, <5>2 DEF Rising
        <5>3. CASE j = Len(q) + 1
          BY <2>7, <3>4, <5>1, <5>3
        <5> QED BY <2>3, <3>2, <5>2, <5>3
      <4>2. CASE i = Len(q) + 1
        BY <2>3, <2>7, <3>2, <3>4, <4>2
      <4> QED BY <2>3, <3>2, <4>1, <4>2
    <3>6. Rising(w, p)
      BY <3>5 DEF Rising
    <3> QED BY <2>9, <3>6 DEF w
  <2> QED BY <2>5, <2>8, <2>9
<1> HIDE DEF T
<1>11. Nat \subseteq T
  BY <1>9, <1>10, NatInd
<1>12. Rising(F[n].at, n)
  <2>1. n \in T /\ n <= n
    BY <1>0, <1>11
  <2> QED BY <2>1 DEF T
<1>13. F[n].at \in Seq(Nat)
  BY <1>0, <1>8
<1> QED BY <1>1, <1>12, <1>13

(* The numbered clauses, put together, are the text from the first marker. *)
EndsIn(text, q) == [i \in 1 .. Len(q) |-> IF i = Len(q) THEN Len(text) ELSE q[i + 1] - 1]
BodiesIn(text, q) == [i \in 1 .. Len(q) |-> TrimLines(SubSeq(text, q[i], EndsIn(text, q)[i]))]
Opening(text, q) == SubSeq(text, 1, q[1] - 1)

LEMMA ClausesCover ==
  ASSUME NEW V, NEW text \in Seq(V), NEW q \in Seq(Nat), q # <<>>, Rising(q, Len(text))
  PROVE  /\ BodiesIn(text, q) \in Seq(Seq(V)) /\ Opening(text, q) \in Seq(V)
         /\ Join(Solid(Opening(text, q)), Solid(FlattenSeq(BodiesIn(text, q)))) = Solid(text)
<1> DEFINE k == Len(q)
           N == BodiesIn(text, q)
           ends == EndsIn(text, q)
<1>0. /\ k \in Nat /\ ends = [i \in 1 .. k |-> IF i = k THEN Len(text) ELSE q[i + 1] - 1]
      /\ N = [i \in 1 .. k |-> TrimLines(SubSeq(text, q[i], ends[i]))]
  BY LenProperties DEF BodiesIn, EndsIn
<1> HIDE DEF N, ends
<1> DEFINE n == Len(text)
           upto(i) == IF i = k THEN n ELSE q[i + 1] - 1
           w(i) == SubSeq(text, 1, upto(i))
           cut(i) == SubSeq(text, q[i], upto(i))
<1>1. n \in Nat /\ k >= 1 /\ \A i \in 1 .. k : q[i] \in 1 .. n
  <2>1. k # 0
    BY EmptySeq
  <2> QED BY <1>0, <2>1, LenProperties DEF Rising
<1>2. \A i \in 0 .. k : upto(i) \in 0 .. n /\ w(i) \in Seq(V)
  <2> TAKE i \in 0 .. k
  <2>1. upto(i) \in 0 .. n
    <3>1. CASE i = k
      BY <1>1, <3>1
    <3>2. CASE i # k
      <4>1. i + 1 \in 1 .. k
        BY <3>2
      <4> QED BY <1>1, <3>2, <4>1
    <3> QED BY <3>1, <3>2
  <2> HIDE DEF upto
  <2> QED BY <1>1, <2>1
<1>3. ASSUME NEW i \in 1 .. k
      PROVE  q[i] - 1 = upto(i - 1) /\ upto(i - 1) <= upto(i) /\ i - 1 \in 0 .. k /\ q[i] \in 1 .. n
  <2>1. i - 1 # k /\ (i - 1) + 1 = i /\ i - 1 \in 0 .. k /\ q[i] \in 1 .. n
    BY <1>1
  <2>2. upto(i - 1) = q[i] - 1
    BY <2>1
  <2>3. upto(i - 1) <= upto(i)
    <3>1. CASE i = k
      <4>1. upto(i) = n
        BY <3>1
      <4> HIDE DEF upto
      <4> QED BY <1>1, <2>1, <2>2, <4>1
    <3>2. CASE i # k
      <4>1. i + 1 \in 1 .. k /\ i < i + 1
        BY <3>2
      <4>2. q[i] < q[i + 1] /\ upto(i) = q[i + 1] - 1 /\ q[i + 1] \in 1 .. n
        BY <1>1, <3>2, <4>1 DEF Rising
      <4> HIDE DEF upto
      <4> QED BY <2>1, <2>2, <4>2
    <3> QED BY <3>1, <3>2
  <2> QED BY <2>1, <2>2, <2>3
<1>4. ASSUME NEW i \in 1 .. k PROVE N[i] = TrimLines(cut(i))
  <2>1. ends[i] = upto(i) /\ N[i] = TrimLines(SubSeq(text, q[i], ends[i]))
    BY <1>0
  <2> QED BY <2>1
<1> HIDE DEF upto
<1>5. ASSUME NEW i \in 1 .. k
      PROVE  /\ cut(i) \in Seq(V) /\ w(i - 1) \o cut(i) = w(i)
             /\ N[i] \in Seq(V) /\ Solid(N[i]) = Solid(cut(i))
  <2>1. q[i] = upto(i - 1) + 1 /\ upto(i - 1) \in Nat /\ upto(i) \in Nat /\ upto(i) <= n /\ upto(i - 1) <= upto(i)
    BY <1>1, <1>2, <1>3
  <2>2. cut(i) \in Seq(V)
    BY <1>1, <1>3, <2>1
  <2>3. SubSeq(text, 1, upto(i - 1)) \o SubSeq(text, upto(i - 1) + 1, upto(i)) = SubSeq(text, 1, upto(i))
    BY <2>1, CutsJoin
  <2>4. w(i - 1) \o cut(i) = w(i)
    BY <2>1, <2>3
  <2> HIDE DEF cut, w
  <2> QED BY <1>4, <2>2, <2>4, TrimKeeps
<1>6. N \in Seq(Seq(V)) /\ Len(N) = k
  BY <1>0, <1>5
<1>7. w(0) = SubSeq(text, 1, q[1] - 1)
  <2>1. q[1] - 1 = upto(1 - 1) /\ 1 - 1 = 0
    BY <1>1, <1>3
  <2> QED BY <2>1
<1> HIDE DEF w, cut
<1>8. PICK F \in [0 .. k -> Seq(V)] : Joined(F, N) /\ FlattenSeq(N) = F[k]
  BY <1>6, FlattenSteps
<1>9. w(0) \in Seq(V) /\ Solid(w(0)) \in Seq(V)
  <2>1. w(0) \in Seq(V)
    BY <1>1, <1>2
  <2> QED BY <2>1, PiecesAre
<1> DEFINE T == {j \in Nat : j <= k => Solid(w(0)) \o Solid(F[j]) = Solid(w(j))}
<1>10. 0 \in T
  <2>1. F[0] = <<>>
    BY <1>8 DEF Joined
  <2>2. <<>> \in Seq(V) /\ Len(<<>>) = 0 /\ \A i \in 1 .. Len(<<>>) : <<>>[i] = "line"
    OBVIOUS
  <2>3. Solid(<<>>) = <<>>
    BY <2>2, SolidOfBreaks
  <2>4. Solid(w(0)) \o <<>> = Solid(w(0))
    BY <1>9, ConcatEmptySeq
  <2> QED BY <2>1, <2>3, <2>4
<1>11. ASSUME NEW j \in Nat, j \in T PROVE j + 1 \in T
  <2> DEFINE p == j + 1
  <2> SUFFICES ASSUME p <= k PROVE Solid(w(0)) \o Solid(F[p]) = Solid(w(p))
    OBVIOUS
  <2>1. p \in 1 .. k /\ p - 1 = j /\ j \in 0 .. k /\ Solid(w(0)) \o Solid(F[j]) = Solid(w(j))
    BY <1>11
  <2> HIDE DEF p, T
  <2>2. F[p] = F[j] \o N[p] /\ F[j] \in Seq(V) /\ N[p] \in Seq(V)
    BY <1>5, <1>6, <1>8, <2>1 DEF Joined
  <2>3. Solid(F[p]) = Solid(F[j]) \o Solid(N[p]) /\ Solid(F[j]) \in Seq(V) /\ Solid(N[p]) \in Seq(V)
    <3>1. Solid(F[j] \o N[p]) = Solid(F[j]) \o Solid(N[p])
      BY <2>2, SolidJoins
    <3>2. Solid(F[j]) \in Seq(V) /\ Solid(N[p]) \in Seq(V)
      BY <2>2, PiecesAre
    <3> QED BY <2>2, <3>1, <3>2
  <2>4. w(p) = w(j) \o cut(p) /\ w(j) \in Seq(V) /\ cut(p) \in Seq(V) /\ Solid(N[p]) = Solid(cut(p))
    BY <1>2, <1>5, <2>1
  <2>5. Solid(w(p)) = Solid(w(j)) \o Solid(cut(p))
    BY <2>4, SolidJoins
  <2> DEFINE x == Solid(w(0))
             y == Solid(F[j])
             z == Solid(N[p])
  <2>6. x \in Seq(V) /\ y \in Seq(V) /\ z \in Seq(V)
    BY <1>9, <2>3
  <2>7. Solid(w(p)) = Join(Join(x, y), z) /\ Solid(F[p]) = Join(y, z)
    BY <2>1, <2>3, <2>4, <2>5 DEF Join
  <2> HIDE DEF x, y, z
  <2>8. Join(Join(x, y), z) = Join(x, Join(y, z))
    BY <2>6, JoinThree
  <2>9. Join(x, Solid(F[p])) = Solid(w(p))
    BY <2>7, <2>8
  <2>10. x \o Solid(F[p]) = Solid(w(p))
    BY <2>9 DEF Join
  <2> QED BY <2>10 DEF x
<1> HIDE DEF T
<1>12. Nat \subseteq T
  BY <1>10, <1>11, NatInd
<1>13. Solid(w(0)) \o Solid(F[k]) = Solid(w(k))
  <2>1. k \in T /\ k <= k
    BY <1>12
  <2> QED BY <2>1 DEF T
<1>14. w(k) = text
  <2>1. w(k) = SubSeq(text, 1, n)
    BY DEF w, upto
  <2> QED BY <1>1, <2>1
<1> QED BY <1>6, <1>7, <1>8, <1>9, <1>13, <1>14 DEF Join, N, Opening

(* What the clauses of a text hold.                                        *)
IsRow(c) == c = [title |-> c.title, content |-> c.content, type |-> c.type]
ContentsOf(cl) == [i \in 1 .. Len(cl) |-> cl[i].content]
Complete(text, joined) ==
  LET marks == Markers(text)
      lost  == IF marks = <<>> THEN <<>> ELSE Solid(SubSeq(text, 1, marks[1] - 1))
  IN  \/ joined = Solid(text)
      \/ Len(lost) < PreambleMin /\ lost \o joined = Solid(text)

LEMMA RowIs == ASSUME NEW t, NEW c, NEW y PROVE
  /\ IsRow([title |-> t, content |-> c, type |-> y]) /\ [title |-> t, content |-> c, type |-> y].content = c
BY DEF IsRow

LEMMA SplitIsComplete ==
  ASSUME NEW V, NEW text \in Seq(V)
  PROVE  /\ Len(SplitClauses(text)) \in Nat /\ \A i \in 1 .. Len(SplitClauses(text)) : IsRow(SplitClauses(text)[i])
         /\ SplitClauses(text) # <<>> => Complete(text, Solid(FlattenSeq(ContentsOf(SplitClauses(text)))))
<1> DEFINE q == Markers(text)
           k == Len(q)
           n == Len(text)
           ends == EndsIn(text, q)
           body(i) == TrimLines(SubSeq(text, q[i], ends[i]))
           row(i) == Clause(TitleAt(text, q[i]), body(i))
           numbered == [i \in 1 .. k |-> row(i)]
           N == BodiesIn(text, q)
           preamble == IF q = <<>> THEN <<>> ELSE TrimLines(SubSeq(text, 1, q[1] - 1))
           first == [title |-> <<"parties">>, content |-> preamble, type |-> "PARTIES"]
           opening == IF Len(preamble) >= PreambleMin THEN <<first>> ELSE <<>>
           whole == [title |-> <<"whole">>, content |-> TrimLines(text), type |-> "OTHER"]
           cl == SplitClauses(text)
<1>1. q \in Seq(Nat) /\ Rising(q, n) /\ k \in Nat
  BY MarkersRise, LenProperties
<1>2. cl = IF q # <<>> THEN opening \o numbered
           ELSE IF TrimLines(text) = <<>> THEN <<>> ELSE <<whole>>
  BY DEF SplitClauses, EndsIn
<1>3. \A i \in 1 .. k : numbered[i] = row(i) /\ N[i] = body(i)
  BY DEF BodiesIn
<1>4. \A i \in 1 .. k : IsRow(row(i)) /\ row(i).content = body(i)
  <2> HIDE DEF body
  <2> QED BY RowIs DEF Clause
<1>5. IsRow(whole) /\ whole.content = TrimLines(text)
  BY RowIs
<1>6. IsRow(first) /\ first.content = preamble
  BY RowIs
<1>7. Len(numbered) = k /\ Len(N) = k
  BY <1>1 DEF BodiesIn
<1> HIDE DEF cl, row, body, first, whole, numbered
<1>8. CASE q = <<>> /\ TrimLines(text) = <<>>
  <2>1. cl = <<>>
    BY <1>2, <1>8
  <2> QED BY <2>1 DEF cl
<1>9. CASE q = <<>> /\ TrimLines(text) # <<>>
  <2>1. cl = <<whole>>
    BY <1>2, <1>9
  <2>2. Len(cl) = 1 /\ cl[1] = whole
    BY <2>1
  <2>3. ContentsOf(cl) = <<TrimLines(text)>>
    BY <1>5, <2>2 DEF ContentsOf
  <2>4. Solid(FlattenSeq(ContentsOf(cl))) = Solid(text)
    BY <2>3, FlattenOne, TrimKeeps
  <2>5. Len(cl) \in Nat /\ \A i \in 1 .. Len(cl) : IsRow(cl[i])
    BY <1>5, <2>2
  <2>6. Complete(text, Solid(FlattenSeq(ContentsOf(cl))))
    BY <2>4 DEF Complete
  <2> QED BY <2>5, <2>6 DEF cl
<1>10. CASE q # <<>>
  <2> DEFINE l == SubSeq(text, 1, q[1] - 1)
  <2>1. /\ N \in Seq(Seq(V)) /\ l \in Seq(V)
        /\ Solid(l) \o Solid(FlattenSeq(N)) = Solid(text)
    <3>1. q \in Seq(Nat) /\ q # <<>> /\ Rising(q, Len(text))
      BY <1>1, <1>10
    <3> HIDE DEF q
    <3>2. N \in Seq(Seq(V)) /\ l \in Seq(V) /\ Join(Solid(l), Solid(FlattenSeq(N))) = Solid(text)
      BY <3>1, ClausesCover DEF Opening
    <3> QED BY <3>2 DEF Join
  <2>2. preamble = TrimLines(l)
    BY <1>10
  <2> HIDE DEF N, preamble, l
  <2>3. preamble \in Seq(V) /\ Solid(preamble) = Solid(l)
    BY <2>1, <2>2, TrimKeeps
  <2>4. FlattenSeq(N) \in Seq(V) /\ Solid(l) \in Seq(V)
    BY <2>1, FlattenInSeq, PiecesAre
  <2>5. CASE Len(preamble) >= PreambleMin
    <3>1. cl = <<first>> \o numbered
      BY <1>2, <1>10, <2>5
    <3>2. Len(cl) = k + 1 /\ cl[1] = first /\ \A i \in 1 .. k : cl[i + 1] = row(i)
      <4>1. cl = <<first>> \o numbered /\ Len(<<first>>) = 1 /\ <<first>>[1] = first
        BY <3>1
      <4>2. Len(cl) = 1 + k
        BY <1>1, <1>7, <4>1 DEF numbered
      <4>3. cl[1] = first
        BY <1>1, <1>7, <4>1 DEF numbered
      <4>4. \A i \in 1 .. k : cl[i + 1] = numbered[i]
        BY <1>1, <1>7, <4>1 DEF numbered
      <4> QED BY <1>1, <1>3, <4>2, <4>3, <4>4
    <3>3. \A i \in 1 .. Len(cl) : IsRow(cl[i])
      <4> TAKE i \in 1 .. Len(cl)
      <4>1. CASE i = 1
        BY <1>6, <3>2, <4>1
      <4>2. CASE i # 1
        <5>1. i - 1 \in 1 .. k /\ (i - 1) + 1 = i
          BY <1>1, <3>2, <4>2
        <5>2. cl[i] = row(i - 1)
          BY <3>2, <5>1
        <5> QED BY <1>4, <5>1, <5>2
      <4> QED BY <4>1, <4>2
    <3>4. ContentsOf(cl) = <<preamble>> \o N
      <4> DEFINE K == ContentsOf(cl)
                 G == <<preamble>> \o N
      <4>1. <<preamble>> \in Seq(Seq(V)) /\ Len(<<preamble>>) = 1 /\ <<preamble>>[1] = preamble
        BY <2>3
      <4>2. /\ G \in Seq(Seq(V)) /\ Len(G) = 1 + k
            /\ \A i \in 1 .. 1 + k : G[i] = IF i <= 1 THEN <<preamble>>[i] ELSE N[i - 1]
        <5> DEFINE x == <<preamble>>
        <5>1. x \in Seq(Seq(V)) /\ Len(x) = 1
          BY <4>1
        <5> HIDE DEF x, k
        <5>2. /\ x \o N \in Seq(Seq(V)) /\ Len(x \o N) = Len(x) + Len(N)
              /\ \A i \in 1 .. Len(x) + Len(N) : (x \o N)[i] = IF i <= Len(x) THEN x[i] ELSE N[i - Len(x)]
          BY <2>1, <5>1, ConcatProperties, ZenonT(30)
        <5>3. /\ x \o N \in Seq(Seq(V)) /\ Len(x \o N) = 1 + k
              /\ \A i \in 1 .. 1 + k : (x \o N)[i] = IF i <= 1 THEN x[i] ELSE N[i - 1]
          BY <1>7, <5>1, <5>2
        <5> QED BY <5>3 DEF x
      <4>3. ASSUME NEW i \in 1 .. k + 1 PROVE K[i] = G[i]
        <5>0. K[i] = cl[i].content /\ i \in 1 .. 1 + k
          BY <1>1, <3>2 DEF ContentsOf
        <5> HIDE DEF K, G
        <5>1. CASE i = 1
          <6>1. G[1] = preamble
            BY <1>1, <4>1, <4>2
          <6> QED BY <1>6, <3>2, <5>0, <5>1, <6>1
        <5>2. CASE i # 1
          <6>1. i - 1 \in 1 .. k /\ (i - 1) + 1 = i /\ ~(i <= 1)
            BY <1>1, <5>2
          <6>2. cl[i] = row(i - 1) /\ G[i] = N[i - 1]
            BY <3>2, <4>2, <5>0, <6>1
          <6> QED BY <1>3, <1>4, <5>0, <6>1, <6>2
        <5> QED BY <5>1, <5>2
      <4>4. K = [i \in 1 .. k + 1 |-> K[i]]
        BY <3>2 DEF ContentsOf
      <4>5. G = [i \in 1 .. k + 1 |-> G[i]]
        <5> HIDE DEF G
        <5>1. G = [i \in 1 .. Len(G) |-> G[i]] /\ 1 + k = k + 1
          BY <1>1, <4>2
        <5> QED BY <4>2, <5>1
      <4> HIDE DEF K, G
      <4>6. K = G
        BY <4>3, <4>4, <4>5
      <4> QED BY <4>6 DEF K, G
    <3>5. FlattenSeq(ContentsOf(cl)) = preamble \o FlattenSeq(N)
      <4>1. <<preamble>> \in Seq(Seq(V))
        BY <2>3
      <4>2. FlattenSeq(<<preamble>> \o N) = FlattenSeq(<<preamble>>) \o FlattenSeq(N)
        BY <2>1, <4>1, FlattenJoins
      <4> QED BY <3>4, <4>2, FlattenOne
    <3>6. Solid(FlattenSeq(ContentsOf(cl))) = Solid(text)
      BY <2>1, <2>3, <2>4, <3>5, SolidJoins
    <3>7. Len(cl) \in Nat
      BY <1>1, <3>2
    <3> QED BY <3>3, <3>6, <3>7 DEF Complete, cl
  <2>6. CASE ~(Len(preamble) >= PreambleMin)
    <3>1. cl = <<>> \o numbered
      BY <1>2, <1>10, <2>6
    <3>2. cl = numbered
      BY <1>1, <1>7, <3>1 DEF numbered
    <3>3. Len(cl) = k /\ \A i \in 1 .. k : cl[i] = row(i)
      BY <1>3, <1>7, <3>2
    <3>4. ContentsOf(cl) = N
      <4>1. \A i \in 1 .. k : cl[i].content = N[i]
        BY <1>3, <1>4, <3>3
      <4>2. N = [i \in 1 .. k |-> N[i]]
        BY DEF N, BodiesIn
      <4> QED BY <3>3, <4>1, <4>2 DEF ContentsOf
    <3>5. Len(Solid(l)) < PreambleMin
      <4>1. Len(Solid(preamble)) <= Len(preamble) /\ Len(Solid(preamble)) \in Nat /\ Len(preamble) \in Nat
        BY <2>3, SolidShort, LenProperties
      <4> QED BY <2>3, <2>6, <4>1, ParserAssumption
    <3>6. Complete(text, Solid(FlattenSeq(ContentsOf(cl))))
      BY <1>10, <2>1, <3>4, <3>5 DEF Complete, l
    <3>7. Len(cl) \in Nat /\ \A i \in 1 .. Len(cl) : IsRow(cl[i])
      BY <1>1, <1>4, <3>3
    <3> QED BY <3>6, <3>7 DEF cl
  <2> QED BY <2>5, <2>6
<1> QED BY <1>8, <1>9, <1>10

---------------------------------------------------------------------------------
(* The numbers below a hundred, as they are written and read.              *)
LEMMA FirstIs ==
  ASSUME NEW n \in Nat, NEW k \in 1 .. n, NEW S, S \subseteq 1 .. n, k \in S, \A j \in S : k <= j
  PROVE  Min(S) = k
<1>1. \A x \in S : (\A y \in S : x <= y) => x = k
  OBVIOUS
<1> QED BY <1>1 DEF Min

(* cnToInt, the place of the ten and what follows it given.                *)
ReadAs(s, tens, rest) ==
  LET ones == IF rest = <<>> THEN 0 ELSE IF Len(rest) = 1 THEN rest[1] ELSE -1
  IN CASE s = <<>> -> -1
       [] tens = 1 -> Ten + (IF ones = -1 THEN 0 ELSE ones)
       [] tens > 1 -> IF ones = -1 THEN -1 ELSE s[tens - 1] * Ten + ones
       [] tens = 0 /\ Len(s) = 1 -> s[1]
       [] OTHER -> -1

LEMMA CnReads ==
  ASSUME NEW s, NEW tens, NEW T, T = {i \in 1 .. Len(s) : s[i] = Ten},
         tens = IF T # {} THEN Min(T) ELSE 0
  PROVE  CnToInt(s) = ReadAs(s, tens, SubSeq(s, tens + 1, Len(s)))
BY DEF CnToInt, SelectInSeq, ReadAs

LEMMA JoinsShort ==
  ASSUME NEW a \in Nat, NEW b \in Nat, NEW c \in Nat
  PROVE  /\ <<a>> \o <<b>> = <<a, b>> /\ <<a, b>> \o <<c>> = <<a, b, c>>
         /\ <<a, b>> \o <<>> = <<a, b>> /\ <<a>> \o <<>> = <<a>> /\ <<>> \o <<a>> = <<a>>
<1>1. <<a>> \in Seq(Nat) /\ <<a, b>> \in Seq(Nat)
  OBVIOUS
<1>2. <<a, b>> \o <<>> = <<a, b>> /\ <<a>> \o <<>> = <<a>> /\ <<>> \o <<a>> = <<a>>
  BY <1>1, ConcatEmptySeq
<1>3. <<a>> \o <<b>> = <<a, b>>
  <2> DEFINE x == <<a>> \o <<b>>
             y == <<a, b>>
  <2>1. x \in Seq(Nat) /\ y \in Seq(Nat) /\ Len(x) = 2 /\ Len(y) = 2 /\ x[1] = y[1] /\ x[2] = y[2]
    OBVIOUS
  <2> HIDE DEF x, y
  <2>2. \A i \in 1 .. Len(x) : x[i] = y[i]
    <3>1. \A i \in 1 .. Len(x) : i = 1 \/ i = 2
      BY <2>1
    <3> QED BY <2>1, <3>1
  <2>3. x = y
    BY <2>1, <2>2, SeqEqual
  <2> QED BY <2>3 DEF x, y
<1>4. <<a, b>> \o <<c>> = <<a, b, c>>
  <2> DEFINE x == <<a, b>> \o <<c>>
             y == <<a, b, c>>
  <2>1. /\ x \in Seq(Nat) /\ y \in Seq(Nat) /\ Len(x) = 3 /\ Len(y) = 3
        /\ x[1] = y[1] /\ x[2] = y[2] /\ x[3] = y[3]
    OBVIOUS
  <2> HIDE DEF x, y
  <2>2. \A i \in 1 .. Len(x) : x[i] = y[i]
    <3>1. \A i \in 1 .. Len(x) : i = 1 \/ i = 2 \/ i = 3
      BY <2>1
    <3> QED BY <2>1, <3>1
  <2>3. x = y
    BY <2>1, <2>2, SeqEqual
  <2> QED BY <2>3 DEF x, y
<1> QED BY <1>2, <1>3, <1>4

(* The end of a short list.                                                *)
LEMMA LastIs ==
  ASSUME NEW V, NEW s \in Seq(V), NEW k \in Nat \ {0}, k = Len(s)
  PROVE  SubSeq(s, k, k) = <<s[k]>> /\ SubSeq(s, k + 1, k) = <<>>
<1> DEFINE x == SubSeq(s, k, k)
           y == <<s[k]>>
<1>1. s[k] \in V
  BY ElementOfSeq
<1>2. x \in Seq(V) /\ y \in Seq(V) /\ Len(x) = 1 /\ Len(y) = 1 /\ x[1] = y[1]
  BY <1>1
<1> HIDE DEF x, y
<1>3. \A i \in 1 .. Len(x) : x[i] = y[i]
  BY <1>2
<1>4. x = y
  BY <1>2, <1>3, SeqEqual
<1> QED BY <1>4 DEF x, y

LEMMA NumbersRead == \A n \in 1 .. 99 : CnToInt(ChineseOf(n)) = n
<1> SUFFICES ASSUME NEW n \in 1 .. 99 PROVE CnToInt(ChineseOf(n)) = n
  OBVIOUS
<1> DEFINE t == n \div 10
           o == n % 10
           s == ChineseOf(n)
           T == {i \in 1 .. Len(s) : s[i] = Ten}
           place == IF T # {} THEN Min(T) ELSE 0
           rest == SubSeq(s, place + 1, Len(s))
<1>1. t \in 0 .. 9 /\ o \in 0 .. 9 /\ n = 10 * t + o /\ t \in Nat /\ o \in Nat /\ Ten \in Nat /\ Ten = 10
  BY DEF Ten
<1>2. s = (IF t = 0 THEN <<>> ELSE IF t = 1 THEN <<Ten>> ELSE <<t, Ten>>) \o (IF o = 0 THEN <<>> ELSE <<o>>)
  BY DEF ChineseOf
<1>3. CnToInt(s) = ReadAs(s, place, rest)
  <2> HIDE DEF s
  <2>1. T = {i \in 1 .. Len(s) : s[i] = Ten} /\ place = IF T # {} THEN Min(T) ELSE 0
    OBVIOUS
  <2> HIDE DEF T, place
  <2> QED BY <2>1, CnReads
<1> HIDE DEF t, o, s
<1>4. CASE t = 0
  <2>1. o # 0 /\ n = o
    BY <1>1, <1>4
  <2>2. s = <<o>>
    BY <1>1, <1>2, <1>4, <2>1, JoinsShort
  <2>3. T = {}
    BY <1>1, <2>2
  <2>4. place = 0
    BY <2>3
  <2> HIDE DEF place, rest
  <2> QED BY <1>3, <2>1, <2>2, <2>4 DEF ReadAs, s
<1>5. CASE t = 1 /\ o = 0
  <2>1. s = <<Ten>> /\ n = 10
    BY <1>1, <1>2, <1>5, JoinsShort
  <2>2. T = {1}
    BY <2>1
  <2>3. Min({1}) = 1
    BY FirstIs
  <2>4. place = 1
    BY <2>2, <2>3
  <2>5. rest = <<>>
    BY <2>1, <2>4
  <2> HIDE DEF place, rest
  <2> QED BY <1>1, <1>3, <2>1, <2>4, <2>5 DEF ReadAs, s
<1>6. CASE t = 1 /\ o # 0
  <2>1. s = <<Ten, o>> /\ n = 10 + o
    BY <1>1, <1>2, <1>6, JoinsShort
  <2>2. T = {1}
    BY <1>1, <2>1
  <2>3. Min({1}) = 1
    BY FirstIs
  <2>4. place = 1
    BY <2>2, <2>3
  <2>5. rest = <<o>>
    <3>1. s \in Seq(Nat) /\ Len(s) = 2 /\ s[2] = o /\ place + 1 = 2
      <4> HIDE DEF place
      <4> QED BY <1>1, <2>1, <2>4
    <3> HIDE DEF place
    <3>2. rest = SubSeq(s, 2, 2)
      BY <3>1
    <3>3. SubSeq(s, 2, 2) = <<s[2]>>
      BY <3>1, LastIs
    <3> QED BY <3>1, <3>2, <3>3
  <2> HIDE DEF place, rest
  <2>6. ReadAs(s, 1, <<o>>) = 10 + o
    BY <1>1, <2>1 DEF ReadAs
  <2> QED BY <1>3, <2>1, <2>4, <2>5, <2>6 DEF s
<1>7. CASE t > 1 /\ o = 0
  <2>1. s = <<t, Ten>> /\ n = t * 10
    BY <1>1, <1>2, <1>7, JoinsShort
  <2>2. T = {2}
    BY <1>1, <2>1
  <2>3. Min({2}) = 2
    BY FirstIs
  <2>4. place = 2
    BY <2>2, <2>3
  <2>5. rest = <<>>
    <3>1. s \in Seq(Nat) /\ Len(s) = 2 /\ place + 1 = 3
      <4> HIDE DEF place
      <4> QED BY <1>1, <2>1, <2>4
    <3> HIDE DEF place
    <3> QED BY <3>1
  <2> HIDE DEF place, rest
  <2>6. ReadAs(s, 2, <<>>) = t * 10
    BY <1>1, <2>1 DEF ReadAs
  <2> QED BY <1>3, <2>1, <2>4, <2>5, <2>6 DEF s
<1>8. CASE t > 1 /\ o # 0
  <2>1. s = <<t, Ten, o>> /\ n = t * 10 + o
    <3>1. s = <<t, Ten>> \o <<o>>
      BY <1>1, <1>2, <1>8
    <3>2. <<t, Ten>> \o <<o>> = <<t, Ten, o>>
      BY <1>1, JoinsShort
    <3> QED BY <1>1, <3>1, <3>2
  <2>2. T = {2}
    BY <1>1, <2>1
  <2>3. Min({2}) = 2
    BY FirstIs
  <2>4. place = 2
    BY <2>2, <2>3
  <2>5. rest = <<o>>
    <3>1. s \in Seq(Nat) /\ Len(s) = 3 /\ s[3] = o /\ place + 1 = 3
      <4> HIDE DEF place
      <4> QED BY <1>1, <2>1, <2>4
    <3> HIDE DEF place
    <3>2. rest = SubSeq(s, 3, 3)
      BY <3>1
    <3>3. SubSeq(s, 3, 3) = <<s[3]>>
      <4>1. 3 \in Nat \ {0} /\ 3 = Len(s) /\ s \in Seq(Nat)
        BY <3>1
      <4> HIDE DEF rest, T
      <4> QED BY <4>1, LastIs
    <3> QED BY <3>1, <3>2, <3>3
  <2> HIDE DEF place, rest
  <2>6. ReadAs(s, 2, <<o>>) = t * 10 + o
    BY <1>1, <2>1 DEF ReadAs
  <2> QED BY <1>3, <2>1, <2>4, <2>5, <2>6 DEF s
<1> QED BY <1>1, <1>4, <1>5, <1>6, <1>7, <1>8

---------------------------------------------------------------------------------
(* The parse of a text holds what the split of it holds, whatever types a  *)
(* model gave its clauses.                                                 *)
ParserInv ==
  /\ pasted \in Seq(ParserTokens)
  /\ parsed # <<>> => /\ SplitClauses(pasted) # <<>>
                      /\ ContentsOf(parsed) = ContentsOf(SplitClauses(pasted))

LEMMA ParserInitially == ASSUME ParserInit PROVE ParserInv
BY DEF ParserInit, ParserInv

LEMMA RefineKeeps ==
  ASSUME NEW cl, Len(cl) \in Nat, \A i \in 1 .. Len(cl) : IsRow(cl[i]), NEW answer
  PROVE  ContentsOf(RefineTypes(cl, answer)) = ContentsOf(cl)
<1> DEFINE turned(i) == [cl[i] EXCEPT !.type = answer[i]]
           all == [i \in 1 .. Len(cl) |-> turned(i)]
<1>1. RefineTypes(cl, answer) = cl \/ RefineTypes(cl, answer) = all
  BY DEF RefineTypes
<1>2. \A i \in 1 .. Len(cl) : turned(i).content = cl[i].content
  <2> TAKE i \in 1 .. Len(cl)
  <2>1. cl[i] = [title |-> cl[i].title, content |-> cl[i].content, type |-> cl[i].type]
    BY DEF IsRow
  <2> DEFINE a == cl[i].title
             b == cl[i].content
             c == cl[i].type
  <2>2. cl[i] = [title |-> a, content |-> b, type |-> c]
    BY <2>1
  <2> HIDE DEF a, b, c
  <2>3. turned(i).content = b
    BY <2>2
  <2> QED BY <2>3 DEF b
<1>3. Len(all) = Len(cl) /\ \A i \in 1 .. Len(cl) : all[i] = turned(i)
  OBVIOUS
<1> HIDE DEF turned, all
<1>4. ContentsOf(all) = ContentsOf(cl)
  BY <1>2, <1>3 DEF ContentsOf
<1> QED BY <1>1, <1>4

LEMMA ParserPreserved == ASSUME ParserInv, [ParserNext]_parserVars PROVE ParserInv'
<1> USE DEF ParserInv
<1>1. CASE UNCHANGED parserVars
  BY <1>1 DEF parserVars, ContentsOf, SplitClauses
<1>2. ASSUME NEW t \in ParserTokens, TypeToken(t) PROVE ParserInv'
  <2>1. parsed' = <<>> /\ pasted' = Append(pasted, t)
    BY <1>2 DEF TypeToken
  <2> QED BY <2>1
<1>3. CASE ParseText
  <2> DEFINE cl == SplitClauses(pasted)
  <2>1. pasted' = pasted /\ \E answer : parsed' = RefineTypes(cl, answer)
    BY <1>3 DEF ParseText
  <2>2. PICK answer : parsed' = RefineTypes(cl, answer)
    BY <2>1
  <2>3. Len(cl) \in Nat /\ \A i \in 1 .. Len(cl) : IsRow(cl[i])
    BY SplitIsComplete
  <2> HIDE DEF cl
  <2>4. ContentsOf(RefineTypes(cl, answer)) = ContentsOf(cl)
    BY <2>3, RefineKeeps
  <2>5. parsed' # <<>> => cl # <<>>
    <3> SUFFICES ASSUME cl = <<>> PROVE parsed' = <<>>
      OBVIOUS
    <3>1. Len(cl) = 0
      OBVIOUS
    <3>2. RefineTypes(cl, answer) = cl
      BY <3>1 DEF RefineTypes
    <3> QED BY <2>2, <3>2
  <2> QED BY <2>1, <2>2, <2>4, <2>5 DEF cl
<1> QED BY <1>1, <1>2, <1>3 DEF ParserNext

LEMMA ParserAgrees == ASSUME ParserInv PROVE NothingCutOut
<1>1. ASSUME parsed # <<>> PROVE Complete(pasted, Solid(FlattenSeq(ContentsOf(parsed))))
  <2>1. SplitClauses(pasted) # <<>> /\ ContentsOf(parsed) = ContentsOf(SplitClauses(pasted)) /\ pasted \in Seq(ParserTokens)
    BY <1>1 DEF ParserInv
  <2> QED BY <2>1, SplitIsComplete
<1> QED BY <1>1, NumbersRead DEF NothingCutOut, Complete, ContentsOf

---------------------------------------------------------------------------------
(* The parts together: a step is of the part the behaviour is of, and      *)
(* leaves the variables of every other part as they are.                   *)
LEMMA StepOfPart ==
  ASSUME [Next]_vars
  PROVE  /\ part' = part
         /\ part = "ledger" => [LedgerNext]_ledgerVars
         /\ part = "team" => [TeamNext]_teamVars
         /\ part = "signIn" => [SignNext]_signVars
         /\ part = "engine" => [EngineNext]_engineVars
         /\ part = "playbook" => [PlaybookNext]_playbookVars
         /\ part = "meta" => [MetaNext]_metaVars
         /\ part = "sample" => [SampleNext]_sampleVars
         /\ part = "revision" => [RevisionNext]_revisionVars
         /\ part = "assistant" => [AssistantNext]_assistantVars
         /\ part = "documents" => [DocumentNext]_documentVars
         /\ part = "rag" => [RagNext]_ragVars
         /\ part = "meter" => [MeterNext]_meterVars
         /\ part = "chat" => [ChatNext]_chatVars
         /\ part = "gateway" => [GateNext]_gateVars
         /\ part = "agent" => [AgentNext]_agentVars
         /\ part = "notices" => [NoticeNext]_noticeVars
         /\ part = "reports" => [ReportNext]_reportVars
         /\ part = "evaluation" => [EvalNext]_evalVars
         /\ part = "parser" => [ParserNext]_parserVars
         /\ part = "library" => [LibraryNext]_libraryVars
<1> USE DEF Next, LedgerGoes, TeamGoes, SignInGoes, RuleEngineGoes, PlaybookGoes, PreferencesGoes,
      OnboardingGoes, RevisionGoes, AssistantGoes, DocumentsGoes, RagSessionsGoes, MeteringGoes, ChatGoes,
      GatewayGoes, AgentGoes, NoticesGoes, ReportsGoes, EvaluationGoes, ClauseParserGoes, LibraryGoes
<1>1. CASE UNCHANGED vars
  BY <1>1 DEF vars
<1>2. CASE Next
  <2>0. part' = part
    BY <1>2
  <2>1. part = "ledger" => [LedgerNext]_ledgerVars
    BY <1>2
  <2>2. part = "team" => [TeamNext]_teamVars
    BY <1>2
  <2>3. part = "signIn" => [SignNext]_signVars
    BY <1>2
  <2>4. part = "engine" => [EngineNext]_engineVars
    BY <1>2
  <2>5. part = "playbook" => [PlaybookNext]_playbookVars
    BY <1>2
  <2>6. part = "meta" => [MetaNext]_metaVars
    BY <1>2
  <2>7. part = "sample" => [SampleNext]_sampleVars
    BY <1>2
  <2>8. part = "revision" => [RevisionNext]_revisionVars
    BY <1>2
  <2>9. part = "assistant" => [AssistantNext]_assistantVars
    BY <1>2
  <2>10. part = "documents" => [DocumentNext]_documentVars
    BY <1>2
  <2>11. part = "rag" => [RagNext]_ragVars
    BY <1>2
  <2>12. part = "meter" => [MeterNext]_meterVars
    BY <1>2
  <2>13. part = "chat" => [ChatNext]_chatVars
    BY <1>2
  <2>14. part = "gateway" => [GateNext]_gateVars
    BY <1>2
  <2>15. part = "agent" => [AgentNext]_agentVars
    BY <1>2
  <2>16. part = "notices" => [NoticeNext]_noticeVars
    BY <1>2
  <2>17. part = "reports" => [ReportNext]_reportVars
    BY <1>2
  <2>18. part = "evaluation" => [EvalNext]_evalVars
    BY <1>2
  <2>19. part = "parser" => [ParserNext]_parserVars
    BY <1>2
  <2>20. part = "library" => [LibraryNext]_libraryVars
    BY <1>2
  <2> QED BY <2>0, <2>1, <2>2, <2>3, <2>4, <2>5, <2>6, <2>7, <2>8, <2>9, <2>10, <2>11, <2>12, <2>13, <2>14, <2>15, <2>16, <2>17, <2>18, <2>19, <2>20
<1> QED BY <1>1, <1>2

LimitsInv ==
  /\ part = "ledger" => LedgerInv
  /\ part = "team" => TeamInv
  /\ part = "signIn" => SignInv
  /\ part = "playbook" => BookInv
  /\ part = "meta" => MetaInv
  /\ part = "sample" => SampleInv
  /\ part = "assistant" => AskInv
  /\ part = "gateway" => GateInv

LEMMA LimitsInitially == Init => LimitsInv
BY LedgerInitially, TeamInitially, SignInitially, PlaybookInitially, MetaInitially, SampleInitially,
   AssistantInitially, GateInitially DEF Init, LimitsInv

LEMMA LimitsPreserved == LimitsInv /\ [Next]_vars => LimitsInv'
<1> SUFFICES ASSUME LimitsInv, [Next]_vars PROVE LimitsInv'
  OBVIOUS
<1> USE StepOfPart DEF LimitsInv
<1>1. part = "ledger" => LedgerInv'
  BY LedgerPreserved
<1>2. part = "team" => TeamInv'
  BY TeamPreserved
<1>3. part = "signIn" => SignInv'
  BY SignPreserved
<1>4. part = "playbook" => BookInv'
  BY PlaybookPreserved
<1>5. part = "meta" => MetaInv'
  BY MetaPreserved
<1>6. part = "sample" => SampleInv'
  BY SamplePreserved
<1>7. part = "assistant" => AskInv'
  BY AssistantPreserved
<1>8. part = "gateway" => GateInv'
  BY GatePreserved
<1> QED BY <1>1, <1>2, <1>3, <1>4, <1>5, <1>6, <1>7, <1>8

LEMMA LimitsAlways == Spec => []LimitsInv
BY LimitsInitially, LimitsPreserved, PTL DEF Spec

(* Whatever the limits are and however many requests come in, a limit the  *)
(* server counts before it acts is exceeded only where two requests passed *)
(* its count together (assertLedgerCreate, assertCanInvite, the attempts   *)
(* at a mailed code, seedFromPack, createSample, the clause library's cap, *)
(* the free questions and the token bucket).                               *)
THEOREM LimitsHold == Spec => []LimitsUnlessRaced
<1>1. LimitsInv => LimitsUnlessRaced
  BY LedgerAgrees, TeamInType, CodesInType, BookAgrees, SamplesAgree, LibraryInType, AskedInType, RatesHold
     DEF LimitsInv, LimitsUnlessRaced
<1> QED BY <1>1, LimitsAlways, PTL

---------------------------------------------------------------------------------
(* The parts together.                                                     *)
RecordsInv ==
  /\ part = "engine" => EngineInv
  /\ part = "revision" => RevisionInv
  /\ part = "documents" => DocumentInv
  /\ part = "rag" => RagInv
  /\ part = "meter" => MeterInv
  /\ part = "chat" => ChatInv
  /\ part = "agent" => AgentInv
  /\ part = "notices" => NoticeInv
  /\ part = "reports" => ReportInv
  /\ part = "evaluation" => EvalInv
  /\ part = "library" => LibraryInv

LEMMA RecordsInitially == Init => RecordsInv
BY EngineInitially, RevisionInitially, DocumentInitially, RagInitially, MeterInitially, ChatInitially,
   AgentInitially, NoticeInitially, ReportInitially, EvalInitially, LibraryInitially DEF Init, RecordsInv

LEMMA RecordsPreserved == RecordsInv /\ [Next]_vars => RecordsInv'
<1> SUFFICES ASSUME RecordsInv, [Next]_vars PROVE RecordsInv'
  OBVIOUS
<1> USE StepOfPart DEF RecordsInv
<1>1. part = "engine" => EngineInv'
  BY EnginePreserved
<1>2. part = "revision" => RevisionInv'
  BY RevisionPreserved
<1>3. part = "documents" => DocumentInv'
  BY DocumentPreserved
<1>4. part = "rag" => RagInv'
  BY RagPreserved
<1>5. part = "meter" => MeterInv'
  BY MeterPreserved
<1>6. part = "chat" => ChatInv'
  BY ChatPreserved
<1>7. part = "agent" => AgentInv'
  BY AgentPreserved
<1>8. part = "notices" => NoticeInv'
  BY NoticePreserved
<1>9. part = "reports" => ReportInv'
  BY ReportPreserved
<1>10. part = "evaluation" => EvalInv'
  BY EvalPreserved
<1>11. part = "library" => LibraryInv'
  BY LibraryPreserved
<1> QED BY <1>1, <1>2, <1>3, <1>4, <1>5, <1>6, <1>7, <1>8, <1>9, <1>10, <1>11

LEMMA RecordsAlways == Spec => []RecordsInv
BY RecordsInitially, RecordsPreserved, PTL DEF Spec

(* The type invariants of the parts, for any number of requests, faults    *)
(* and days.                                                               *)
THEOREM WorkspaceInType == Spec => []WorkspaceTypeOK
<1>1. LimitsInv /\ RecordsInv => WorkspaceTypeOK
  BY LedgerAgrees, TeamInType, CodesInType, BookAgrees, SamplesAgree, LibraryInType, AskedInType, RatesHold,
     RulesInType, RevisionInType, DocumentsAgree, RagAgrees, MeterAgrees, ChatAgrees, AgentAgrees, NoticesAgree,
     ReportsInType, EvalAgrees, ListedOnce DEF LimitsInv, RecordsInv, WorkspaceTypeOK
<1> QED BY <1>1, LimitsAlways, RecordsAlways, PTL

(* What is written in two places agrees, however many requests write it    *)
(* and whichever of the modelled statements fails: the ledger's dates, successors and      *)
(* figures, rule hits and findings, a trace's cost and its spans', the     *)
(* sample's marker and its job, documents and their chunks, revisions and  *)
(* their texts, alerts and the month's key (an alert that failed or was    *)
(* cut off by a restart is one missed), the digest and what is due,        *)
(* bills and calls, deadlines and the days left, evaluation cases and the  *)
(* decisions on risks, the list's filters and the reviews, and the trial   *)
(* of a rule with the engine that reviews.                                 *)
THEOREM RecordsHold == Spec => []RecordsAgree
<1>1. LimitsInv /\ RecordsInv => RecordsAgree
  BY LedgerAgrees, BookAgrees, SamplesAgree, RulesInType, RevisionInType, DocumentsAgree, MeterAgrees,
     NoticesAgree, ReportsInType, EvalAgrees, ListedOnce DEF LimitsInv, RecordsInv, RecordsAgree
<1> QED BY <1>1, LimitsAlways, RecordsAlways, PTL

(* No passage of another tenant's private document is retrieved, no answer *)
(* comes from the cache that was given to another tenant or question, and  *)
(* no secret a client sends is stored with an event (retrieval's filter,   *)
(* the key of the answer cache, the masking of properties).                *)
THEOREM TenantsStayApart == Spec => []TenantsApart
<1>1. RecordsInv => TenantsApart
  BY DocumentsAgree, ChatAgrees, ReportsInType DEF RecordsInv, TenantsApart
<1> QED BY <1>1, RecordsAlways, PTL

(* However long a conversation gets and however its requests fail, what    *)
(* was asked and answered stays paired and in its order unless two of its  *)
(* requests overlapped; the prompt ends with what was said last; and of    *)
(* every run of the agent the calls shown are those answered, thrown and   *)
(* under way, of which none is left when it is done (RagSessionStore, the  *)
(* chat's messages and memory, runAgent and its ToolNode).                 *)
THEOREM ConversationsAreKept == Spec => []ConversationsHold
<1>1. RecordsInv => ConversationsHold
  BY RagAgrees, ChatAgrees, AgentAgrees DEF RecordsInv, ConversationsHold
<1> QED BY <1>1, RecordsAlways, PTL

(* No step replaces a text of a revision or the facts of a contract unless *)
(* the user asked or two requests raced (generate, regenerate and extract  *)
(* read before they write), and none gives an account another role or      *)
(* space (registration and login by code).                                 *)
THEOREM RewritesOnlyAsAsked == Spec => NothingRewritten
<1>1. LimitsInv /\ RecordsInv /\ [Next]_vars
        => [/\ part = "revision" => RewritesAreAsked
            /\ part = "signIn" => AccountIsStable]_vars
  <2> SUFFICES ASSUME LimitsInv, RecordsInv, [Next]_vars
               PROVE  (part = "revision" => RewritesAreAsked) /\ (part = "signIn" => AccountIsStable)
    OBVIOUS
  <2>1. part = "revision" => RewritesAreAsked
    BY StepOfPart, RevisionPreserved DEF RecordsInv
  <2>2. part = "signIn" => AccountIsStable
    BY StepOfPart, SignPreserved DEF LimitsInv
  <2> QED BY <2>1, <2>2
<1> QED BY <1>1, LimitsAlways, RecordsAlways, PTL DEF Spec, NothingRewritten

---------------------------------------------------------------------------------
(* What is added up, sorted or cut from the rows.                          *)
FiguresInv ==
  /\ part = "meter" => MonthInv
  /\ part = "reports" => ShownInv
  /\ part = "evaluation" => RunInv
  /\ part = "library" => ServedInv
  /\ part = "parser" => ParserInv

LEMMA FiguresInitially == Init => FiguresInv
BY MonthInitially, ShownInitially, RunInitially, ServedInitially, ParserInitially DEF Init, FiguresInv

LEMMA FiguresPreserved == RecordsInv /\ RecordsInv' /\ FiguresInv /\ [Next]_vars => FiguresInv'
<1> SUFFICES ASSUME RecordsInv, RecordsInv', FiguresInv, [Next]_vars PROVE FiguresInv'
  OBVIOUS
<1> USE StepOfPart DEF FiguresInv, RecordsInv
<1>1. part = "meter" => MonthInv'
  BY MonthPreserved
<1>2. part = "reports" => ShownInv'
  BY ShownPreserved
<1>3. part = "evaluation" => RunInv'
  BY RunPreserved
<1>4. part = "library" => ServedInv'
  BY ServedPreserved
<1>5. part = "parser" => ParserInv'
  BY ParserPreserved
<1> QED BY <1>1, <1>2, <1>3, <1>4, <1>5

LEMMA FiguresAlways == Spec => []FiguresInv
BY FiguresInitially, FiguresPreserved, RecordsAlways, PTL DEF Spec

(* However many rows there are and however requests interleave and fail:   *)
(* the month's tokens and cost are the sums of its traces' (recordUsage),  *)
(* charts, lists and bills are what happened (analytics, monitor, billing),*)
(* an evaluation run's counts and scores are those of its results, the     *)
(* clauses of a contract put together are its text (splitClauses), and an  *)
(* exported opinion has its risks in their order (the report).             *)
THEOREM FiguresHold == Spec => []FiguresAgree
<1>1. RecordsInv /\ FiguresInv => FiguresAgree
  BY MonthAgrees, FiguresOfPages, RunAgrees, ServedAgrees, ParserAgrees
     DEF RecordsInv, FiguresInv, FiguresAgree
<1> QED BY <1>1, RecordsAlways, FiguresAlways, PTL

===================================================================================
