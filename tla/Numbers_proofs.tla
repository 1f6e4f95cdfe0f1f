--------------------------- MODULE Numbers_proofs ---------------------------
(***************************************************************************)
(* Facts about numbers and sums that the proofs of several components use: *)
(* least elements, which stand for induction over the turns of a loop,     *)
(* division, and the sum over a function.                                  *)
(***************************************************************************)
EXTENDS Integers, FiniteSetTheorems, Functions, WellFoundedInduction, TLAPS

\* A set of numbers that is not empty has a least member: what stands for
\* induction over the steps of a loop.
LEMMA Least ==
  ASSUME NEW T \in SUBSET Nat, T # {}
  PROVE  \E n \in T : \A m \in T : n <= m
<1> DEFINE R == OpToRel(<, Nat)
<1>1. IsWellFoundedOn(R, Nat)
  BY NatLessThanWellFounded
<1>2. PICK n \in T : \A m \in T : ~(<<m, n>> \in R)
  <2> HIDE DEF R
  <2> QED BY <1>1, WFMin
<1>3. \A m \in T : ~(m < n)
  BY <1>2 DEF OpToRel
<1> QED BY <1>3

LEMMA DivMod ==
  ASSUME NEW n \in Nat \ {0}, NEW a \in Nat
  PROVE  a = n * (a \div n) + (a % n) /\ a % n \in 0 .. n - 1 /\ a \div n \in Nat
  OBVIOUS

LEMMA Multiple ==
  ASSUME NEW n \in Nat \ {0}, NEW m \in Int, NEW r \in Int, n * m = r, 0 - n < r, r < n
  PROVE  m = 0
<1>1. CASE m >= 1
  <2>1. n * m >= n
    BY <1>1
  <2> QED BY <2>1
<1>2. CASE m <= 0 - 1
  <2>1. n * m <= 0 - n
    BY <1>2
  <2> QED BY <2>1
<1> QED BY <1>1, <1>2

\* Quotient and remainder are the only numbers that do what they do.
LEMMA Division ==
  ASSUME NEW n \in Nat \ {0}, NEW a \in Nat, NEW d \in Int, NEW r \in 0 .. n - 1, a = n * d + r
  PROVE  a \div n = d /\ a % n = r
<1> DEFINE c == a \div n  s == a % n
<1>0. a = n * c + s /\ s \in 0 .. n - 1 /\ c \in Nat
  BY DivMod
<1> HIDE DEF c
<1>1. c \in Int /\ s \in 0 .. n - 1 /\ a = n * c + s
  BY <1>0
<1> SUFFICES c = d /\ s = r
  BY DEF c
<1> HIDE DEF s
<1>2. n * (c - d) = r - s
  BY <1>1
<1>3. c - d \in Int /\ r - s \in Int /\ 0 - n < r - s /\ r - s < n
  BY <1>1
<1>4. c - d = 0
  BY <1>2, <1>3, Multiple
<1> QED BY <1>1, <1>2, <1>4

-----------------------------------------------------------------------------
(* Sums.                                                                   *)

\* A sum over a function, taken in whatever order: how many elements disjoint
\* sets have together.
LEMMA SumOfSizes ==
  ASSUME NEW S, IsFiniteSet(S), NEW B, IsFiniteSet(B), NEW W \in [S -> SUBSET B],
         \A x \in S, y \in S : x # y => W[x] \cap W[y] = {}
  PROVE  SumFunction([x \in S |-> Cardinality(W[x])]) = Cardinality(UNION {W[x] : x \in S})
<1> DEFINE f == [x \in S |-> Cardinality(W[x])]
           U(s) == UNION {W[x] : x \in s}
           Turn(g, s) == IF s = {} THEN 0
                         ELSE LET x == CHOOSE x \in s : TRUE IN f[x] + g[s \ {x}]
           iter == CHOOSE g : g = [s \in SUBSET S |-> Turn(g, s)]
           G == [s \in SUBSET S |-> Cardinality(U(s))]
<1>1. \A s \in SUBSET S : IsFiniteSet(U(s)) /\ IsFiniteSet(s) /\ Cardinality(s) \in Nat
  <2> TAKE s \in SUBSET S
  <2>1. U(s) \in SUBSET B
    OBVIOUS
  <2> HIDE DEF U
  <2> QED BY <2>1, FS_Subset, FS_CardinalityType
<1>2. \A s \in SUBSET S : G[s] = Turn(G, s)
  <2> TAKE s \in SUBSET S
  <2>1. CASE s = {}
    <3>1. U(s) = {}
      BY <2>1
    <3> QED BY <2>1, <3>1, FS_EmptySet
  <2>2. CASE s # {}
    <3> DEFINE x == CHOOSE x \in s : TRUE
               rest == s \ {x}
    <3>1. x \in s /\ x \in S /\ rest \in SUBSET S
      BY <2>2
    <3> HIDE DEF x
    <3>2. U(s) = W[x] \cup U(rest) /\ W[x] \cap U(rest) = {}
      BY <3>1
    <3>3. IsFiniteSet(W[x]) /\ IsFiniteSet(U(rest)) /\ Cardinality(W[x] \cap U(rest)) = 0
      <4>1. W[x] \in SUBSET B
        BY <3>1
      <4> HIDE DEF U, rest
      <4> QED BY <1>1, <3>1, <3>2, <4>1, FS_Subset, FS_EmptySet
    <3>4. Cardinality(U(s)) = Cardinality(W[x]) + Cardinality(U(rest))
      <4>1. Cardinality(W[x]) \in Nat /\ Cardinality(U(rest)) \in Nat
        <5> HIDE DEF U, rest
        <5> QED BY <3>3, FS_CardinalityType
      <4>2. Cardinality(W[x] \cup U(rest))
              = Cardinality(W[x]) + Cardinality(U(rest)) - Cardinality(W[x] \cap U(rest))
        <5> HIDE DEF U, rest
        <5> QED BY <3>3, FS_Union
      <4> HIDE DEF U, rest
      <4> QED BY <3>2, <3>3, <4>1, <4>2
    <3>5. G[s] = f[x] + G[rest]
      <4> HIDE DEF U, rest
      <4> QED BY <3>1, <3>4
    <3>6. Turn(G, s) = f[x] + G[rest]
      <4> HIDE DEF G, f
      <4> QED BY <2>2 DEF x
    <3> QED BY <3>5, <3>6
  <2> QED BY <2>1, <2>2
<1>3. G = [s \in SUBSET S |-> Turn(G, s)]
  <2>1. G = [s \in SUBSET S |-> G[s]]
    OBVIOUS
  <2> HIDE DEF G, Turn
  <2> QED BY <1>2, <2>1
<1>4. iter = [s \in SUBSET S |-> Turn(iter, s)]
  <2> HIDE DEF G, Turn
  <2> QED BY <1>3, Zenon
<1>5. \A s \in SUBSET S : iter[s] = G[s]
  <2> DEFINE Bad == {s \in SUBSET S : iter[s] # G[s]}
             T == {Cardinality(s) : s \in Bad}
  <2> SUFFICES ASSUME Bad # {} PROVE FALSE
    OBVIOUS
  <2>1. PICK n \in T : \A m \in T : n <= m
    <3>1. Bad \subseteq SUBSET S /\ Bad # {}
      <4> HIDE DEF iter, G
      <4> QED OBVIOUS
    <3> HIDE DEF Bad
    <3>2. \A s \in Bad : Cardinality(s) \in Nat
      <4> HIDE DEF U
      <4> QED BY <1>1, <3>1
    <3>3. T \in SUBSET Nat /\ T # {}
      BY <3>1, <3>2
    <3> HIDE DEF T
    <3> QED BY <3>3, Least
  <2>2. PICK s \in Bad : \A r \in Bad : Cardinality(s) <= Cardinality(r)
    <3> HIDE DEF Bad
    <3> QED BY <2>1
  <2>3. s \in SUBSET S /\ iter[s] # G[s]
    <3> HIDE DEF iter, G
    <3> QED OBVIOUS
  <2>4. ASSUME NEW x \in s PROVE iter[s \ {x}] = G[s \ {x}]
    <3>1. Cardinality(s \ {x}) = Cardinality(s) - 1 /\ Cardinality(s) \in Nat
      BY <1>1, <2>3, FS_RemoveElement
    <3>2. s \ {x} \notin Bad
      <4> HIDE DEF Bad
      <4> QED BY <2>2, <3>1
    <3>3. s \ {x} \in SUBSET S
      BY <2>3
    <3> HIDE DEF iter, G
    <3> QED BY <3>2, <3>3
  <2>5. iter[s] = Turn(iter, s) /\ G[s] = Turn(G, s)
    <3> HIDE DEF iter, G, Turn
    <3> QED BY <1>2, <1>4, <2>3
  <2>6. Turn(iter, s) = Turn(G, s)
    <3> DEFINE x == CHOOSE x \in s : TRUE
    <3>1. s # {} => x \in s
      OBVIOUS
    <3>2. s # {} => iter[s \ {x}] = G[s \ {x}]
      <4> HIDE DEF x, iter, G
      <4> QED BY <2>4, <3>1
    <3> HIDE DEF iter, G, f
    <3> QED BY <3>2
  <2> QED BY <2>3, <2>5, <2>6
<1>6. SumFunction(f) = iter[S]
  BY DEF SumFunction, SumFunctionOnSet, FoldFunctionOnSet, MapThenFoldSet
<1>7. iter[S] = G[S] /\ G[S] = Cardinality(U(S))
  <2> HIDE DEF iter, U
  <2> QED BY <1>5
<1> QED BY <1>6, <1>7

LEMMA Behind ==
  ASSUME NEW p \in Nat \ {0}, NEW a \in Nat, NEW b \in Nat, a < b
  PROVE  a * p + p <= b * p
<1>1. (b - a - 1) * p >= 0
  BY SMT
<1> QED BY <1>1

\* A sum of equal numbers and a smaller rest: the stretches of these lengths lie
\* one behind the other and cover what is below the sum.
LEMMA SumOfStretches ==
  ASSUME NEW p \in Nat \ {0}, NEW b \in Nat, NEW k \in Nat, b <= k, NEW g \in [b .. k -> Nat],
         \A m \in b .. k : m < k => g[m] = p, g[k] < p
  PROVE  SumFunction(g) = (k - b) * p + g[k]
<1> DEFINE S == b .. k
           c == [m \in S |-> (m - b) * p]
           total == c[k] + g[k]
           W == [m \in S |-> c[m] .. c[m] + g[m] - 1]
<1>1. c \in [S -> Nat] /\ k \in S /\ c[k] = (k - b) * p
  <2>1. \A m \in S : m - b \in Nat
    OBVIOUS
  <2>2. \A m \in S : (m - b) * p \in Nat
    <3> TAKE m \in S
    <3> DEFINE d == m - b
    <3>1. d \in Nat
      BY <2>1
    <3> HIDE DEF d
    <3>2. d * p \in Nat
      BY <3>1
    <3> QED BY <3>2 DEF d
  <2>3. k \in S
    OBVIOUS
  <2> QED BY <2>2, <2>3
<1>2. ASSUME NEW x \in S, NEW y \in S, x < y PROVE c[x] + p <= c[y]
  <2> DEFINE d == x - b  e == y - b
  <2>1. d \in Nat /\ e \in Nat /\ d < e
    BY <1>2
  <2>2. c[x] = d * p /\ c[y] = e * p
    OBVIOUS
  <2> HIDE DEF c, d, e
  <2> QED BY <2>1, <2>2, Behind
<1>3. ASSUME NEW z \in 0 .. total - 1 PROVE \E x \in S : c[x] <= z /\ z < c[x] + g[x]
  <2> DEFINE q == z \div p  r == z % p
  <2>0. z \in Nat /\ g[k] \in Nat /\ total \in Nat /\ z < total /\ total = c[k] + g[k]
    <3>1. c[k] \in Nat /\ g[k] \in Nat
      BY <1>1
    <3> HIDE DEF c
    <3> QED BY <3>1, SMTT(30)
  <2>1. z = p * q + r /\ r \in 0 .. p - 1 /\ q \in Nat
    BY <2>0, DivMod
  <2> HIDE DEF q, r, total
  <2>2. CASE q < k - b
    <3>1. b + q \in S /\ b + q < k /\ g[b + q] = p /\ (b + q) - b = q
      BY <2>1, <2>2
    <3>2. c[b + q] = q * p
      BY <3>1
    <3>3. p * q = q * p /\ q * p \in Nat
      BY <2>1
    <3> HIDE DEF c, S
    <3> QED BY <2>1, <3>1, <3>2, <3>3
  <2>3. CASE q >= k - b
    <3> DEFINE n == k - b
    <3>1. n \in Nat /\ q >= n /\ c[k] = n * p
      BY <1>1, <2>3
    <3> HIDE DEF n, c, S
    <3>2. p * q >= n * p
      <4>1. (q - n) * p >= 0
        BY <2>1, <3>1
      <4> QED BY <2>1, <3>1, <4>1
    <3>3. p * q \in Nat /\ n * p \in Nat
      BY <2>1, <3>1
    <3>4. c[k] <= z
      BY <2>0, <2>1, <3>1, <3>2, <3>3, SMTT(30)
    <3> QED BY <1>1, <2>0, <3>4
  <2> QED BY <2>1, <2>2, <2>3
<1>4. \A m \in S : g[m] \in Nat /\ g[m] <= p /\ c[m] \in Nat /\ m \in Int
  BY <1>1
<1>5. total \in Nat /\ \A m \in S : c[m] + g[m] <= total
  <2>1. \A m \in S : m = k \/ m < k
    OBVIOUS
  <2> HIDE DEF c, S
  <2>2. \A m \in S : m < k => c[m] + p <= c[k]
    BY <1>1, <1>2
  <2> QED BY <1>1, <1>4, <2>1, <2>2, SMTT(30)
<1>6. IsFiniteSet(S)
  BY FS_Interval
<1>7. total = (k - b) * p + g[k]
  BY <1>1
<1> HIDE DEF c, S, total
<1>8. \A m \in S : W[m] = c[m] .. c[m] + g[m] - 1
  OBVIOUS
<1>9. W \in [S -> SUBSET (0 .. total - 1)]
  BY <1>4, <1>5, SMTT(30)
<1>10. \A x \in S, y \in S : x # y => W[x] \cap W[y] = {}
  <2>1. ASSUME NEW x \in S, NEW y \in S, x < y PROVE W[x] \cap W[y] = {}
    <3> DEFINE cx == c[x]  cy == c[y]  gx == g[x]  gy == g[y]
    <3>1. cx \in Nat /\ cy \in Nat /\ gx \in Nat /\ gy \in Nat /\ gx <= p
      BY <1>4
    <3>2. cx + p <= cy
      BY <1>2, <2>1
    <3>3. W[x] = cx .. cx + gx - 1 /\ W[y] = cy .. cy + gy - 1
      OBVIOUS
    <3> HIDE DEF cx, cy, gx, gy, W
    <3> QED BY <3>1, <3>2, <3>3
  <2> HIDE DEF W
  <2> QED BY <1>4, <2>1
<1>11. UNION {W[x] : x \in S} = 0 .. total - 1
  <2>1. ASSUME NEW z \in 0 .. total - 1 PROVE \E x \in S : z \in W[x]
    <3>1. PICK x \in S : c[x] <= z /\ z < c[x] + g[x]
      BY <1>3
    <3> QED BY <1>4, <1>5, <3>1, SMTT(30)
  <2>2. \A x \in S : W[x] \subseteq 0 .. total - 1
    <3> HIDE DEF W
    <3> QED BY <1>9
  <2> HIDE DEF W
  <2> QED BY <2>1, <2>2
<1>12. [m \in S |-> Cardinality(W[m])] = g
  <2>1. ASSUME NEW m \in S PROVE Cardinality(W[m]) = g[m]
    <3> DEFINE lo == c[m]  hi == c[m] + g[m] - 1
    <3> DEFINE gm == g[m]
    <3>0. gm \in Nat /\ lo \in Nat /\ hi = lo + gm - 1
      BY <1>4
    <3>1. lo \in Int /\ hi \in Int /\ gm = IF lo > hi THEN 0 ELSE hi - lo + 1
      <4> HIDE DEF lo, hi, gm
      <4> QED BY <3>0
    <3>2. W[m] = lo .. hi
      OBVIOUS
    <3> HIDE DEF lo, hi, W
    <3> QED BY <3>1, <3>2, FS_Interval
  <2>2. g = [m \in S |-> g[m]]
    BY DEF S
  <2> HIDE DEF W
  <2> QED BY <2>1, <2>2
<1>13. SumFunction([m \in S |-> Cardinality(W[m])]) = Cardinality(UNION {W[x] : x \in S})
  <2>1. IsFiniteSet(0 .. total - 1)
    BY <1>5, FS_Interval
  <2> DEFINE B == 0 .. total - 1
  <2>2. IsFiniteSet(B) /\ W \in [S -> SUBSET B]
    BY <1>9, <2>1
  <2> HIDE DEF W, B
  <2> QED BY <1>6, <1>10, <2>2, SumOfSizes
<1>14. Cardinality(0 .. total - 1) = total
  <2>1. Cardinality(0 .. total - 1) = IF 0 > total - 1 THEN 0 ELSE (total - 1) - 0 + 1
    BY <1>5, FS_Interval
  <2> QED BY <1>5, <2>1
<1> HIDE DEF W
<1> QED BY <1>7, <1>11, <1>12, <1>13, <1>14
=============================================================================
