---------------------- MODULE PredicateBalancesProofs ----------------------
(***************************************************************************)
(* Proofs about PredicateBalances, for any rows, amounts, assets and pages *)
(* of an answer, and about what MCBlockSync checks of them.                *)
(***************************************************************************)
EXTENDS MCBlockSync, FiniteSetTheorems, TLAPS

-----------------------------------------------------------------------------
(***************************************************************************)
(* Induction and recursive functions.                                      *)
(***************************************************************************)

\* A set of naturals that holds 0 and the successor of each of its members is Nat.
LEMMA NatSetInduction ==
    ASSUME NEW I \in SUBSET Nat, 0 \in I, \A n \in I : n + 1 \in I
    PROVE  I = Nat
<1> SUFFICES ASSUME Nat \ I # {} PROVE FALSE
    OBVIOUS
<1>1. PICK n \in Nat \ I : \A m \in Nat \ I : ~(<<m, n>> \in OpToRel(<, Nat))
    BY WFMin, NatLessThanWellFounded
<1>2. \A m \in Nat \ I : ~(m < n)
    BY <1>1 DEF OpToRel
<1>3. n - 1 \in I
    BY <1>2
<1> QED
    BY <1>3

\* What a recursive definition over 0..n asks of the function: it begins with
\* a value, and step says how it goes on.
Iterates(g, first, step, n) ==
    g = [i \in 0..n |-> IF i = 0 THEN first ELSE step[<<i, g[i - 1]>>]]

\* There is such a function, and its values are of the type that step keeps.
LEMMA IterationExists ==
    ASSUME NEW V, NEW first \in V, NEW n \in Nat, NEW step \in [(1..n) \X V -> V]
    PROVE  \E g \in [0..n -> V] : Iterates(g, first, step, n)
<1> DEFINE I == {m \in Nat : m <= n => \E g \in [0..m -> V] : Iterates(g, first, step, m)}
<1>1. 0 \in I
    <2>1. /\ [i \in 0..0 |-> first] \in [0..0 -> V]
          /\ Iterates([i \in 0..0 |-> first], first, step, 0)
        BY DEF Iterates
    <2> QED
        BY <2>1
<1>2. ASSUME NEW m \in I PROVE m + 1 \in I
    <2> SUFFICES ASSUME m + 1 <= n
                 PROVE  \E g \in [0..(m + 1) -> V] : Iterates(g, first, step, m + 1)
        OBVIOUS
    <2>1. PICK g \in [0..m -> V] : Iterates(g, first, step, m)
        OBVIOUS
    <2>2. \A k \in 0..m : g[k] = IF k = 0 THEN first ELSE step[<<k, g[k - 1]>>]
        BY <2>1 DEF Iterates
    <2> DEFINE new == step[<<m + 1, g[m]>>]
               h == [k \in 0..(m + 1) |-> IF k = m + 1 THEN new ELSE g[k]]
    <2>3. new \in V
        BY <2>1
    <2>4. h \in [0..(m + 1) -> V]
        BY <2>3
    <2>5. ASSUME NEW k \in 0..(m + 1)
          PROVE  h[k] = IF k = 0 THEN first ELSE step[<<k, h[k - 1]>>]
        <3>1. CASE k = m + 1
            <4>1. k # 0 /\ k - 1 \in 0..m /\ k - 1 = m
                BY <3>1
            <4>2. h[k] = new /\ h[k - 1] = g[m]
                BY <3>1, <4>1
            <4> QED
                BY <3>1, <4>1, <4>2
        <3>2. CASE k # m + 1
            <4>1. k \in 0..m /\ h[k] = g[k] /\ (k # 0 => h[k - 1] = g[k - 1])
                BY <3>2
            <4> QED
                BY <4>1, <2>2
        <3> QED
            BY <3>1, <3>2
    <2>6. Iterates(h, first, step, m + 1)
        BY <2>5 DEF Iterates
    <2> HIDE DEF h
    <2> QED
        BY <2>4, <2>6
<1>3. I \in SUBSET Nat
    OBVIOUS
<1> HIDE DEF I
<1>4. n \in I
    BY <1>1, <1>2, <1>3, NatSetInduction
<1> QED
    BY <1>4 DEF I

-----------------------------------------------------------------------------
(***************************************************************************)
(* Sums.                                                                   *)
(***************************************************************************)

\* The first n values of f are integers.
AreIntegers(f, n) == \A i \in 1..n : f[i] \in Int

\* What the definition of SumTo asks of the function.
IsSum(sum, f, n) == sum = [i \in 0..n |-> IF i = 0 THEN 0 ELSE sum[i - 1] + f[i]]

\* There is such a function, of integers.
LEMMA SumExists ==
    ASSUME NEW n \in Nat, NEW f, AreIntegers(f, n)
    PROVE  \E sum \in [0..n -> Int] : IsSum(sum, f, n)
<1> DEFINE step == [p \in (1..n) \X Int |-> p[2] + f[p[1]]]
<1>1. step \in [(1..n) \X Int -> Int] /\ 0 \in Int
    BY DEF AreIntegers
<1>2. \A i \in 1..n, v \in Int : step[<<i, v>>] = v + f[i]
    OBVIOUS
<1> HIDE DEF step
<1>3. PICK g \in [0..n -> Int] : Iterates(g, 0, step, n)
    BY <1>1, IterationExists
<1>4. ASSUME NEW i \in 0..n
      PROVE  (IF i = 0 THEN 0 ELSE step[<<i, g[i - 1]>>]) = IF i = 0 THEN 0 ELSE g[i - 1] + f[i]
    BY <1>2
<1>5. IsSum(g, f, n)
    BY <1>3, <1>4 DEF IsSum, Iterates
<1> QED
    BY <1>5

\* So SumTo is its last value.
LEMMA SumIs ==
    ASSUME NEW n \in Nat, NEW f, AreIntegers(f, n)
    PROVE  \E sum : IsSum(sum, f, n) /\ SumTo(f, n) = sum[n]
<1> DEFINE W == CHOOSE sum : IsSum(sum, f, n)
<1>1. IsSum(W, f, n)
    BY SumExists, Zenon
<1>2. SumTo(f, n) = W[n]
    BY Zenon DEF SumTo, IsSum
<1> QED
    BY <1>1, <1>2

\* g adds up f, as far as n.
AddsTo(g, f, n) == AreIntegers(f, n) /\ g[0] = 0 /\ \A i \in 1..n : g[i] = g[i - 1] + f[i]

\* A function that adds up f ends in SumTo.
LEMMA SumUnique ==
    ASSUME NEW n \in Nat, NEW f, NEW g, AddsTo(g, f, n)
    PROVE  SumTo(f, n) = g[n]
<1>1. PICK sum : IsSum(sum, f, n) /\ SumTo(f, n) = sum[n]
    BY SumIs DEF AddsTo
<1> DEFINE I == {m \in Nat : m <= n => sum[m] = g[m]}
<1>2. sum[0] = 0 /\ \A i \in 1..n : sum[i] = sum[i - 1] + f[i]
    BY <1>1 DEF IsSum
<1>3. 0 \in I
    BY <1>2 DEF AddsTo
<1>4. ASSUME NEW m \in I PROVE m + 1 \in I
    BY <1>2 DEF AddsTo
<1>5. I \in SUBSET Nat
    OBVIOUS
<1> HIDE DEF I
<1>6. n \in I
    BY <1>3, <1>4, <1>5, NatSetInduction
<1> QED
    BY <1>1, <1>6 DEF I

\* A function of integers that adds up f.
LEMMA SumsAreIntegers ==
    ASSUME NEW n \in Nat, NEW f, AreIntegers(f, n)
    PROVE  \E g \in [0..n -> Int] : AddsTo(g, f, n) /\ SumTo(f, n) = g[n]
<1>1. PICK g \in [0..n -> Int] : IsSum(g, f, n)
    BY SumExists
<1>2. AddsTo(g, f, n)
    BY <1>1 DEF IsSum, AddsTo
<1> QED
    BY <1>2, SumUnique

\* A sum is an integer; the sum of nothing, and of one more.
LEMMA SumStep ==
    ASSUME NEW n \in Nat, NEW f, AreIntegers(f, n)
    PROVE  /\ SumTo(f, n) \in Int
           /\ SumTo(f, 0) = 0
           /\ n > 0 => SumTo(f, n) = SumTo(f, n - 1) + f[n]
<1>1. PICK g \in [0..n -> Int] : AddsTo(g, f, n) /\ SumTo(f, n) = g[n]
    BY SumsAreIntegers
<1>2. ASSUME NEW m \in 0..n PROVE SumTo(f, m) = g[m]
    <2>1. m \in Nat /\ AddsTo(g, f, m)
        BY <1>1 DEF AddsTo, AreIntegers
    <2> QED
        BY <2>1, SumUnique
<1> QED
    BY <1>1, <1>2 DEF AddsTo

\* f and g agree up to n.
Agree(f, g, n) == \A i \in 1..n : g[i] = f[i]

\* A sum depends on what is added up only.
LEMMA SumSame ==
    ASSUME NEW n \in Nat, NEW f, AreIntegers(f, n), NEW g, Agree(f, g, n)
    PROVE  SumTo(g, n) = SumTo(f, n)
<1>1. PICK h \in [0..n -> Int] : AddsTo(h, f, n) /\ SumTo(f, n) = h[n]
    BY SumsAreIntegers
<1>2. AddsTo(h, g, n)
    BY <1>1 DEF AddsTo, AreIntegers, Agree
<1> QED
    BY <1>1, <1>2, SumUnique

\* The sum of what is added up pair by pair.
LEMMA SumAdd ==
    ASSUME NEW n \in Nat, NEW f, AreIntegers(f, n), NEW g, AreIntegers(g, n)
    PROVE  SumTo([i \in 1..n |-> f[i] + g[i]], n) = SumTo(f, n) + SumTo(g, n)
<1>1. PICK F \in [0..n -> Int] : AddsTo(F, f, n) /\ SumTo(f, n) = F[n]
    BY SumsAreIntegers
<1>2. PICK G \in [0..n -> Int] : AddsTo(G, g, n) /\ SumTo(g, n) = G[n]
    BY SumsAreIntegers
<1> DEFINE h == [i \in 1..n |-> f[i] + g[i]]
           H == [i \in 0..n |-> F[i] + G[i]]
<1>3. ASSUME NEW i \in 1..n PROVE h[i] \in Int /\ H[i] = H[i - 1] + h[i]
    <2>1. /\ F[i] = F[i - 1] + f[i] /\ G[i] = G[i - 1] + g[i]
          /\ f[i] \in Int /\ g[i] \in Int /\ F[i - 1] \in Int /\ G[i - 1] \in Int
        BY <1>1, <1>2 DEF AddsTo, AreIntegers
    <2>2. h[i] = f[i] + g[i]
        OBVIOUS
    <2>3. H[i] = F[i] + G[i]
        OBVIOUS
    <2>4. H[i - 1] = F[i - 1] + G[i - 1]
        OBVIOUS
    <2>5. F[i] + G[i] = (F[i - 1] + G[i - 1]) + (f[i] + g[i])
        BY <2>1
    <2> HIDE DEF h, H
    <2>6. f[i] + g[i] \in Int
        BY <2>1
    <2> QED
        BY <2>2, <2>3, <2>4, <2>5, <2>6, Zenon
<1>4. H[0] = 0 /\ H[n] = F[n] + G[n]
    BY <1>1, <1>2 DEF AddsTo
<1>5. AddsTo(H, h, n)
    BY <1>3, <1>4 DEF AddsTo, AreIntegers
<1> HIDE DEF H, h
<1>6. SumTo(h, n) = H[n]
    BY <1>5, SumUnique
<1> QED
    BY <1>1, <1>2, <1>4, <1>6 DEF h

\* h is f up to n, and then g up to m.
Joined(h, f, n, g, m) == Agree(f, h, n) /\ \A i \in 1..m : h[n + i] = g[i]

\* The sum of one part after the other.
LEMMA SumJoined ==
    ASSUME NEW n \in Nat, NEW f, AreIntegers(f, n), NEW m \in Nat, NEW g, AreIntegers(g, m),
           NEW h, Joined(h, f, n, g, m)
    PROVE  SumTo(h, n + m) = SumTo(f, n) + SumTo(g, m)
<1>1. PICK F \in [0..n -> Int] : AddsTo(F, f, n) /\ SumTo(f, n) = F[n]
    BY SumsAreIntegers
<1>2. PICK G \in [0..m -> Int] : AddsTo(G, g, m) /\ SumTo(g, m) = G[m]
    BY SumsAreIntegers
<1> DEFINE H == [i \in 0..(n + m) |-> IF i <= n THEN F[i] ELSE F[n] + G[i - n]]
<1>3. ASSUME NEW i \in 1..(n + m)
      PROVE  h[i] \in Int /\ H[i] = H[i - 1] + h[i]
    <2>1. CASE i <= n
        <3>1. i \in 1..n /\ H[i] = F[i] /\ H[i - 1] = F[i - 1]
            BY <2>1
        <3>2. h[i] = f[i] /\ f[i] \in Int /\ F[i] = F[i - 1] + f[i]
            BY <1>1, <3>1 DEF AddsTo, AreIntegers, Joined, Agree
        <3> QED
            BY <3>1, <3>2
    <2>2. CASE i > n
        <3> DEFINE j == i - n
        <3>1. j \in 1..m /\ i = n + j
            BY <2>2
        <3> HIDE DEF j
        <3>2. h[i] = g[j] /\ g[j] \in Int /\ G[j] = G[j - 1] + g[j]
            BY <1>2, <3>1 DEF AddsTo, AreIntegers, Joined
        <3>3. H[i] = F[n] + G[j]
            BY <3>1
        <3>4. H[i - 1] = F[n] + G[j - 1]
            <4>1. CASE j = 1
                <5>1. i - 1 = n /\ H[i - 1] = F[n] /\ F[n] \in Int
                    BY <4>1, <3>1
                <5>2. G[j - 1] = 0
                    BY <4>1, <1>2 DEF AddsTo
                <5> QED
                    BY <5>1, <5>2
            <4>2. CASE j # 1
                <5>1. i - 1 > n /\ i - 1 \in 0..(n + m) /\ (i - 1) - n = j - 1
                    BY <4>2, <3>1
                <5> QED
                    BY <5>1
            <4> QED
                BY <4>1, <4>2
        <3>5. F[n] \in Int /\ G[j - 1] \in Int
            BY <3>1
        <3> QED
            BY <3>2, <3>3, <3>4, <3>5
    <2> QED
        BY <2>1, <2>2
<1>4. H[0] = 0
    BY <1>1 DEF AddsTo
<1>5. H[n + m] = F[n] + G[m]
    <2>1. CASE m = 0
        BY <2>1, <1>2 DEF AddsTo
    <2>2. CASE m # 0
        BY <2>2
    <2> QED
        BY <2>1, <2>2
<1> HIDE DEF H
<1>6. AddsTo(H, h, n + m) /\ n + m \in Nat
    BY <1>3, <1>4 DEF AddsTo, AreIntegers
<1>7. SumTo(h, n + m) = H[n + m]
    BY <1>6, SumUnique
<1> QED
    BY <1>1, <1>2, <1>5, <1>7

\* All values of f are zero, but for the j-th.
ZeroBut(f, n, j) == AreIntegers(f, n) /\ \A i \in 1..n : i # j => f[i] = 0

\* The sum of nothing but zeros, and of one number among zeros.
LEMMA SumOfOne ==
    ASSUME NEW n \in Nat, NEW f, NEW j \in 1..(n + 1), ZeroBut(f, n, j)
    PROVE  SumTo(f, n) = IF j <= n THEN f[j] ELSE 0
<1> DEFINE G == [i \in 0..n |-> IF i < j THEN 0 ELSE f[j]]
<1>1. AddsTo(G, f, n)
    BY DEF AddsTo, ZeroBut, AreIntegers
<1>2. G[n] = IF j <= n THEN f[j] ELSE 0
    OBVIOUS
<1> HIDE DEF G
<1>3. SumTo(f, n) = G[n]
    BY <1>1, SumUnique
<1> QED
    BY <1>2, <1>3

\* A sum of naturals is one, and is at least the sum of its first numbers.
LEMMA SumGrows ==
    ASSUME NEW n \in Nat, NEW f, \A i \in 1..n : f[i] \in Nat
    PROVE  /\ SumTo(f, n) \in Nat
           /\ \A m \in 0..n : SumTo(f, m) \in Nat /\ SumTo(f, m) <= SumTo(f, n)
<1>0. AreIntegers(f, n)
    BY DEF AreIntegers
<1>1. PICK sum \in [0..n -> Int] : AddsTo(sum, f, n) /\ SumTo(f, n) = sum[n]
    BY <1>0, SumsAreIntegers
<1>2. ASSUME NEW m \in 0..n PROVE SumTo(f, m) = sum[m]
    <2>1. m \in Nat /\ AddsTo(sum, f, m)
        BY <1>1 DEF AddsTo, AreIntegers
    <2> QED
        BY <2>1, SumUnique
<1> DEFINE I == {k \in Nat : k <= n => /\ sum[k] \in Nat
                                     /\ \A m \in 0..k : sum[m] <= sum[k]}
<1>3. 0 \in I
    BY <1>1 DEF AddsTo
<1>4. ASSUME NEW k \in I PROVE k + 1 \in I
    <2> SUFFICES ASSUME k + 1 <= n
                 PROVE  sum[k + 1] \in Nat /\ \A m \in 0..(k + 1) : sum[m] <= sum[k + 1]
        OBVIOUS
    <2>1. k + 1 \in 1..n /\ sum[k + 1] = sum[k] + f[k + 1] /\ f[k + 1] \in Nat /\ sum[k] \in Nat
        BY <1>1 DEF AddsTo
    <2>2. ASSUME NEW m \in 0..k PROVE sum[m] \in Int /\ sum[m] <= sum[k]
        BY <1>1
    <2> QED
        BY <2>1, <2>2
<1>5. I \in SUBSET Nat
    OBVIOUS
<1> HIDE DEF I
<1>6. I = Nat
    BY <1>3, <1>4, <1>5, NatSetInduction
<1>7. ASSUME NEW m \in 0..n PROVE sum[m] \in Nat /\ sum[m] <= sum[n]
    <2>1. m \in I /\ n \in I
        BY <1>6
    <2> QED
        BY <2>1 DEF I
<1> QED
    BY <1>2, <1>7

-----------------------------------------------------------------------------
(***************************************************************************)
(* Totals of the values v of the rows of a sequence.                       *)
(***************************************************************************)
Values(rows, v) == [i \in DOMAIN rows |-> v[rows[i]]]

Total(rows, v) == SumTo(Values(rows, v), Len(rows))

\* The values of rows in R are integers.
IsValue(v, R) == v \in [R -> Int]

\* So are those of a sequence.
LEMMA ValuesType ==
    ASSUME NEW R, NEW v, IsValue(v, R), NEW rows \in Seq(R)
    PROVE  /\ Len(rows) \in Nat /\ AreIntegers(Values(rows, v), Len(rows))
           /\ \A i \in 1..Len(rows) : rows[i] \in R /\ Values(rows, v)[i] = v[rows[i]]
BY DEF IsValue, AreIntegers, Values

\* A total is an integer; the total of no rows.
LEMMA TotalType ==
    ASSUME NEW R, NEW v, IsValue(v, R)
    PROVE  /\ \A rows \in Seq(R) : Total(rows, v) \in Int
           /\ Total(<<>>, v) = 0
<1>1. ASSUME NEW rows \in Seq(R) PROVE Total(rows, v) \in Int
    <2>1. Len(rows) \in Nat /\ AreIntegers(Values(rows, v), Len(rows))
        BY ValuesType
    <2> QED
        BY <2>1, SumStep DEF Total
<1>2. <<>> \in Seq(R) /\ Len(<<>>) = 0
    OBVIOUS
<1>3. AreIntegers(Values(<<>>, v), 0)
    BY DEF AreIntegers
<1>4. SumTo(Values(<<>>, v), 0) = 0
    BY <1>3, SumStep
<1> QED
    BY <1>1, <1>2, <1>4 DEF Total

\* v and w are the same for all rows.
SameValues(rows, v, w) == \A i \in 1..Len(rows) : v[rows[i]] = w[rows[i]]

\* The total depends on the values of the rows only.
LEMMA TotalSame ==
    ASSUME NEW R, NEW v, IsValue(v, R), NEW w, IsValue(w, R), NEW rows \in Seq(R),
           SameValues(rows, v, w)
    PROVE  Total(rows, v) = Total(rows, w)
<1>1. Values(rows, v) = Values(rows, w)
    BY DEF Values, SameValues
<1> QED
    BY <1>1 DEF Total

\* The total of the rows of two sequences.
LEMMA TotalJoined ==
    ASSUME NEW R, NEW v, IsValue(v, R), NEW s \in Seq(R), NEW t \in Seq(R)
    PROVE  Total(s \o t, v) = Total(s, v) + Total(t, v)
<1> DEFINE n == Len(s)
           m == Len(t)
<1>1. /\ n \in Nat /\ AreIntegers(Values(s, v), n)
      /\ m \in Nat /\ AreIntegers(Values(t, v), m)
    BY ValuesType
<1>2. s \o t \in Seq(R) /\ Len(s \o t) = n + m
    OBVIOUS
<1>3. ASSUME NEW i \in 1..n PROVE Values(s \o t, v)[i] = Values(s, v)[i]
    BY DEF Values
<1>4. ASSUME NEW i \in 1..m PROVE Values(s \o t, v)[n + i] = Values(t, v)[i]
    BY DEF Values
<1>5. Joined(Values(s \o t, v), Values(s, v), n, Values(t, v), m)
    BY <1>3, <1>4 DEF Joined, Agree
<1>6. SumTo(Values(s \o t, v), n + m) = SumTo(Values(s, v), n) + SumTo(Values(t, v), m)
    BY <1>1, <1>5, SumJoined
<1> QED
    BY <1>2, <1>6 DEF Total

\* The total of one row more.
LEMMA TotalOfOneMore ==
    ASSUME NEW R, NEW v, IsValue(v, R), NEW s \in Seq(R), NEW e \in R
    PROVE  Total(Append(s, e), v) = Total(s, v) + v[e]
<1> DEFINE n == Len(s)
           t == Append(s, e)
<1>1. /\ n \in Nat /\ AreIntegers(Values(s, v), n)
      /\ n + 1 \in Nat /\ t \in Seq(R) /\ Len(t) = n + 1
    BY ValuesType
<1>2. AreIntegers(Values(t, v), n + 1)
    BY <1>1, ValuesType
<1>3. Agree(Values(s, v), Values(t, v), n)
    BY DEF Values, Agree
<1>4. Values(t, v)[n + 1] = v[e]
    BY DEF Values
<1> HIDE DEF t, n
<1>5. SumTo(Values(t, v), n) = SumTo(Values(s, v), n)
    BY <1>1, <1>3, SumSame
<1>6. SumTo(Values(t, v), n + 1) = SumTo(Values(t, v), (n + 1) - 1) + Values(t, v)[n + 1]
    BY <1>1, <1>2, SumStep
<1>7. (n + 1) - 1 = n
    BY <1>1
<1>8. SumTo(Values(t, v), n + 1) = SumTo(Values(s, v), n) + v[e]
    BY <1>4, <1>5, <1>6, <1>7
<1> QED
    BY <1>1, <1>8 DEF Total, t, n

-----------------------------------------------------------------------------
(***************************************************************************)
(* The rows that are kept.                                                 *)
(***************************************************************************)

\* What the definition of Kept asks of the function.
IsKept(kept, rows, S) ==
    kept = [i \in 0..Len(rows) |->
              IF i = 0 THEN <<>>
              ELSE IF rows[i] \in S THEN Append(kept[i - 1], rows[i]) ELSE kept[i - 1]]

\* There is such a function.
LEMMA KeptExists ==
    ASSUME NEW R, NEW rows \in Seq(R), NEW S
    PROVE  \E kept \in [0..Len(rows) -> Seq(R)] : IsKept(kept, rows, S)
<1> DEFINE n == Len(rows)
           step == [p \in (1..n) \X Seq(R) |->
                      IF rows[p[1]] \in S THEN Append(p[2], rows[p[1]]) ELSE p[2]]
<1>1. n \in Nat /\ \A i \in 1..n : rows[i] \in R
    OBVIOUS
<1>2. ASSUME NEW i \in 1..n, NEW k \in Seq(R)
      PROVE  /\ step[<<i, k>>] = IF rows[i] \in S THEN Append(k, rows[i]) ELSE k
             /\ step[<<i, k>>] \in Seq(R)
    OBVIOUS
<1>3. step \in [(1..n) \X Seq(R) -> Seq(R)] /\ <<>> \in Seq(R)
    BY <1>2
<1> HIDE DEF step, n
<1>4. PICK g \in [0..n -> Seq(R)] : Iterates(g, <<>>, step, n)
    BY <1>1, <1>3, IterationExists
<1>5. ASSUME NEW i \in 0..n
      PROVE  (IF i = 0 THEN <<>> ELSE step[<<i, g[i - 1]>>])
               = IF i = 0 THEN <<>>
                 ELSE IF rows[i] \in S THEN Append(g[i - 1], rows[i]) ELSE g[i - 1]
    <2>1. CASE i = 0
        BY <2>1
    <2>2. CASE i # 0
        <3>1. i \in 1..n /\ g[i - 1] \in Seq(R)
            BY <1>1, <2>2
        <3> QED
            BY <2>2, <3>1, <1>2
    <2> QED
        BY <2>1, <2>2
<1>6. IsKept(g, rows, S)
    BY <1>4, <1>5 DEF IsKept, Iterates, n
<1> QED
    BY <1>4, <1>6 DEF n

\* Kept is the last value of such a function.
LEMMA KeptIs ==
    ASSUME NEW R, NEW rows \in Seq(R), NEW S
    PROVE  \E kept : IsKept(kept, rows, S) /\ Kept(rows, S) = kept[Len(rows)]
<1> DEFINE W == CHOOSE kept : IsKept(kept, rows, S)
<1>1. IsKept(W, rows, S)
    BY KeptExists, Zenon
<1>2. Kept(rows, S) = W[Len(rows)]
    BY Zenon DEF Kept, IsKept
<1> QED
    BY <1>1, <1>2

\* w is v for the rows in S, and 0 for the others.
CountsOnly(rows, w, v, S) ==
    \A i \in 1..Len(rows) : w[rows[i]] = IF rows[i] \in S THEN v[rows[i]] ELSE 0

\* The total of the rows that are kept is the total of all, the others counted as 0.
LEMMA TotalOfKept ==
    ASSUME NEW R, NEW rows \in Seq(R), NEW S,
           NEW v, IsValue(v, R), NEW w, IsValue(w, R), CountsOnly(rows, w, v, S)
    PROVE  Kept(rows, S) \in Seq(R) /\ Total(Kept(rows, S), v) = Total(rows, w)
<1> DEFINE n == Len(rows)
<1>1. PICK kept : IsKept(kept, rows, S) /\ Kept(rows, S) = kept[n]
    BY KeptIs
<1>n. n \in Nat
    OBVIOUS
<1>e. \A i \in 0..n : kept[i] = IF i = 0 THEN <<>>
                       ELSE IF rows[i] \in S THEN Append(kept[i - 1], rows[i]) ELSE kept[i - 1]
    BY <1>1, Zenon DEF IsKept
<1>2. /\ n \in Nat
      /\ kept[0] = <<>>
      /\ \A i \in 1..n : kept[i] = IF rows[i] \in S THEN Append(kept[i - 1], rows[i]) ELSE kept[i - 1]
    BY <1>n, <1>e
<1>3. AreIntegers(Values(rows, w), n)
    BY ValuesType
<1>i. ASSUME NEW i \in 1..n
      PROVE  rows[i] \in R /\ Values(rows, w)[i] = w[rows[i]]
    BY DEF Values
<1>4. PICK sum \in [0..n -> Int] : AddsTo(sum, Values(rows, w), n) /\ SumTo(Values(rows, w), n) = sum[n]
    BY <1>2, <1>3, SumsAreIntegers
<1> DEFINE I == {k \in Nat : k <= n => kept[k] \in Seq(R) /\ Total(kept[k], v) = sum[k]}
<1>5. 0 \in I
    <2>1. Total(<<>>, v) = 0 /\ sum[0] = 0 /\ <<>> \in Seq(R)
        BY <1>4, TotalType DEF AddsTo
    <2> QED
        BY <1>2, <2>1
<1>6. ASSUME NEW k \in I PROVE k + 1 \in I
    <2> SUFFICES ASSUME k + 1 <= n
                 PROVE  kept[k + 1] \in Seq(R) /\ Total(kept[k + 1], v) = sum[k + 1]
        OBVIOUS
    <2> DEFINE e == rows[k + 1]
    <2>0. k \in 0..n /\ sum[k] \in Int
        BY <1>4
    <2>1. k + 1 \in 1..n /\ (k + 1) - 1 = k
        BY <1>2
    <2>2. kept[k] \in Seq(R) /\ Total(kept[k], v) = sum[k]
        BY <1>2
    <2>3. /\ e \in R /\ Values(rows, w)[k + 1] = w[e]
          /\ w[e] = IF e \in S THEN v[e] ELSE 0
        <3>1. e \in R /\ Values(rows, w)[k + 1] = w[e]
            BY <2>1, <1>i
        <3>2. w[e] = IF e \in S THEN v[e] ELSE 0
            BY <2>1 DEF CountsOnly
        <3> QED
            BY <3>1, <3>2
    <2>4. sum[k + 1] = sum[k] + w[e]
        BY <1>4, <2>1, <2>3 DEF AddsTo
    <2>5. kept[k + 1] = IF e \in S THEN Append(kept[k], e) ELSE kept[k]
        BY <1>2, <2>1
    <2> HIDE DEF e, I, n
    <2>6. CASE e \in S
        <3>1. Total(Append(kept[k], e), v) = Total(kept[k], v) + v[e]
            BY <2>2, <2>3, TotalOfOneMore
        <3> QED
            BY <2>2, <2>3, <2>4, <2>5, <2>6, <3>1
    <2>7. CASE e \notin S
        BY <2>0, <2>2, <2>3, <2>4, <2>5, <2>7
    <2> QED
        BY <2>6, <2>7
<1>7. I \in SUBSET Nat
    OBVIOUS
<1> HIDE DEF I
<1>8. n \in I
    BY <1>2, <1>5, <1>6, <1>7, NatSetInduction
<1> QED
    BY <1>1, <1>2, <1>4, <1>8 DEF I, Total

-----------------------------------------------------------------------------
(***************************************************************************)
(* The amounts of rows of any transactions, kinds and sizes.               *)
(***************************************************************************)
\* All strings: tlapm does not know that these are.
Name == STRING \cup {"t", "f", "coin", "message", "variable", "change"}

Row == [tx : Name, kind : Name, mine : BOOLEAN, asset : Assets, amount : Nat]

Amounts == [row \in Row |-> row.amount]

\* The amount of the rows of the vault of some kinds and of one asset.
AmountIn(kinds, asset) ==
    [row \in Row |-> IF row.mine /\ row.kind \in kinds /\ row.asset = asset THEN row.amount ELSE 0]

\* Amount adds up the amounts.
LEMMA AmountIsTotal ==
    ASSUME NEW rows \in Seq(Row)
    PROVE  Amount(rows) = Total(rows, Amounts)
<1>1. ASSUME NEW i \in DOMAIN rows PROVE rows[i].amount = Amounts[rows[i]]
    BY DEF Amounts
<1>2. [i \in DOMAIN rows |-> rows[i].amount] = Values(rows, Amounts)
    BY <1>1 DEF Values
<1> QED
    BY <1>2 DEF Amount, Total

\* The amounts are naturals.
LEMMA AmountsType ==
    ASSUME NEW kinds, NEW asset
    PROVE  /\ IsValue(Amounts, Row)
           /\ IsValue(AmountIn(kinds, asset), Row)
           /\ \A row \in Row : AmountIn(kinds, asset)[row] \in Nat
BY DEF IsValue, Amounts, AmountIn, Row

\* The amount of the rows that are kept.
LEMMA KeptAmount ==
    ASSUME NEW rows \in Seq(Row), NEW S, NEW kinds, NEW asset,
           CountsOnly(rows, AmountIn(kinds, asset), Amounts, S)
    PROVE  /\ Kept(rows, S) \in Seq(Row)
           /\ Amount(Kept(rows, S)) = Total(rows, AmountIn(kinds, asset))
<1>1. IsValue(Amounts, Row) /\ IsValue(AmountIn(kinds, asset), Row)
    BY AmountsType
<1>2. /\ Kept(rows, S) \in Seq(Row)
      /\ Total(Kept(rows, S), Amounts) = Total(rows, AmountIn(kinds, asset))
    BY <1>1, TotalOfKept
<1> QED
    BY <1>2, AmountIsTotal

\* AmountOf as a total.
LEMMA AmountOfIsTotal ==
    ASSUME NEW rows \in Seq(Row), NEW kinds, NEW asset
    PROVE  AmountOf(rows, kinds, asset) = Total(rows, AmountIn(kinds, asset))
<1> DEFINE S == {r \in Range(rows) : r.mine /\ r.kind \in kinds /\ r.asset = asset}
<1>1. ASSUME NEW i \in 1..Len(rows)
      PROVE  AmountIn(kinds, asset)[rows[i]] = IF rows[i] \in S THEN Amounts[rows[i]] ELSE 0
    <2>1. rows[i] \in Row /\ rows[i] \in Range(rows)
        BY DEF Range
    <2> QED
        BY <2>1 DEF AmountIn, Amounts
<1>2. CountsOnly(rows, AmountIn(kinds, asset), Amounts, S)
    BY <1>1 DEF CountsOnly
<1> HIDE DEF S
<1>3. Amount(Kept(rows, S)) = Total(rows, AmountIn(kinds, asset))
    BY <1>2, KeptAmount
<1> QED
    BY <1>3 DEF AmountOf, S

\* A total of amounts is a natural.
LEMMA TotalIsNatural ==
    ASSUME NEW rows \in Seq(Row), NEW kinds, NEW asset
    PROVE  Total(rows, AmountIn(kinds, asset)) \in Nat
<1>1. ASSUME NEW i \in 1..Len(rows) PROVE Values(rows, AmountIn(kinds, asset))[i] \in Nat
    BY AmountsType DEF Values
<1>2. Len(rows) \in Nat
    OBVIOUS
<1> QED
    BY <1>1, <1>2, SumGrows DEF Total

\* Amounts of different kinds add up.
LEMMA AmountOfKinds ==
    ASSUME NEW rows \in Seq(Row), NEW some, NEW other, some \cap other = {}, NEW asset
    PROVE  Total(rows, AmountIn(some \cup other, asset))
             = Total(rows, AmountIn(some, asset)) + Total(rows, AmountIn(other, asset))
<1> DEFINE n == Len(rows)
           f == Values(rows, AmountIn(some, asset))
           g == Values(rows, AmountIn(other, asset))
           h == Values(rows, AmountIn(some \cup other, asset))
<1>1. n \in Nat /\ AreIntegers(f, n) /\ AreIntegers(g, n) /\ AreIntegers(h, n)
    BY AmountsType, ValuesType
<1>2. ASSUME NEW i \in 1..n PROVE h[i] = f[i] + g[i]
    <2>1. rows[i] \in Row
        OBVIOUS
    <2>2. AmountIn(some \cup other, asset)[rows[i]]
            = AmountIn(some, asset)[rows[i]] + AmountIn(other, asset)[rows[i]]
        BY <2>1 DEF AmountIn, Row
    <2> QED
        BY <2>2 DEF Values
<1> HIDE DEF f, g, h, n
<1>3. SumTo([i \in 1..n |-> f[i] + g[i]], n) = SumTo(f, n) + SumTo(g, n)
    BY <1>1, SumAdd
<1>4. Agree(h, [i \in 1..n |-> f[i] + g[i]], n)
    BY <1>2 DEF Agree
<1>5. SumTo([i \in 1..n |-> f[i] + g[i]], n) = SumTo(h, n)
    BY <1>1, <1>4, SumSame
<1> QED
    BY <1>3, <1>5 DEF Total, f, g, h, n

-----------------------------------------------------------------------------
(***************************************************************************)
(* What a transaction spent: the change is taken off, down to nothing.     *)
(***************************************************************************)

\* What the definition of Spent asks of the function.
IsLeft(left, spent, change) ==
    left = [i \in 0..Len(change) |->
              IF i = 0 THEN spent
              ELSE IF left[i - 1] = 0 THEN 0 ELSE left[i - 1] - change[i].amount]

\* There is such a function.
LEMMA LeftExists ==
    ASSUME NEW spent \in Int, NEW change \in Seq(Row)
    PROVE  \E left : IsLeft(left, spent, change)
<1> DEFINE n == Len(change)
           step == [p \in (1..n) \X Int |-> IF p[2] = 0 THEN 0 ELSE p[2] - change[p[1]].amount]
<1>1. n \in Nat /\ \A i \in 1..n : change[i].amount \in Int
    <2>1. n \in Nat /\ \A i \in 1..n : change[i] \in Row
        OBVIOUS
    <2>2. \A row \in Row : row.amount \in Int
        BY DEF Row
    <2> QED
        BY <2>1, <2>2
<1>2. ASSUME NEW i \in 1..n, NEW k \in Int
      PROVE  /\ step[<<i, k>>] = IF k = 0 THEN 0 ELSE k - change[i].amount
             /\ step[<<i, k>>] \in Int
    BY <1>1
<1>3. step \in [(1..n) \X Int -> Int]
    BY <1>1
<1> HIDE DEF step, n
<1>4. PICK g \in [0..n -> Int] : Iterates(g, spent, step, n)
    BY <1>1, <1>3, IterationExists
<1>5. ASSUME NEW i \in 0..n
      PROVE  (IF i = 0 THEN spent ELSE step[<<i, g[i - 1]>>])
               = IF i = 0 THEN spent
                 ELSE IF g[i - 1] = 0 THEN 0 ELSE g[i - 1] - change[i].amount
    <2>1. CASE i = 0
        BY <2>1
    <2>2. CASE i # 0
        <3>1. i \in 1..n /\ g[i - 1] \in Int
            BY <1>1, <2>2
        <3> QED
            BY <2>2, <3>1, <1>2
    <2> QED
        BY <2>1, <2>2
<1>6. IsLeft(g, spent, change)
    BY <1>4, <1>5 DEF IsLeft, Iterates, n
<1> QED
    BY <1>6

\* While the change is no more than what was spent, the rest is what is left.
LEMMA LeftIsTheRest ==
    ASSUME NEW spent \in Nat, NEW change \in Seq(Row), Amount(change) <= spent,
           NEW left, IsLeft(left, spent, change)
    PROVE  left[Len(change)] = spent - Amount(change)
<1> DEFINE n == Len(change)
           f == Values(change, Amounts)
<1>1. n \in Nat /\ AreIntegers(f, n) /\ Amount(change) = SumTo(f, n)
    BY AmountsType, ValuesType, AmountIsTotal DEF Total
<1>2. ASSUME NEW i \in 1..n PROVE f[i] \in Nat /\ f[i] = change[i].amount
    <2>1. change[i] \in Row
        OBVIOUS
    <2>2. f[i] = Amounts[change[i]]
        BY DEF Values
    <2> QED
        BY <2>1, <2>2 DEF Amounts, Row
<1>3. \A i \in 0..n : left[i] = IF i = 0 THEN spent
                       ELSE IF left[i - 1] = 0 THEN 0 ELSE left[i - 1] - change[i].amount
    BY Zenon DEF IsLeft
<1> HIDE DEF f, n
<1>4. /\ SumTo(f, 0) = 0
      /\ \A m \in 0..n : SumTo(f, m) \in Nat /\ SumTo(f, m) <= SumTo(f, n)
    BY <1>1, <1>2, SumGrows, SumStep
<1> DEFINE I == {k \in Nat : k <= n => left[k] = spent - SumTo(f, k)}
<1>5. 0 \in I
    BY <1>1, <1>3, <1>4
<1>6. ASSUME NEW k \in I PROVE k + 1 \in I
    <2> SUFFICES ASSUME k + 1 <= n PROVE left[k + 1] = spent - SumTo(f, k + 1)
        OBVIOUS
    <2>1. /\ k \in 0..n /\ k + 1 \in 1..n /\ k + 1 \in 0..n /\ (k + 1) - 1 = k /\ k + 1 # 0
          /\ k + 1 \in Nat /\ k + 1 > 0
        BY <1>1
    <2>2. left[k] = spent - SumTo(f, k)
        BY <1>1
    <2>3. AreIntegers(f, k + 1)
        BY <1>1, <2>1 DEF AreIntegers
    <2>4. SumTo(f, k + 1) = SumTo(f, (k + 1) - 1) + f[k + 1]
        BY <2>1, <2>3, SumStep
    <2>5. left[k + 1] = IF left[k] = 0 THEN 0 ELSE left[k] - f[k + 1]
        BY <1>2, <1>3, <2>1
    <2>6. /\ SumTo(f, k) \in Nat /\ SumTo(f, k + 1) <= spent /\ SumTo(f, k + 1) \in Nat
          /\ f[k + 1] \in Nat
        BY <1>1, <1>2, <1>4, <2>1
    <2>7. SumTo(f, k + 1) = SumTo(f, k) + f[k + 1]
        BY <2>1, <2>4
    <2> HIDE DEF I
    <2>8. CASE left[k] = 0
        BY <2>2, <2>5, <2>6, <2>7, <2>8
    <2>9. CASE left[k] # 0
        BY <2>2, <2>5, <2>6, <2>7, <2>9
    <2> QED
        BY <2>8, <2>9
<1>7. I \in SUBSET Nat
    OBVIOUS
<1> HIDE DEF I
<1>8. n \in I
    BY <1>1, <1>5, <1>6, <1>7, NatSetInduction
<1> QED
    BY <1>1, <1>8 DEF I, n

\* Messages bring the base asset.
BringETH(inputs) ==
    \A i \in 1..Len(inputs) : inputs[i].kind = "message" => inputs[i].asset = ETH

\* What the vault spent of an asset is what its coins and messages brought, less the change.
LEMMA SpentIs ==
    ASSUME NEW inputs \in Seq(Row), BringETH(inputs), NEW outputs \in Seq(Row), NEW asset,
           Total(outputs, AmountIn({"change"}, asset)) <= Total(inputs, AmountIn({"coin", "message"}, asset))
    PROVE  Spent(inputs, outputs, asset) = Total(inputs, AmountIn({"coin", "message"}, asset))
                                             - Total(outputs, AmountIn({"change"}, asset))
<1> DEFINE S == {i \in Range(inputs) : IsSpent(i) /\ i.asset = asset}
           C == {o \in Range(outputs) : IsChange(o) /\ o.asset = asset}
<1>1. ASSUME NEW i \in 1..Len(inputs)
      PROVE  AmountIn({"coin", "message"}, asset)[inputs[i]] = IF inputs[i] \in S THEN Amounts[inputs[i]] ELSE 0
    <2>1. inputs[i] \in Row /\ inputs[i] \in Range(inputs)
        BY DEF Range
    <2> QED
        BY <2>1 DEF AmountIn, Amounts, IsSpent, IsMessage, BringETH
<1>2. ASSUME NEW i \in 1..Len(outputs)
      PROVE  AmountIn({"change"}, asset)[outputs[i]] = IF outputs[i] \in C THEN Amounts[outputs[i]] ELSE 0
    <2>1. outputs[i] \in Row /\ outputs[i] \in Range(outputs)
        BY DEF Range
    <2> QED
        BY <2>1 DEF AmountIn, Amounts, IsChange
<1>3. CountsOnly(inputs, AmountIn({"coin", "message"}, asset), Amounts, S)
    BY <1>1 DEF CountsOnly
<1>4. CountsOnly(outputs, AmountIn({"change"}, asset), Amounts, C)
    BY <1>2 DEF CountsOnly
<1> HIDE DEF S, C
<1>5. Amount(Kept(inputs, S)) = Total(inputs, AmountIn({"coin", "message"}, asset))
    BY <1>3, KeptAmount
<1>6. /\ Kept(outputs, C) \in Seq(Row)
      /\ Amount(Kept(outputs, C)) = Total(outputs, AmountIn({"change"}, asset))
    BY <1>4, KeptAmount
<1>7. /\ Amount(SpentRows(inputs, asset)) = Total(inputs, AmountIn({"coin", "message"}, asset))
      /\ ChangeRows(outputs, asset) \in Seq(Row)
      /\ Amount(ChangeRows(outputs, asset)) = Total(outputs, AmountIn({"change"}, asset))
    BY <1>5, <1>6 DEF SpentRows, ChangeRows, S, C
<1> DEFINE spent == Amount(SpentRows(inputs, asset))
           change == ChangeRows(outputs, asset)
           W == CHOOSE left : IsLeft(left, spent, change)
<1>8. spent \in Nat /\ change \in Seq(Row) /\ Amount(change) <= spent
    BY <1>7, TotalIsNatural
<1>9. Spent(inputs, outputs, asset) = W[Len(change)]
    BY Zenon DEF Spent, IsLeft
<1> HIDE DEF spent, change
<1>10. IsLeft(W, spent, change)
    <2>1. spent \in Int
        BY <1>8
    <2> QED
        BY <1>8, <2>1, LeftExists, Zenon
<1>11. W[Len(change)] = spent - Amount(change)
    <2> HIDE DEF W
    <2> QED
        BY <1>8, <1>10, LeftIsTheRest
<1> QED
    BY <1>7, <1>9, <1>11 DEF spent, change

-----------------------------------------------------------------------------
(***************************************************************************)
(* What the rows that are inserted say the vault has gained.               *)
(***************************************************************************)
DepositRow == [asset : Assets, amount : Int, isDeposit : BOOLEAN]

\* What a row says of an asset.
Gain(asset) ==
    [row \in DepositRow |-> IF row.asset = asset THEN FormatedAmount(row) ELSE 0]

\* Gained adds up what the rows say.
LEMMA GainedIsTotal ==
    ASSUME NEW deposits \in Seq(DepositRow), NEW asset
    PROVE  Gained(deposits, asset) = Total(deposits, Gain(asset))
<1>1. ASSUME NEW i \in DOMAIN deposits
      PROVE  (IF deposits[i].asset = asset THEN FormatedAmount(deposits[i]) ELSE 0) = Gain(asset)[deposits[i]]
    BY DEF Gain
<1>2. [i \in DOMAIN deposits |-> IF deposits[i].asset = asset THEN FormatedAmount(deposits[i]) ELSE 0]
        = Values(deposits, Gain(asset))
    BY <1>1 DEF Values
<1> QED
    BY <1>2 DEF Gained, Total

\* What a row says is an integer.
LEMMA GainType ==
    ASSUME NEW asset
    PROVE  IsValue(Gain(asset), DepositRow)
BY DEF IsValue, Gain, FormatedAmount, DepositRow

\* The amount of a row, if it is of the asset.
OfAsset(asset) == [row \in Row |-> IF row.asset = asset THEN row.amount ELSE 0]

\* The deposits of the rows that are kept say what these rows amount to.
LEMMA KeptDeposits ==
    ASSUME NEW rows \in Seq(Row), NEW S, NEW kinds, NEW asset,
           CountsOnly(rows, AmountIn(kinds, asset), OfAsset(asset), S)
    PROVE  /\ Deposits(Kept(rows, S)) \in Seq(DepositRow)
           /\ Total(Deposits(Kept(rows, S)), Gain(asset)) = Total(rows, AmountIn(kinds, asset))
<1>0. IsValue(OfAsset(asset), Row)
    BY DEF IsValue, OfAsset, Row
<1>1. IsValue(OfAsset(asset), Row) /\ IsValue(AmountIn(kinds, asset), Row)
    BY <1>0, AmountsType
<1>2. /\ Kept(rows, S) \in Seq(Row)
      /\ Total(Kept(rows, S), OfAsset(asset)) = Total(rows, AmountIn(kinds, asset))
    BY <1>1, TotalOfKept
<1> DEFINE k == Kept(rows, S)
<1>3. k \in Seq(Row)
    BY <1>2
<1> HIDE DEF k
<1>4. ASSUME NEW i \in 1..Len(k)
      PROVE  /\ Deposits(k)[i] \in DepositRow
             /\ Gain(asset)[Deposits(k)[i]] = OfAsset(asset)[k[i]]
    <2>1. k[i] \in Row /\ i \in DOMAIN k
        BY <1>3
    <2>2. Deposits(k)[i] = Deposit(k[i].asset, k[i].amount, TRUE)
        BY <2>1 DEF Deposits
    <2>3. Deposit(k[i].asset, k[i].amount, TRUE) \in DepositRow
        BY <2>1 DEF Deposit, DepositRow, Row
    <2> QED
        BY <2>1, <2>2, <2>3 DEF Gain, OfAsset, FormatedAmount, Deposit
<1>5. /\ DOMAIN k = 1..Len(k) /\ Len(k) \in Nat /\ DOMAIN Deposits(k) = 1..Len(k)
    BY <1>3 DEF Deposits
<1>6. Deposits(k) \in [1..Len(k) -> DepositRow]
    BY <1>4, <1>5 DEF Deposits
<1>7. Deposits(k) \in Seq(DepositRow) /\ Len(Deposits(k)) = Len(k)
    BY <1>5, <1>6
<1>8. Values(Deposits(k), Gain(asset)) = Values(k, OfAsset(asset))
    BY <1>4, <1>5 DEF Values
<1> QED
    BY <1>2, <1>7, <1>8 DEF Total, k

\* SetToSeq lists every member of a finite set once.
LEMMA SetToSeqIs ==
    ASSUME NEW D, IsFiniteSet(D)
    PROVE  /\ Cardinality(D) \in Nat
           /\ SetToSeq(D) \in [1..Cardinality(D) -> D]
           /\ \A i, j \in 1..Cardinality(D) : SetToSeq(D)[i] = SetToSeq(D)[j] => i = j
           /\ \A d \in D : \E i \in 1..Cardinality(D) : SetToSeq(D)[i] = d
<1> DEFINE n == Cardinality(D)
           f == SetToSeq(D)
<1>1. n \in Nat /\ ExistsBijection(1..n, D)
    BY FS_CardinalityType
<1>2. \E g \in [1..n -> D] : IsInjective(g)
    BY <1>1 DEF ExistsBijection, Bijection, Injection, IsInjective
<1>3. f \in [1..n -> D] /\ IsInjective(f)
    BY <1>2 DEF SetToSeq
<1>4. f \in Injection(1..n, D)
    BY <1>3 DEF Injection
<1>5. IsFiniteSet(1..n) /\ Cardinality(1..n) = Cardinality(D)
    BY <1>1, FS_Interval
<1>6. f \in Surjection(1..n, D)
    BY <1>4, <1>5, FS_Injection
<1> QED
    BY <1>1, <1>3, <1>6 DEF IsInjective, Surjection

\* What was spent is an integer, of every asset.
SpentIntegers(inputs, outputs) == \A asset \in Assets : Spent(inputs, outputs, asset) \in Int

\* The assets of the rows of the vault are assets.
LEMMA TouchedType ==
    ASSUME NEW inputs \in Seq(Row), NEW outputs \in Seq(Row)
    PROVE  Touched(inputs, outputs) \subseteq Assets
<1>1. Range(inputs) \subseteq Row /\ Range(outputs) \subseteq Row
    BY DEF Range
<1>2. \A row \in Row : row.asset \in Assets
    BY DEF Row
<1> QED
    BY <1>1, <1>2 DEF Touched

\* The rows spent say what was spent.
LEMMA SpentDepositsGain ==
    ASSUME NEW inputs \in Seq(Row), NEW outputs \in Seq(Row), SpentIntegers(inputs, outputs),
           NEW asset \in Assets
    PROVE  /\ SpentDeposits(inputs, outputs) \in Seq(DepositRow)
           /\ Total(SpentDeposits(inputs, outputs), Gain(asset))
                = IF asset \in Touched(inputs, outputs) THEN -Spent(inputs, outputs, asset) ELSE 0
<1> DEFINE T == Touched(inputs, outputs)
           Row1(a) == Deposit(a, Spent(inputs, outputs, a), FALSE)
           D == {Row1(a) : a \in T}
           n == Cardinality(D)
           seq == SetToSeq(D)
<1>1. T \subseteq Assets
    BY TouchedType
<1>2. \A a \in Assets : /\ Row1(a) \in DepositRow /\ Row1(a).asset = a
                        /\ Gain(asset)[Row1(a)] = IF a = asset THEN -Spent(inputs, outputs, a) ELSE 0
    BY DEF Deposit, DepositRow, Gain, FormatedAmount, SpentIntegers
<1>3. IsFiniteSet(D)
    <2>1. IsFiniteSet({Row1(ETH)} \cup {Row1(OtherAsset)})
        <3> HIDE DEF Row1
        <3>1. IsFiniteSet({Row1(ETH)})
            BY FS_Singleton
        <3> QED
            BY <3>1, FS_AddElement
    <2>2. D \in SUBSET ({Row1(ETH)} \cup {Row1(OtherAsset)})
        BY <1>1 DEF Assets
    <2> QED
        BY <2>1, <2>2, FS_Subset
<1>4. /\ n \in Nat
      /\ seq \in [1..n -> D]
      /\ \A i, j \in 1..n : seq[i] = seq[j] => i = j
      /\ \A d \in D : \E i \in 1..n : seq[i] = d
    BY <1>3, SetToSeqIs
<1>5. D \subseteq DepositRow
    BY <1>1, <1>2
<1>6. \A d \in D : \E a \in T : d = Row1(a)
    OBVIOUS
<1>7. \A a \in T : Row1(a) \in D
    OBVIOUS
<1>8. SpentDeposits(inputs, outputs) = seq
    BY DEF SpentDeposits
<1> HIDE DEF D, n, seq, Row1, T
<1>9. seq \in Seq(DepositRow) /\ Len(seq) = n /\ DOMAIN seq = 1..n
    BY <1>4, <1>5
<1> DEFINE f == Values(seq, Gain(asset))
<1>10. /\ AreIntegers(f, n)
       /\ \A i \in 1..n : f[i] = Gain(asset)[seq[i]]
    <2>1. AreIntegers(f, n)
        BY <1>9, GainType, ValuesType
    <2> QED
        BY <1>9, <2>1 DEF Values
<1>11. ASSUME NEW i \in 1..n
       PROVE  \E a \in T : seq[i] = Row1(a) /\ f[i] = IF a = asset THEN -Spent(inputs, outputs, a) ELSE 0
    <2>1. PICK a \in T : seq[i] = Row1(a)
        BY <1>4, <1>6
    <2> QED
        BY <1>1, <1>2, <1>10, <2>1
<1> HIDE DEF f
<1>12. CASE asset \in T
    <2>1. PICK j \in 1..n : seq[j] = Row1(asset)
        BY <1>4, <1>7, <1>12
    <2>2. ASSUME NEW i \in 1..n, i # j PROVE f[i] = 0
        <3>1. PICK a \in T : seq[i] = Row1(a) /\ f[i] = IF a = asset THEN -Spent(inputs, outputs, a) ELSE 0
            BY <1>11
        <3>2. a # asset
            BY <1>4, <2>1, <2>2, <3>1
        <3> QED
            BY <3>1, <3>2
    <2>3. f[j] = -Spent(inputs, outputs, asset)
        BY <1>2, <1>10, <2>1
    <2>4. ZeroBut(f, n, j) /\ j \in 1..(n + 1) /\ j <= n
        BY <1>4, <1>10, <2>2 DEF ZeroBut
    <2>5. SumTo(f, n) = f[j]
        BY <1>4, <2>4, SumOfOne
    <2> QED
        BY <1>8, <1>9, <1>12, <2>3, <2>5 DEF Total, f, T
<1>13. CASE asset \notin T
    <2>1. ASSUME NEW i \in 1..n PROVE f[i] = 0
        BY <1>11, <1>13
    <2>2. ZeroBut(f, n, n + 1) /\ n + 1 \in 1..(n + 1) /\ ~(n + 1 <= n)
        BY <1>4, <1>10, <2>1 DEF ZeroBut
    <2>3. SumTo(f, n) = 0
        BY <1>4, <2>2, SumOfOne
    <2> QED
        BY <1>8, <1>9, <1>13, <2>3 DEF Total, f, T
<1> QED
    BY <1>12, <1>13

-----------------------------------------------------------------------------
(***************************************************************************)
(* The amounts of a transaction add up.                                    *)
(***************************************************************************)

\* Rows that count for nothing amount to nothing.
LEMMA NothingCounts ==
    ASSUME NEW rows \in Seq(Row), NEW kinds, NEW asset,
           \A i \in 1..Len(rows) : AmountIn(kinds, asset)[rows[i]] = 0
    PROVE  Total(rows, AmountIn(kinds, asset)) = 0
<1> DEFINE n == Len(rows)
           f == Values(rows, AmountIn(kinds, asset))
<1>1. n \in Nat /\ AreIntegers(f, n)
    BY AmountsType, ValuesType
<1>2. ASSUME NEW i \in 1..n PROVE f[i] = 0
    BY DEF Values
<1> HIDE DEF n, f
<1>3. ZeroBut(f, n, n + 1) /\ n + 1 \in 1..(n + 1) /\ ~(n + 1 <= n)
    BY <1>1, <1>2 DEF ZeroBut
<1>4. SumTo(f, n) = 0
    BY <1>1, <1>3, SumOfOne
<1> QED
    BY <1>4 DEF Total, f, n

\* An asset that was not touched was neither spent nor given back.
LEMMA NotTouched ==
    ASSUME NEW inputs \in Seq(Row), BringETH(inputs), NEW outputs \in Seq(Row), NEW asset,
           asset \notin Touched(inputs, outputs)
    PROVE  /\ Total(inputs, AmountIn({"coin", "message"}, asset)) = 0
           /\ Total(outputs, AmountIn({"change"}, asset)) = 0
<1>1. ASSUME NEW i \in 1..Len(inputs)
      PROVE  AmountIn({"coin", "message"}, asset)[inputs[i]] = 0
    <2>1. inputs[i] \in Row /\ inputs[i] \in Range(inputs)
        BY DEF Range
    <2>2. ~(IsSpent(inputs[i]) /\ inputs[i].asset = asset)
        BY <2>1 DEF Touched
    <2> QED
        BY <2>1, <2>2 DEF AmountIn, IsSpent, IsMessage, BringETH
<1>2. ASSUME NEW i \in 1..Len(outputs)
      PROVE  AmountIn({"change"}, asset)[outputs[i]] = 0
    <2>1. outputs[i] \in Row /\ outputs[i] \in Range(outputs)
        BY DEF Range
    <2>2. ~(IsChange(outputs[i]) /\ outputs[i].asset = asset)
        BY <2>1 DEF Touched
    <2> QED
        BY <2>1, <2>2 DEF AmountIn, IsChange
<1> QED
    BY <1>1, <1>2, NothingCounts

\* What the vault received of an asset in messages and in outputs.
LEMMA ReceivedGain ==
    ASSUME NEW inputs \in Seq(Row), BringETH(inputs), NEW outputs \in Seq(Row), NEW asset
    PROVE  LET messages == Deposits(Kept(inputs, {i \in Range(inputs) : IsMessage(i)}))
               received == Deposits(Kept(outputs, {o \in Range(outputs) : IsReceived(o)}))
           IN  /\ messages \in Seq(DepositRow) /\ received \in Seq(DepositRow)
               /\ Total(messages, Gain(asset)) = Total(inputs, AmountIn({"message"}, asset))
               /\ Total(received, Gain(asset)) = Total(outputs, AmountIn({"coin", "variable"}, asset))
<1> DEFINE S == {i \in Range(inputs) : IsMessage(i)}
           C == {o \in Range(outputs) : IsReceived(o)}
<1>1. ASSUME NEW i \in 1..Len(inputs)
      PROVE  AmountIn({"message"}, asset)[inputs[i]] = IF inputs[i] \in S THEN OfAsset(asset)[inputs[i]] ELSE 0
    <2>1. inputs[i] \in Row /\ inputs[i] \in Range(inputs)
        BY DEF Range
    <2> QED
        BY <2>1 DEF AmountIn, OfAsset, IsMessage, BringETH
<1>2. ASSUME NEW i \in 1..Len(outputs)
      PROVE  AmountIn({"coin", "variable"}, asset)[outputs[i]]
               = IF outputs[i] \in C THEN OfAsset(asset)[outputs[i]] ELSE 0
    <2>1. outputs[i] \in Row /\ outputs[i] \in Range(outputs)
        BY DEF Range
    <2> QED
        BY <2>1 DEF AmountIn, OfAsset, IsReceived
<1>3. CountsOnly(inputs, AmountIn({"message"}, asset), OfAsset(asset), S)
    BY <1>1 DEF CountsOnly
<1>4. CountsOnly(outputs, AmountIn({"coin", "variable"}, asset), OfAsset(asset), C)
    BY <1>2 DEF CountsOnly
<1> HIDE DEF S, C
<1>5. /\ Deposits(Kept(inputs, S)) \in Seq(DepositRow)
      /\ Total(Deposits(Kept(inputs, S)), Gain(asset)) = Total(inputs, AmountIn({"message"}, asset))
    BY <1>3, KeptDeposits
<1>6. /\ Deposits(Kept(outputs, C)) \in Seq(DepositRow)
      /\ Total(Deposits(Kept(outputs, C)), Gain(asset)) = Total(outputs, AmountIn({"coin", "variable"}, asset))
    BY <1>4, KeptDeposits
<1> QED
    BY <1>5, <1>6 DEF S, C

(***************************************************************************)
(* The rows that makeDeposits makes of a transaction say what the coins of *)
(* the vault gained or lost in it: for any number of inputs and outputs of *)
(* any size, of the vault or not, unless the vault gets more change than   *)
(* it spent.                                                               *)
(***************************************************************************)
THEOREM DepositsAddUp ==
    ASSUME NEW inputs \in Seq(Row), BringETH(inputs), NEW outputs \in Seq(Row),
           Ordinary(inputs, outputs), NEW asset \in Assets
    PROVE  Gained(MakeDeposits(inputs, outputs), asset)
             = AmountOf(outputs, {"coin", "variable", "change"}, asset) - AmountOf(inputs, {"coin"}, asset)
<1> DEFINE spent(a) == Total(inputs, AmountIn({"coin", "message"}, a))
           change(a) == Total(outputs, AmountIn({"change"}, a))
           coins == Total(inputs, AmountIn({"coin"}, asset))
           brought == Total(inputs, AmountIn({"message"}, asset))
           got == Total(outputs, AmountIn({"coin", "variable"}, asset))
           messages == Deposits(Kept(inputs, {i \in Range(inputs) : IsMessage(i)}))
           paid == SpentDeposits(inputs, outputs)
           received == Deposits(Kept(outputs, {o \in Range(outputs) : IsReceived(o)}))
<1>1. ASSUME NEW a \in Assets
      PROVE  /\ Spent(inputs, outputs, a) = spent(a) - change(a)
             /\ spent(a) \in Nat /\ change(a) \in Nat
    <2>1. AmountOf(outputs, {"change"}, a) <= AmountOf(inputs, {"coin", "message"}, a)
        BY DEF Ordinary
    <2>2. change(a) <= spent(a)
        BY <2>1, AmountOfIsTotal
    <2>3. Spent(inputs, outputs, a) = spent(a) - change(a)
        BY <2>2, SpentIs
    <2> QED
        BY <2>3, TotalIsNatural
<1>2. SpentIntegers(inputs, outputs)
    <2> HIDE DEF spent, change
    <2> QED
        BY <1>1 DEF SpentIntegers
<1>3. /\ paid \in Seq(DepositRow)
      /\ Total(paid, Gain(asset)) = change(asset) - spent(asset)
    <2>1. /\ paid \in Seq(DepositRow)
          /\ Total(paid, Gain(asset)) = IF asset \in Touched(inputs, outputs)
                                          THEN -Spent(inputs, outputs, asset) ELSE 0
        BY <1>2, SpentDepositsGain
    <2>2. asset \notin Touched(inputs, outputs) => spent(asset) = 0 /\ change(asset) = 0
        BY NotTouched
    <2> HIDE DEF paid, spent, change
    <2> QED
        BY <1>1, <2>1, <2>2
<1>4. /\ messages \in Seq(DepositRow) /\ received \in Seq(DepositRow)
      /\ Total(messages, Gain(asset)) = brought /\ Total(received, Gain(asset)) = got
    BY ReceivedGain
<1>5. spent(asset) = coins + brought
    <2>1. {"coin"} \cup {"message"} = {"coin", "message"} /\ {"coin"} \cap {"message"} = {}
        OBVIOUS
    <2>2. Total(inputs, AmountIn({"coin"} \cup {"message"}, asset)) = coins + brought
        BY <2>1, AmountOfKinds
    <2> QED
        BY <2>1, <2>2
<1>6. Total(outputs, AmountIn({"coin", "variable", "change"}, asset)) = got + change(asset)
    <2>1. /\ {"coin", "variable"} \cup {"change"} = {"coin", "variable", "change"}
          /\ {"coin", "variable"} \cap {"change"} = {}
        OBVIOUS
    <2>2. Total(outputs, AmountIn({"coin", "variable"} \cup {"change"}, asset)) = got + change(asset)
        BY <2>1, AmountOfKinds
    <2> QED
        BY <2>1, <2>2
<1>7. coins \in Nat /\ brought \in Nat /\ got \in Nat
    BY TotalIsNatural
<1>8. MakeDeposits(inputs, outputs) = messages \o paid \o received
    BY DEF MakeDeposits
<1>9. /\ AmountOf(outputs, {"coin", "variable", "change"}, asset) = got + change(asset)
      /\ AmountOf(inputs, {"coin"}, asset) = coins
    BY <1>6, AmountOfIsTotal
<1> HIDE DEF messages, paid, received, coins, brought, got, spent, change
<1>10. /\ messages \o paid \in Seq(DepositRow)
       /\ messages \o paid \o received \in Seq(DepositRow)
    BY <1>3, <1>4
<1>11. Total(messages \o paid, Gain(asset)) = Total(messages, Gain(asset)) + Total(paid, Gain(asset))
    BY <1>3, <1>4, GainType, TotalJoined
<1>12. Total(messages \o paid \o received, Gain(asset))
         = Total(messages \o paid, Gain(asset)) + Total(received, Gain(asset))
    BY <1>4, <1>10, GainType, TotalJoined
<1>13. Gained(MakeDeposits(inputs, outputs), asset) = Total(messages \o paid \o received, Gain(asset))
    BY <1>8, <1>10, GainedIsTotal
<1>14. Total(messages \o paid \o received, Gain(asset)) = (brought + (change(asset) - spent(asset))) + got
    BY <1>3, <1>4, <1>11, <1>12
<1> QED
    BY <1>1, <1>5, <1>7, <1>9, <1>13, <1>14

-----------------------------------------------------------------------------
(***************************************************************************)
(* The pages of an answer.                                                 *)
(***************************************************************************)

\* g joins the first n parts, and begins again after each part that fails.
Gathers(g, parts, failing, n) ==
    /\ g[0] = <<>>
    /\ \A k \in 1..n : g[k] = IF k \in failing THEN <<>> ELSE g[k - 1] \o parts[k]

\* The parts are sequences of rows in R.
ArePartsOf(parts, R, n) == \A k \in 1..n : parts[k] \in Seq(R)

\* What the parts are worth of which neither they nor a later one fails.
Worth(parts, failing, v, n) ==
    [k \in 1..n |-> IF \E j \in k..n : j \in failing THEN 0 ELSE Total(parts[k], v)]

\* The total of what is gathered is that of the parts that are counted.
LEMMA GatheredTotal ==
    ASSUME NEW R, NEW n \in Nat, NEW parts, ArePartsOf(parts, R, n), NEW failing,
           NEW g, Gathers(g, parts, failing, n), NEW v, IsValue(v, R)
    PROVE  /\ g[n] \in Seq(R)
           /\ AreIntegers(Worth(parts, failing, v, n), n)
           /\ Total(g[n], v) = SumTo(Worth(parts, failing, v, n), n)
<1> DEFINE w(m) == Worth(parts, failing, v, m)
           I == {m \in Nat : m <= n => /\ g[m] \in Seq(R)
                                     /\ AreIntegers(w(m), m)
                                     /\ Total(g[m], v) = SumTo(w(m), m)}
<1>1. \A k \in 1..n : parts[k] \in Seq(R) /\ Total(parts[k], v) \in Int
    BY TotalType DEF ArePartsOf
<1>2. ASSUME NEW m \in 0..n PROVE AreIntegers(w(m), m)
    BY <1>1 DEF Worth, AreIntegers
<1>3. 0 \in I
    <2>1. AreIntegers(w(0), 0)
        BY <1>2
    <2>2. SumTo(w(0), 0) = 0
        BY <2>1, SumStep
    <2>3. g[0] = <<>> /\ <<>> \in Seq(R) /\ Total(<<>>, v) = 0
        BY TotalType DEF Gathers
    <2> HIDE DEF w
    <2> QED
        BY <2>1, <2>2, <2>3
<1>4. ASSUME NEW m \in I PROVE m + 1 \in I
    <2> SUFFICES ASSUME m + 1 <= n
                 PROVE  /\ g[m + 1] \in Seq(R)
                        /\ AreIntegers(w(m + 1), m + 1)
                        /\ Total(g[m + 1], v) = SumTo(w(m + 1), m + 1)
        OBVIOUS
    <2>1. /\ m \in Nat /\ m \in 0..n /\ m + 1 \in 1..n /\ m + 1 \in 0..n /\ m + 1 \in Nat
          /\ (m + 1) - 1 = m /\ m + 1 > 0 /\ m <= n
        OBVIOUS
    <2>2. g[m] \in Seq(R) /\ Total(g[m], v) = SumTo(w(m), m)
        BY <2>1
    <2>3. g[m + 1] = IF m + 1 \in failing THEN <<>> ELSE g[m] \o parts[m + 1]
        BY <2>1 DEF Gathers
    <2>4. AreIntegers(w(m), m) /\ AreIntegers(w(m + 1), m + 1)
        BY <1>2, <2>1
    <2>5. parts[m + 1] \in Seq(R)
        BY <1>1, <2>1
    <2>6. CASE m + 1 \in failing
        <3>1. ASSUME NEW k \in 1..(m + 1) PROVE w(m + 1)[k] = 0
            BY <2>6 DEF Worth
        <3> HIDE DEF w, I
        <3>2. ZeroBut(w(m + 1), m + 1, (m + 1) + 1) /\ (m + 1) + 1 \in 1..((m + 1) + 1)
              /\ ~((m + 1) + 1 <= m + 1)
            BY <2>1, <2>4, <3>1 DEF ZeroBut
        <3>3. SumTo(w(m + 1), m + 1) = 0
            BY <2>1, <3>2, SumOfOne
        <3>4. <<>> \in Seq(R) /\ Total(<<>>, v) = 0
            BY TotalType
        <3> QED
            BY <2>3, <2>4, <2>6, <3>3, <3>4
    <2>7. CASE m + 1 \notin failing
        <3>1. ASSUME NEW k \in 1..m PROVE w(m + 1)[k] = w(m)[k]
            <4>1. (\E j \in k..(m + 1) : j \in failing) <=> (\E j \in k..m : j \in failing)
                <5>1. \A j \in k..(m + 1) : j \in k..m \/ j = m + 1
                    OBVIOUS
                <5>2. k..m \subseteq k..(m + 1)
                    OBVIOUS
                <5> QED
                    BY <2>7, <5>1, <5>2
            <4>2. k \in 1..(m + 1)
                BY <2>1
            <4> QED
                BY <4>1, <4>2 DEF Worth
        <3>2. w(m + 1)[m + 1] = Total(parts[m + 1], v)
            <4>1. m + 1 \in 1..(m + 1) /\ \A j \in (m + 1)..(m + 1) : j = m + 1
                BY <2>1
            <4> QED
                BY <2>7, <4>1 DEF Worth
        <3> HIDE DEF w, I
        <3>3. Agree(w(m), w(m + 1), m)
            BY <3>1 DEF Agree
        <3>4. SumTo(w(m + 1), m) = SumTo(w(m), m)
            BY <2>1, <2>4, <3>3, SumSame
        <3>5. SumTo(w(m + 1), m + 1) = SumTo(w(m + 1), (m + 1) - 1) + w(m + 1)[m + 1]
            BY <2>1, <2>4, SumStep
        <3>6. Total(g[m] \o parts[m + 1], v) = Total(g[m], v) + Total(parts[m + 1], v)
            BY <2>2, <2>5, TotalJoined
        <3>7. g[m] \o parts[m + 1] \in Seq(R)
            BY <2>2, <2>5
        <3> QED
            BY <2>1, <2>2, <2>3, <2>4, <2>7, <3>2, <3>4, <3>5, <3>6, <3>7
    <2> QED
        BY <2>6, <2>7
<1>5. I \in SUBSET Nat
    OBVIOUS
<1> HIDE DEF I, w
<1>6. n \in I
    BY <1>3, <1>4, <1>5, NatSetInduction
<1> QED
    BY <1>6 DEF I, w

\* A message brings the base asset.
Input == {row \in Row : row.kind = "message" => row.asset = ETH}

AnyPage == [inputs : Seq(Input), outputs : Seq(Row), failed : SUBSET Name]

Nothing == [inputs |-> <<>>, outputs |-> <<>>]

\* The rows of a transaction of one page, behind those of the pages before it.
Behind(group, page, tx) ==
    [inputs |-> group.inputs \o Of(page.inputs, tx), outputs |-> group.outputs \o Of(page.outputs, tx)]

\* The inputs of that.
LEMMA InputsBehind ==
    ASSUME NEW group, NEW page, NEW tx
    PROVE  Behind(group, page, tx).inputs = group.inputs \o Of(page.inputs, tx)
<1> DEFINE x == group.inputs \o Of(page.inputs, tx)
           y == group.outputs \o Of(page.outputs, tx)
<1>1. Behind(group, page, tx) = [inputs |-> x, outputs |-> y]
    BY Zenon DEF Behind
<1> HIDE DEF x, y
<1>2. Behind(group, page, tx).inputs = x
    BY <1>1
<1> QED
    BY <1>2, Zenon DEF x

\* The outputs of that.
LEMMA OutputsBehind ==
    ASSUME NEW group, NEW page, NEW tx
    PROVE  Behind(group, page, tx).outputs = group.outputs \o Of(page.outputs, tx)
<1> DEFINE x == group.inputs \o Of(page.inputs, tx)
           y == group.outputs \o Of(page.outputs, tx)
<1>1. Behind(group, page, tx) = [inputs |-> x, outputs |-> y]
    BY Zenon DEF Behind
<1> HIDE DEF x, y
<1>2. Behind(group, page, tx).outputs = y
    BY <1>1
<1> QED
    BY <1>2, Zenon DEF y

\* What the definition of GroupByTransaction asks of the function.
IsGrouped(grouped, pages, tx) ==
    grouped = [k \in 0..Len(pages) |->
                 IF k = 0 \/ tx \in pages[k].failed THEN [inputs |-> <<>>, outputs |-> <<>>]
                 ELSE [inputs |-> grouped[k - 1].inputs \o Of(pages[k].inputs, tx),
                       outputs |-> grouped[k - 1].outputs \o Of(pages[k].outputs, tx)]]

\* The rows of a transaction are rows.
LEMMA OfType ==
    ASSUME NEW R, NEW rows \in Seq(R), NEW tx
    PROVE  Of(rows, tx) \in Seq(R)
<1> DEFINE zero == [row \in R |-> 0]
           S == {row \in Range(rows) : row.tx = tx}
<1>1. IsValue(zero, R)
    BY DEF IsValue
<1>2. CountsOnly(rows, zero, zero, S)
    BY DEF CountsOnly
<1> HIDE DEF zero, S
<1>3. Kept(rows, S) \in Seq(R)
    BY <1>1, <1>2, TotalOfKept
<1> QED
    BY <1>3 DEF Of, S

\* There is such a function.
LEMMA GroupExists ==
    ASSUME NEW pages \in Seq(AnyPage), NEW tx
    PROVE  \E grouped : IsGrouped(grouped, pages, tx)
<1> DEFINE V == [inputs : Seq(Input), outputs : Seq(Row)]
           n == Len(pages)
           step == [p \in (1..n) \X V |->
                      IF tx \in pages[p[1]].failed THEN Nothing ELSE Behind(p[2], pages[p[1]], tx)]
<1>1. n \in Nat /\ \A k \in 1..n : pages[k] \in AnyPage
    OBVIOUS
<1>2. Nothing \in V
    BY DEF Nothing
<1>3. ASSUME NEW group \in V, NEW page \in AnyPage PROVE Behind(group, page, tx) \in V
    <2>1. page.inputs \in Seq(Input) /\ page.outputs \in Seq(Row)
        BY DEF AnyPage
    <2>2. Of(page.inputs, tx) \in Seq(Input) /\ Of(page.outputs, tx) \in Seq(Row)
        BY <2>1, OfType
    <2>3. /\ group.inputs \in Seq(Input) /\ group.outputs \in Seq(Row)
          /\ group.inputs \o Of(page.inputs, tx) \in Seq(Input)
          /\ group.outputs \o Of(page.outputs, tx) \in Seq(Row)
        BY <2>2
    <2> QED
        BY <2>3 DEF Behind
<1>4. ASSUME NEW k \in 1..n, NEW group \in V
      PROVE  step[<<k, group>>] = IF tx \in pages[k].failed THEN Nothing ELSE Behind(group, pages[k], tx)
    OBVIOUS
<1>5. step \in [(1..n) \X V -> V]
    BY <1>1, <1>2, <1>3
<1> HIDE DEF V, n, step
<1>6. PICK g \in [0..n -> V] : Iterates(g, Nothing, step, n)
    BY <1>1, <1>2, <1>5, IterationExists
<1>7. ASSUME NEW k \in 0..n
      PROVE  (IF k = 0 THEN Nothing ELSE step[<<k, g[k - 1]>>])
               = IF k = 0 \/ tx \in pages[k].failed THEN Nothing ELSE Behind(g[k - 1], pages[k], tx)
    <2>1. CASE k = 0
        BY <2>1
    <2>2. CASE k # 0
        <3>1. k \in 1..n /\ g[k - 1] \in V
            BY <1>1, <2>2
        <3> QED
            BY <2>2, <3>1, <1>4
    <2> QED
        BY <2>1, <2>2
<1>8. g = [k \in 0..n |-> IF k = 0 \/ tx \in pages[k].failed THEN Nothing
                          ELSE Behind(g[k - 1], pages[k], tx)]
    BY <1>6, <1>7 DEF Iterates
<1>9. IsGrouped(g, pages, tx)
    BY <1>8, Zenon DEF IsGrouped, Nothing, Behind, n
<1> QED
    BY <1>9

\* The inputs and the outputs of a transaction, page by page; the pages that say that it failed.
InputsOf(pages, tx) == [k \in 1..Len(pages) |-> Of(pages[k].inputs, tx)]
OutputsOf(pages, tx) == [k \in 1..Len(pages) |-> Of(pages[k].outputs, tx)]
FailedIn(pages, tx) == {k \in 1..Len(pages) : tx \in pages[k].failed}

\* So groupByTransaction gathers the inputs and the outputs.
LEMMA GroupGathers ==
    ASSUME NEW pages \in Seq(AnyPage), NEW tx
    PROVE  \E grouped :
             /\ GroupByTransaction(pages, tx) = grouped[Len(pages)]
             /\ Gathers([k \in 0..Len(pages) |-> grouped[k].inputs], InputsOf(pages, tx),
                        FailedIn(pages, tx), Len(pages))
             /\ Gathers([k \in 0..Len(pages) |-> grouped[k].outputs], OutputsOf(pages, tx),
                        FailedIn(pages, tx), Len(pages))
<1> DEFINE W == CHOOSE grouped : IsGrouped(grouped, pages, tx)
           n == Len(pages)
<1>1. IsGrouped(W, pages, tx)
    BY GroupExists, Zenon
<1>2. GroupByTransaction(pages, tx) = W[n]
    BY Zenon DEF GroupByTransaction, IsGrouped
<1>3. n \in Nat
    OBVIOUS
<1> HIDE DEF W
<1>4. \A k \in 0..n : W[k] = IF k = 0 \/ tx \in pages[k].failed THEN Nothing
                              ELSE Behind(W[k - 1], pages[k], tx)
    BY <1>1, Zenon DEF IsGrouped, Nothing, Behind
<1>n. Nothing.inputs = <<>> /\ Nothing.outputs = <<>>
    BY DEF Nothing
<1>5. W[0].inputs = <<>> /\ W[0].outputs = <<>>
    <2>1. 0 \in 0..n
        BY <1>3
    <2>2. W[0] = Nothing
        BY <1>4, <2>1
    <2> QED
        BY <1>n, <2>2
<1>6. ASSUME NEW k \in 1..n
      PROVE  /\ W[k].inputs = IF k \in FailedIn(pages, tx) THEN <<>>
                              ELSE W[k - 1].inputs \o InputsOf(pages, tx)[k]
             /\ W[k].outputs = IF k \in FailedIn(pages, tx) THEN <<>>
                               ELSE W[k - 1].outputs \o OutputsOf(pages, tx)[k]
    <2>1. k \in 0..n /\ k # 0
        BY <1>3
    <2>2. k \in FailedIn(pages, tx) <=> tx \in pages[k].failed
        BY DEF FailedIn
    <2>3. CASE tx \in pages[k].failed
        <3>1. W[k] = Nothing
            BY <1>4, <2>1, <2>3
        <3> QED
            BY <1>n, <2>2, <2>3, <3>1
    <2>4. CASE tx \notin pages[k].failed
        <3>1. W[k] = Behind(W[k - 1], pages[k], tx)
            BY <1>4, <2>1, <2>4
        <3>2. /\ W[k].inputs = W[k - 1].inputs \o Of(pages[k].inputs, tx)
              /\ W[k].outputs = W[k - 1].outputs \o Of(pages[k].outputs, tx)
            <4>1. PICK group : group = W[k - 1]
                OBVIOUS
            <4>2. PICK page : page = pages[k]
                OBVIOUS
            <4>3. W[k] = Behind(group, page, tx)
                BY <3>1, <4>1, <4>2
            <4>4. Behind(group, page, tx).inputs = group.inputs \o Of(page.inputs, tx)
                BY InputsBehind
            <4>5. Behind(group, page, tx).outputs = group.outputs \o Of(page.outputs, tx)
                BY OutputsBehind
            <4>6. W[k].inputs = group.inputs \o Of(page.inputs, tx)
                BY <4>3, <4>4
            <4>7. W[k].outputs = group.outputs \o Of(page.outputs, tx)
                BY <4>3, <4>5
            <4> QED
                BY <4>1, <4>2, <4>6, <4>7
        <3>3. /\ InputsOf(pages, tx)[k] = Of(pages[k].inputs, tx)
              /\ OutputsOf(pages, tx)[k] = Of(pages[k].outputs, tx)
            BY DEF InputsOf, OutputsOf
        <3> QED
            BY <2>2, <2>4, <3>2, <3>3
    <2> QED
        BY <2>3, <2>4
<1> DEFINE gi == [k \in 0..n |-> W[k].inputs]
           go == [k \in 0..n |-> W[k].outputs]
<1>7. ASSUME NEW k \in 1..n
      PROVE  /\ gi[k] = W[k].inputs /\ gi[k - 1] = W[k - 1].inputs
             /\ go[k] = W[k].outputs /\ go[k - 1] = W[k - 1].outputs
    BY <1>3
<1>8. gi[0] = <<>> /\ go[0] = <<>>
    BY <1>3, <1>5
<1> HIDE DEF gi, go, n
<1>9. Gathers(gi, InputsOf(pages, tx), FailedIn(pages, tx), n)
    BY <1>6, <1>7, <1>8 DEF Gathers
<1>10. Gathers(go, OutputsOf(pages, tx), FailedIn(pages, tx), n)
    BY <1>6, <1>7, <1>8 DEF Gathers
<1> QED
    BY <1>2, <1>9, <1>10 DEF gi, go, n

\* Rows that are gathered are of the type of the parts.
LEMMA GatheredType ==
    ASSUME NEW R, NEW n \in Nat, NEW parts, ArePartsOf(parts, R, n), NEW failing,
           NEW g, Gathers(g, parts, failing, n)
    PROVE  g[n] \in Seq(R)
<1> DEFINE zero == [row \in R |-> 0]
<1>1. IsValue(zero, R)
    BY DEF IsValue
<1> HIDE DEF zero
<1> QED
    BY <1>1, GatheredTotal

\* An input is a row.
LEMMA InputsAreRows ==
    /\ \A rows \in Seq(Input) : rows \in Seq(Row)
    /\ \A rows \in Seq(Input) : BringETH(rows)
<1>1. Input \subseteq Row
    BY DEF Input
<1>2. ASSUME NEW rows \in Seq(Input) PROVE rows \in Seq(Row)
    BY <1>1
<1>3. ASSUME NEW rows \in Seq(Input) PROVE BringETH(rows)
    <2>1. ASSUME NEW i \in 1..Len(rows) PROVE rows[i] \in Input
        OBVIOUS
    <2> QED
        BY <2>1 DEF BringETH, Input
<1> QED
    BY <1>2, <1>3

\* What the pages have of a transaction.
LEMMA PartsOfPages ==
    ASSUME NEW pages \in Seq(AnyPage), NEW tx
    PROVE  /\ Len(pages) \in Nat
           /\ ArePartsOf(InputsOf(pages, tx), Input, Len(pages))
           /\ ArePartsOf(InputsOf(pages, tx), Row, Len(pages))
           /\ ArePartsOf(OutputsOf(pages, tx), Row, Len(pages))
<1>1. ASSUME NEW k \in 1..Len(pages)
      PROVE  /\ InputsOf(pages, tx)[k] \in Seq(Input)
             /\ InputsOf(pages, tx)[k] \in Seq(Row)
             /\ OutputsOf(pages, tx)[k] \in Seq(Row)
    <2>0. pages[k] \in AnyPage
        OBVIOUS
    <2>1. pages[k].inputs \in Seq(Input) /\ pages[k].outputs \in Seq(Row)
        BY <2>0 DEF AnyPage
    <2>2. Of(pages[k].inputs, tx) \in Seq(Input) /\ Of(pages[k].outputs, tx) \in Seq(Row)
        BY <2>1, OfType
    <2>3. /\ InputsOf(pages, tx)[k] = Of(pages[k].inputs, tx)
          /\ OutputsOf(pages, tx)[k] = Of(pages[k].outputs, tx)
        BY DEF InputsOf, OutputsOf
    <2> QED
        BY <2>2, <2>3, InputsAreRows
<1> QED
    BY <1>1 DEF ArePartsOf

\* What the vault has, of some kinds and of an asset, in the parts that are counted.
Counted(parts, failing, kinds, asset, n) == SumTo(Worth(parts, failing, AmountIn(kinds, asset), n), n)

\* The amount of what is gathered.
LEMMA GatheredAmount ==
    ASSUME NEW n \in Nat, NEW parts, ArePartsOf(parts, Row, n), NEW failing,
           NEW g, Gathers(g, parts, failing, n), NEW kinds, NEW asset
    PROVE  AmountOf(g[n], kinds, asset) = Counted(parts, failing, kinds, asset, n)
<1>1. IsValue(AmountIn(kinds, asset), Row)
    BY AmountsType
<1>2. g[n] \in Seq(Row)
    BY GatheredType
<1>3. Total(g[n], AmountIn(kinds, asset)) = SumTo(Worth(parts, failing, AmountIn(kinds, asset), n), n)
    BY <1>1, GatheredTotal
<1>4. AmountOf(g[n], kinds, asset) = Total(g[n], AmountIn(kinds, asset))
    BY <1>2, AmountOfIsTotal
<1> QED
    BY <1>3, <1>4 DEF Counted

\* The rows that groupByTransaction gathers.
LEMMA GroupIs ==
    ASSUME NEW pages \in Seq(AnyPage), NEW tx, NEW n, n = Len(pages)
    PROVE  LET rows == GroupByTransaction(pages, tx)
           IN  /\ rows.inputs \in Seq(Input)
               /\ rows.outputs \in Seq(Row)
               /\ \A kinds, asset :
                    /\ AmountOf(rows.inputs, kinds, asset)
                         = Counted(InputsOf(pages, tx), FailedIn(pages, tx), kinds, asset, n)
                    /\ AmountOf(rows.outputs, kinds, asset)
                         = Counted(OutputsOf(pages, tx), FailedIn(pages, tx), kinds, asset, n)
<1>1. PICK W :
             /\ GroupByTransaction(pages, tx) = W[Len(pages)]
             /\ Gathers([k \in 0..Len(pages) |-> W[k].inputs], InputsOf(pages, tx),
                        FailedIn(pages, tx), Len(pages))
             /\ Gathers([k \in 0..Len(pages) |-> W[k].outputs], OutputsOf(pages, tx),
                        FailedIn(pages, tx), Len(pages))
    BY GroupGathers
<1> DEFINE gi == [k \in 0..Len(pages) |-> W[k].inputs]
           go == [k \in 0..Len(pages) |-> W[k].outputs]
           rows == GroupByTransaction(pages, tx)
           inputs == InputsOf(pages, tx)
           outputs == OutputsOf(pages, tx)
           failing == FailedIn(pages, tx)
<1>2. /\ n \in Nat /\ ArePartsOf(inputs, Input, n) /\ ArePartsOf(inputs, Row, n)
      /\ ArePartsOf(outputs, Row, n)
    BY PartsOfPages
<1>3. rows.inputs = gi[n] /\ rows.outputs = go[n]
    BY <1>1, <1>2
<1>4. Gathers(gi, inputs, failing, n) /\ Gathers(go, outputs, failing, n)
    BY <1>1
<1> HIDE DEF gi, go, rows, inputs, outputs, failing
<1>5. rows.inputs \in Seq(Input) /\ rows.inputs \in Seq(Row) /\ rows.outputs \in Seq(Row)
    <2>1. gi[n] \in Seq(Input) /\ gi[n] \in Seq(Row) /\ go[n] \in Seq(Row)
        BY <1>2, <1>4, GatheredType
    <2> QED
        BY <1>3, <2>1
<1>6. ASSUME NEW kinds, NEW asset
      PROVE  /\ AmountOf(rows.inputs, kinds, asset) = Counted(inputs, failing, kinds, asset, n)
             /\ AmountOf(rows.outputs, kinds, asset) = Counted(outputs, failing, kinds, asset, n)
    <2>1. AmountOf(gi[n], kinds, asset) = Counted(inputs, failing, kinds, asset, n)
        BY <1>2, <1>4, GatheredAmount
    <2>2. AmountOf(go[n], kinds, asset) = Counted(outputs, failing, kinds, asset, n)
        BY <1>2, <1>4, GatheredAmount
    <2> QED
        BY <1>3, <2>1, <2>2
<1> QED
    BY <1>5, <1>6 DEF rows, inputs, outputs, failing

(***************************************************************************)
(* groupByTransaction and makeDeposits: whatever pages the answer of the   *)
(* indexer is cut into, if a transaction gives the vault no more change    *)
(* than it spent, what is stored for it of an asset is the difference of   *)
(* what the outputs bring and the coins take, on the pages that are        *)
(* counted: those after the last one that says that it failed.             *)
(***************************************************************************)
THEOREM BalanceOfPages ==
    ASSUME NEW pages \in Seq(AnyPage), NEW tx, NEW asset \in Assets, NEW n, n = Len(pages),
           Ordinary(GroupByTransaction(pages, tx).inputs, GroupByTransaction(pages, tx).outputs)
    PROVE  Balance(pages, tx, asset)
             = Counted(OutputsOf(pages, tx), FailedIn(pages, tx), {"coin", "variable", "change"}, asset, n)
               - Counted(InputsOf(pages, tx), FailedIn(pages, tx), {"coin"}, asset, n)
<1> DEFINE rows == GroupByTransaction(pages, tx)
<1>1. /\ rows.inputs \in Seq(Input)
      /\ rows.outputs \in Seq(Row)
      /\ \A kinds :
           /\ AmountOf(rows.inputs, kinds, asset)
                = Counted(InputsOf(pages, tx), FailedIn(pages, tx), kinds, asset, n)
           /\ AmountOf(rows.outputs, kinds, asset)
                = Counted(OutputsOf(pages, tx), FailedIn(pages, tx), kinds, asset, n)
    BY GroupIs
<1>2. rows.inputs \in Seq(Row) /\ BringETH(rows.inputs)
    BY <1>1, InputsAreRows
<1>3. Balance(pages, tx, asset) = Gained(MakeDeposits(rows.inputs, rows.outputs), asset)
    BY DEF Balance
<1> HIDE DEF rows
<1>4. Ordinary(rows.inputs, rows.outputs)
    BY DEF rows
<1>5. Gained(MakeDeposits(rows.inputs, rows.outputs), asset)
        = AmountOf(rows.outputs, {"coin", "variable", "change"}, asset) - AmountOf(rows.inputs, {"coin"}, asset)
    BY <1>1, <1>2, <1>4, DepositsAddUp
<1> QED
    BY <1>1, <1>3, <1>5

-----------------------------------------------------------------------------
(***************************************************************************)
(* The transactions and the pages of the property.                         *)
(***************************************************************************)

\* What one page, and what two pages, count for.
LEMMA CountedOfOne ==
    ASSUME NEW parts, ArePartsOf(parts, Row, 1), NEW failing, NEW kinds, NEW asset
    PROVE  Counted(parts, failing, kinds, asset, 1)
             = IF 1 \in failing THEN 0 ELSE AmountOf(parts[1], kinds, asset)
<1> DEFINE v == AmountIn(kinds, asset)
           w == Worth(parts, failing, v, 1)
<1>1. parts[1] \in Seq(Row)
    BY DEF ArePartsOf
<1>2. AmountOf(parts[1], kinds, asset) = Total(parts[1], v) /\ Total(parts[1], v) \in Int
    BY <1>1, AmountOfIsTotal, TotalIsNatural
<1> HIDE DEF v
<1>3. w[1] = IF 1 \in failing THEN 0 ELSE Total(parts[1], v)
    BY DEF Worth
<1> HIDE DEF w
<1>4. AreIntegers(w, 1)
    BY <1>2, <1>3 DEF AreIntegers
<1>5. AreIntegers(w, 0)
    BY DEF AreIntegers
<1>6. SumTo(w, 0) = 0
    BY <1>5, SumStep
<1>7. SumTo(w, 1) = SumTo(w, 1 - 1) + w[1]
    BY <1>4, SumStep
<1>8. SumTo(w, 1) = w[1]
    BY <1>2, <1>3, <1>6, <1>7
<1> QED
    BY <1>2, <1>3, <1>8 DEF Counted, w, v

\* A page that says that the transaction failed takes what the page before it counts for too.
LEMMA CountedOfTwo ==
    ASSUME NEW parts, ArePartsOf(parts, Row, 2), NEW failing, NEW kinds, NEW asset
    PROVE  Counted(parts, failing, kinds, asset, 2)
             = IF 2 \in failing THEN 0
               ELSE IF 1 \in failing THEN AmountOf(parts[2], kinds, asset)
               ELSE AmountOf(parts[1], kinds, asset) + AmountOf(parts[2], kinds, asset)
<1> DEFINE v == AmountIn(kinds, asset)
           w == Worth(parts, failing, v, 2)
<1>1. parts[1] \in Seq(Row) /\ parts[2] \in Seq(Row)
    BY DEF ArePartsOf
<1>2. /\ AmountOf(parts[1], kinds, asset) = Total(parts[1], v) /\ Total(parts[1], v) \in Int
      /\ AmountOf(parts[2], kinds, asset) = Total(parts[2], v) /\ Total(parts[2], v) \in Int
    BY <1>1, AmountOfIsTotal, TotalIsNatural
<1> HIDE DEF v
<1>3. /\ w[1] = IF 1 \in failing \/ 2 \in failing THEN 0 ELSE Total(parts[1], v)
      /\ w[2] = IF 2 \in failing THEN 0 ELSE Total(parts[2], v)
    BY DEF Worth
<1> HIDE DEF w
<1>4. AreIntegers(w, 2) /\ AreIntegers(w, 1) /\ AreIntegers(w, 0)
    BY <1>2, <1>3 DEF AreIntegers
<1>5. SumTo(w, 0) = 0
    BY <1>4, SumStep
<1>6. SumTo(w, 1) = SumTo(w, 1 - 1) + w[1]
    BY <1>4, SumStep
<1>7. SumTo(w, 2) = SumTo(w, 2 - 1) + w[2]
    BY <1>4, SumStep
<1>8. SumTo(w, 2) = w[1] + w[2]
    BY <1>2, <1>3, <1>5, <1>6, <1>7
<1> QED
    BY <1>2, <1>3, <1>8 DEF Counted, w, v

\* The amount of the rows of a transaction.
AmountInOf(tx, kinds, asset) ==
    [row \in Row |-> IF row.tx = tx THEN AmountIn(kinds, asset)[row] ELSE 0]

\* It is an amount.
LEMMA AmountInOfType ==
    ASSUME NEW tx, NEW kinds, NEW asset
    PROVE  IsValue(AmountInOf(tx, kinds, asset), Row)
<1>1. \A row \in Row : AmountIn(kinds, asset)[row] \in Int
    BY AmountsType
<1> QED
    BY <1>1 DEF IsValue, AmountInOf

\* The amount of those rows among others.
LEMMA AmountOfOf ==
    ASSUME NEW rows \in Seq(Row), NEW tx, NEW kinds, NEW asset
    PROVE  AmountOf(Of(rows, tx), kinds, asset) = Total(rows, AmountInOf(tx, kinds, asset))
<1> DEFINE S == {row \in Range(rows) : row.tx = tx}
           v == AmountIn(kinds, asset)
           w == AmountInOf(tx, kinds, asset)
<1>1. IsValue(v, Row) /\ IsValue(w, Row)
    BY AmountsType, AmountInOfType
<1>2. ASSUME NEW i \in 1..Len(rows)
      PROVE  w[rows[i]] = IF rows[i] \in S THEN v[rows[i]] ELSE 0
    <2>1. rows[i] \in Row /\ rows[i] \in Range(rows)
        BY DEF Range
    <2> QED
        BY <2>1 DEF AmountInOf
<1> HIDE DEF v, w, S
<1>3. CountsOnly(rows, w, v, S)
    BY <1>2 DEF CountsOnly
<1>4. Total(Kept(rows, S), v) = Total(rows, w)
    BY <1>1, <1>3, TotalOfKept
<1>5. Of(rows, tx) = Kept(rows, S)
    BY DEF Of, S
<1>6. Of(rows, tx) \in Seq(Row)
    BY OfType
<1>7. AmountOf(Of(rows, tx), kinds, asset) = Total(Of(rows, tx), v)
    BY <1>6, AmountOfIsTotal DEF v
<1> QED
    BY <1>4, <1>5, <1>7 DEF w

\* All rows are of t.
AllOfT(rows) == \A i \in 1..Len(rows) : rows[i].tx = "t"

\* The amount of t is that of all its rows; f has none of them.
LEMMA AmountOfT ==
    ASSUME NEW rows \in Seq(Row), AllOfT(rows), NEW kinds, NEW asset
    PROVE  /\ Total(rows, AmountInOf("t", kinds, asset)) = AmountOf(rows, kinds, asset)
           /\ Total(rows, AmountInOf("f", kinds, asset)) = 0
<1> DEFINE v == AmountIn(kinds, asset)
           t == AmountInOf("t", kinds, asset)
           f == AmountInOf("f", kinds, asset)
           n == Len(rows)
<1>1. IsValue(v, Row) /\ IsValue(t, Row) /\ IsValue(f, Row)
    BY AmountsType, AmountInOfType
<1>2. ASSUME NEW i \in 1..Len(rows) PROVE t[rows[i]] = v[rows[i]] /\ f[rows[i]] = 0
    <2>1. rows[i] \in Row /\ rows[i].tx = "t"
        BY DEF AllOfT
    <2> QED
        BY <2>1 DEF AmountInOf
<1> HIDE DEF v, t, f
<1>3. SameValues(rows, t, v)
    BY <1>2 DEF SameValues
<1>4. Total(rows, t) = Total(rows, v)
    BY <1>1, <1>3, TotalSame
<1>5. Total(rows, v) = AmountOf(rows, kinds, asset)
    BY AmountOfIsTotal DEF v
<1>6. n \in Nat /\ AreIntegers(Values(rows, f), n)
    BY <1>1, ValuesType
<1>7. \A i \in 1..n : Values(rows, f)[i] = 0
    BY <1>1, <1>2, ValuesType
<1>8. AddsTo([i \in 0..n |-> 0], Values(rows, f), n)
    <2> DEFINE z == [i \in 0..n |-> 0]
    <2>1. z[0] = 0 /\ \A i \in 1..n : z[i] = 0 /\ z[i - 1] = 0
        BY <1>6
    <2> HIDE DEF z
    <2>2. AddsTo(z, Values(rows, f), n)
        BY <1>6, <1>7, <2>1 DEF AddsTo
    <2> QED
        BY <2>2 DEF z
<1>9. SumTo(Values(rows, f), n) = 0
    BY <1>6, <1>8, SumUnique
<1> QED
    BY <1>4, <1>5, <1>9 DEF Total, t, f, n

\* The coin that the failed transaction spent.
LEMMA FailedIsInput ==
    Failed \in Input /\ Failed \in Row /\ Failed.tx # "t"
<1>1. ETH \in Assets
    BY DEF Assets
<1>2. Failed \in Row
    <2>1. ASSUME NEW tx \in Name, NEW kind \in Name, NEW mine \in BOOLEAN
          PROVE  [tx |-> tx, kind |-> kind, mine |-> mine, asset |-> ETH, amount |-> 1] \in Row
        BY <1>1 DEF Row
    <2>2. TRUE \in BOOLEAN /\ "f" \in Name /\ "coin" \in Name
        BY DEF Name
    <2> QED
        BY <2>1, <2>2, Zenon DEF Failed
<1>3. Failed.tx = "f" /\ Failed.kind = "coin"
    BY DEF Failed
<1> QED
    BY <1>2, <1>3 DEF Input

\* The failed transaction brings t nothing.
LEMMA AmountBehindFailed ==
    ASSUME NEW rows \in Seq(Row), AllOfT(rows), NEW kinds, NEW asset
    PROVE  /\ AmountOf(Of(<<Failed>>, "t"), kinds, asset) = 0
           /\ AmountOf(Of(<<Failed>> \o rows, "t"), kinds, asset) = AmountOf(rows, kinds, asset)
<1> DEFINE t == AmountInOf("t", kinds, asset)
           failed == <<Failed>>
           both == failed \o rows
<1>1. IsValue(t, Row)
    BY AmountInOfType
<1>2. Failed \in Row /\ Failed.tx # "t"
    BY FailedIsInput
<1>3. t[Failed] = 0
    BY <1>2 DEF AmountInOf
<1> HIDE DEF t
<1>4. <<>> \in Seq(Row) /\ failed = Append(<<>>, Failed) /\ failed \in Seq(Row)
    BY <1>2
<1>5. Total(<<>>, t) = 0
    BY <1>1, TotalType
<1>6. Total(Append(<<>>, Failed), t) = Total(<<>>, t) + t[Failed]
    BY <1>1, <1>2, <1>4, TotalOfOneMore
<1>7. Total(failed, t) = 0
    BY <1>3, <1>4, <1>5, <1>6
<1>8. both \in Seq(Row)
    BY <1>4
<1> HIDE DEF failed
<1>9. Total(both, t) = Total(failed, t) + Total(rows, t)
    BY <1>1, <1>4, TotalJoined
<1>10. Total(rows, t) = AmountOf(rows, kinds, asset) /\ Total(rows, t) \in Int
    BY <1>1, AmountOfT, TotalType DEF t
<1> HIDE DEF both
<1>11. AmountOf(Of(failed, "t"), kinds, asset) = Total(failed, t)
    <2>1. failed \in Seq(Row)
        BY <1>4
    <2> QED
        BY <2>1, AmountOfOf DEF t
<1>12. AmountOf(Of(both, "t"), kinds, asset) = Total(both, t)
    BY <1>8, AmountOfOf DEF t
<1>13. /\ AmountOf(Of(failed, "t"), kinds, asset) = 0
       /\ AmountOf(Of(both, "t"), kinds, asset) = AmountOf(rows, kinds, asset)
    BY <1>7, <1>9, <1>10, <1>11, <1>12
<1> QED
    BY <1>13 DEF both, failed

\* What is counted is the amount of the rows.
CountsAs(parts, failing, n, rows) ==
    \A kinds, asset : Counted(parts, failing, kinds, asset, n) = AmountOf(rows, kinds, asset)

\* The answer has the inputs and the outputs of t, and nothing of f counts.
IsAnswer(pages, inputs, outputs) ==
    /\ pages \in Seq(AnyPage)
    /\ CountsAs(InputsOf(pages, "t"), FailedIn(pages, "t"), Len(pages), inputs)
    /\ CountsAs(OutputsOf(pages, "t"), FailedIn(pages, "t"), Len(pages), outputs)
    /\ CountsAs(InputsOf(pages, "f"), FailedIn(pages, "f"), Len(pages), <<>>)
    /\ CountsAs(OutputsOf(pages, "f"), FailedIn(pages, "f"), Len(pages), <<>>)

\* No rows have no amount.
LEMMA AmountOfNone ==
    ASSUME NEW kinds, NEW asset
    PROVE  AmountOf(<<>>, kinds, asset) = 0
<1>1. <<>> \in Seq(Row)
    OBVIOUS
<1>2. AmountOf(<<>>, kinds, asset) = Total(<<>>, AmountIn(kinds, asset))
    BY <1>1, AmountOfIsTotal
<1>3. IsValue(AmountIn(kinds, asset), Row)
    BY AmountsType
<1> QED
    BY <1>2, <1>3, TotalType

\* Whatever counts as t counts as nothing for f.
LEMMA AmountsOfT ==
    ASSUME NEW rows \in Seq(Row), AllOfT(rows), NEW kinds, NEW asset
    PROVE  /\ AmountOf(Of(rows, "t"), kinds, asset) = AmountOf(rows, kinds, asset)
           /\ AmountOf(Of(rows, "f"), kinds, asset) = 0
           /\ AmountOf(rows, kinds, asset) \in Int
<1>1. /\ AmountOf(Of(rows, "t"), kinds, asset) = Total(rows, AmountInOf("t", kinds, asset))
      /\ AmountOf(Of(rows, "f"), kinds, asset) = Total(rows, AmountInOf("f", kinds, asset))
    BY AmountOfOf
<1>2. AmountOf(rows, kinds, asset) \in Int
    BY AmountOfIsTotal, TotalIsNatural
<1> QED
    BY <1>1, <1>2, AmountOfT

\* One page.
LEMMA OnePage ==
    ASSUME NEW inputs \in Seq(Input), AllOfT(inputs), NEW outputs \in Seq(Row), AllOfT(outputs)
    PROVE  IsAnswer(<<Page(inputs, outputs, {})>>, inputs, outputs)
<1> DEFINE page == Page(inputs, outputs, {})
           pages == <<page>>
<1>1. page \in AnyPage /\ page.inputs = inputs /\ page.outputs = outputs /\ page.failed = {}
    BY DEF Page, AnyPage
<1> HIDE DEF page
<1>2. pages \in Seq(AnyPage) /\ Len(pages) = 1 /\ pages[1] = page
    BY <1>1
<1> HIDE DEF pages
<1>3. inputs \in Seq(Row)
    BY InputsAreRows
<1>4. ASSUME NEW tx
      PROVE  /\ InputsOf(pages, tx)[1] = Of(inputs, tx) /\ OutputsOf(pages, tx)[1] = Of(outputs, tx)
             /\ 1 \notin FailedIn(pages, tx)
             /\ ArePartsOf(InputsOf(pages, tx), Row, 1) /\ ArePartsOf(OutputsOf(pages, tx), Row, 1)
    <2>1. ArePartsOf(InputsOf(pages, tx), Row, 1) /\ ArePartsOf(OutputsOf(pages, tx), Row, 1)
        BY <1>2, PartsOfPages
    <2>2. InputsOf(pages, tx)[1] = Of(inputs, tx) /\ OutputsOf(pages, tx)[1] = Of(outputs, tx)
        BY <1>1, <1>2 DEF InputsOf, OutputsOf
    <2> QED
        BY <1>1, <1>2, <2>1, <2>2 DEF FailedIn
<1>5. ASSUME NEW tx, NEW kinds, NEW asset
      PROVE  /\ Counted(InputsOf(pages, tx), FailedIn(pages, tx), kinds, asset, 1)
                  = AmountOf(Of(inputs, tx), kinds, asset)
             /\ Counted(OutputsOf(pages, tx), FailedIn(pages, tx), kinds, asset, 1)
                  = AmountOf(Of(outputs, tx), kinds, asset)
    BY <1>4, CountedOfOne
<1>6. ASSUME NEW kinds, NEW asset
      PROVE  /\ AmountOf(Of(inputs, "t"), kinds, asset) = AmountOf(inputs, kinds, asset)
             /\ AmountOf(Of(outputs, "t"), kinds, asset) = AmountOf(outputs, kinds, asset)
             /\ AmountOf(Of(inputs, "f"), kinds, asset) = AmountOf(<<>>, kinds, asset)
             /\ AmountOf(Of(outputs, "f"), kinds, asset) = AmountOf(<<>>, kinds, asset)
    BY <1>3, AmountsOfT, AmountOfNone
<1>7. IsAnswer(pages, inputs, outputs)
    BY <1>2, <1>5, <1>6 DEF IsAnswer, CountsAs
<1> QED
    BY <1>7 DEF pages, page

\* Two pages.
LEMMA CountedOnTwoPages ==
    ASSUME NEW first \in AnyPage, NEW second \in AnyPage, NEW tx, NEW kinds, NEW asset,
           NEW pages, pages = <<first, second>>
    PROVE  /\ pages \in Seq(AnyPage) /\ Len(pages) = 2
           /\ Counted(InputsOf(pages, tx), FailedIn(pages, tx), kinds, asset, 2)
                = IF tx \in second.failed THEN 0
                  ELSE IF tx \in first.failed THEN AmountOf(Of(second.inputs, tx), kinds, asset)
                  ELSE AmountOf(Of(first.inputs, tx), kinds, asset) + AmountOf(Of(second.inputs, tx), kinds, asset)
           /\ Counted(OutputsOf(pages, tx), FailedIn(pages, tx), kinds, asset, 2)
                = IF tx \in second.failed THEN 0
                  ELSE IF tx \in first.failed THEN AmountOf(Of(second.outputs, tx), kinds, asset)
                  ELSE AmountOf(Of(first.outputs, tx), kinds, asset) + AmountOf(Of(second.outputs, tx), kinds, asset)
<1>1. pages \in Seq(AnyPage) /\ Len(pages) = 2 /\ pages[1] = first /\ pages[2] = second
    OBVIOUS
<1>2. ArePartsOf(InputsOf(pages, tx), Row, 2) /\ ArePartsOf(OutputsOf(pages, tx), Row, 2)
    BY <1>1, PartsOfPages
<1>3. /\ InputsOf(pages, tx)[1] = Of(first.inputs, tx) /\ InputsOf(pages, tx)[2] = Of(second.inputs, tx)
      /\ OutputsOf(pages, tx)[1] = Of(first.outputs, tx) /\ OutputsOf(pages, tx)[2] = Of(second.outputs, tx)
    BY <1>1 DEF InputsOf, OutputsOf
<1>4. /\ 1 \in FailedIn(pages, tx) <=> tx \in first.failed
      /\ 2 \in FailedIn(pages, tx) <=> tx \in second.failed
    BY <1>1 DEF FailedIn
<1>5. Counted(InputsOf(pages, tx), FailedIn(pages, tx), kinds, asset, 2)
        = IF 2 \in FailedIn(pages, tx) THEN 0
          ELSE IF 1 \in FailedIn(pages, tx) THEN AmountOf(InputsOf(pages, tx)[2], kinds, asset)
          ELSE AmountOf(InputsOf(pages, tx)[1], kinds, asset) + AmountOf(InputsOf(pages, tx)[2], kinds, asset)
    BY <1>2, CountedOfTwo
<1>6. Counted(OutputsOf(pages, tx), FailedIn(pages, tx), kinds, asset, 2)
        = IF 2 \in FailedIn(pages, tx) THEN 0
          ELSE IF 1 \in FailedIn(pages, tx) THEN AmountOf(OutputsOf(pages, tx)[2], kinds, asset)
          ELSE AmountOf(OutputsOf(pages, tx)[1], kinds, asset) + AmountOf(OutputsOf(pages, tx)[2], kinds, asset)
    BY <1>2, CountedOfTwo
<1> QED
    BY <1>1, <1>3, <1>4, <1>5, <1>6

\* No rows of any transaction.
LEMMA AmountOfNothing ==
    ASSUME NEW tx, NEW kinds, NEW asset
    PROVE  AmountOf(Of(<<>>, tx), kinds, asset) = 0
<1> DEFINE none == <<>>
<1>1. none \in Seq(Row)
    OBVIOUS
<1>2. IsValue(AmountInOf(tx, kinds, asset), Row)
    BY AmountInOfType
<1>3. Total(none, AmountInOf(tx, kinds, asset)) = 0
    BY <1>2, TotalType
<1> HIDE DEF none
<1>4. AmountOf(Of(none, tx), kinds, asset) = Total(none, AmountInOf(tx, kinds, asset))
    BY <1>1, AmountOfOf
<1> QED
    BY <1>3, <1>4 DEF none

\* The inputs of t and a failed transaction before the outputs of t.
LEMMA FailedFirst ==
    ASSUME NEW inputs \in Seq(Input), AllOfT(inputs), NEW outputs \in Seq(Row), AllOfT(outputs)
    PROVE  IsAnswer(<<Page(<<Failed>> \o inputs, <<>>, {"f"}), Page(<<>>, outputs, {})>>, inputs, outputs)
<1> DEFINE both == <<Failed>> \o inputs
           none == <<>>
           first == Page(both, none, {"f"})
           second == Page(none, outputs, {})
           pages == <<first, second>>
<1>1. both \in Seq(Input) /\ none \in Seq(Input) /\ none \in Seq(Row) /\ inputs \in Seq(Row)
    BY FailedIsInput, InputsAreRows
<1>2. \A kinds, asset, tx :
         /\ AmountOf(Of(both, "t"), kinds, asset) = AmountOf(inputs, kinds, asset)
         /\ AmountOf(Of(none, tx), kinds, asset) = 0
         /\ AmountOf(none, kinds, asset) = 0
    BY <1>1, AmountBehindFailed, AmountOfNothing, AmountOfNone
<1>3. \A kinds, asset :
         /\ AmountOf(Of(outputs, "t"), kinds, asset) = AmountOf(outputs, kinds, asset)
         /\ AmountOf(Of(outputs, "f"), kinds, asset) = 0
         /\ AmountOf(outputs, kinds, asset) \in Int /\ AmountOf(inputs, kinds, asset) \in Int
    BY <1>1, AmountsOfT
<1>4. {"f"} \in SUBSET Name /\ {} \in SUBSET Name
    BY DEF Name
<1> HIDE DEF both, none
<1>5. /\ first \in AnyPage /\ second \in AnyPage
      /\ first.inputs = both /\ first.outputs = none /\ first.failed = {"f"}
      /\ second.inputs = none /\ second.outputs = outputs /\ second.failed = {}
    BY <1>1, <1>4 DEF Page, AnyPage
<1> HIDE DEF first, second
<1>6. /\ pages \in Seq(AnyPage) /\ Len(pages) = 2
      /\ \A tx, kinds, asset :
           /\ Counted(InputsOf(pages, tx), FailedIn(pages, tx), kinds, asset, 2)
                = IF tx \in second.failed THEN 0
                  ELSE IF tx \in first.failed THEN AmountOf(Of(second.inputs, tx), kinds, asset)
                  ELSE AmountOf(Of(first.inputs, tx), kinds, asset) + AmountOf(Of(second.inputs, tx), kinds, asset)
           /\ Counted(OutputsOf(pages, tx), FailedIn(pages, tx), kinds, asset, 2)
                = IF tx \in second.failed THEN 0
                  ELSE IF tx \in first.failed THEN AmountOf(Of(second.outputs, tx), kinds, asset)
                  ELSE AmountOf(Of(first.outputs, tx), kinds, asset) + AmountOf(Of(second.outputs, tx), kinds, asset)
    BY <1>5, CountedOnTwoPages
<1> HIDE DEF pages
<1>7. ASSUME NEW kinds, NEW asset
      PROVE  /\ Counted(InputsOf(pages, "t"), FailedIn(pages, "t"), kinds, asset, 2) = AmountOf(inputs, kinds, asset)
             /\ Counted(OutputsOf(pages, "t"), FailedIn(pages, "t"), kinds, asset, 2) = AmountOf(outputs, kinds, asset)
             /\ Counted(InputsOf(pages, "f"), FailedIn(pages, "f"), kinds, asset, 2) = AmountOf(none, kinds, asset)
             /\ Counted(OutputsOf(pages, "f"), FailedIn(pages, "f"), kinds, asset, 2) = AmountOf(none, kinds, asset)
    BY <1>2, <1>3, <1>5, <1>6
<1>8. IsAnswer(pages, inputs, outputs)
    BY <1>6, <1>7 DEF IsAnswer, CountsAs, none
<1> QED
    BY <1>8 DEF pages, first, second, both, none

\* A failed transaction and the outputs of t before its inputs, on a page that says that it failed.
LEMMA FailedLater ==
    ASSUME NEW inputs \in Seq(Input), AllOfT(inputs), NEW outputs \in Seq(Row), AllOfT(outputs)
    PROVE  IsAnswer(<<Page(<<Failed>>, outputs, {}), Page(inputs, <<>>, {"f"})>>, inputs, outputs)
<1> DEFINE failed == <<Failed>>
           none == <<>>
           first == Page(failed, outputs, {})
           second == Page(inputs, none, {"f"})
           pages == <<first, second>>
<1>1. failed \in Seq(Input) /\ none \in Seq(Row) /\ inputs \in Seq(Row)
    BY FailedIsInput, InputsAreRows
<1>2. \A kinds, asset, tx :
         /\ AmountOf(Of(failed, "t"), kinds, asset) = 0
         /\ AmountOf(Of(none, tx), kinds, asset) = 0
         /\ AmountOf(none, kinds, asset) = 0
    BY <1>1, AmountBehindFailed, AmountOfNothing, AmountOfNone
<1>3. \A kinds, asset :
         /\ AmountOf(Of(inputs, "t"), kinds, asset) = AmountOf(inputs, kinds, asset)
         /\ AmountOf(Of(outputs, "t"), kinds, asset) = AmountOf(outputs, kinds, asset)
         /\ AmountOf(outputs, kinds, asset) \in Int /\ AmountOf(inputs, kinds, asset) \in Int
    BY <1>1, AmountsOfT
<1>4. {"f"} \in SUBSET Name /\ {} \in SUBSET Name
    BY DEF Name
<1> HIDE DEF failed, none
<1>5. /\ first \in AnyPage /\ second \in AnyPage
      /\ first.inputs = failed /\ first.outputs = outputs /\ first.failed = {}
      /\ second.inputs = inputs /\ second.outputs = none /\ second.failed = {"f"}
    BY <1>1, <1>4 DEF Page, AnyPage
<1> HIDE DEF first, second
<1>6. /\ pages \in Seq(AnyPage) /\ Len(pages) = 2
      /\ \A tx, kinds, asset :
           /\ Counted(InputsOf(pages, tx), FailedIn(pages, tx), kinds, asset, 2)
                = IF tx \in second.failed THEN 0
                  ELSE IF tx \in first.failed THEN AmountOf(Of(second.inputs, tx), kinds, asset)
                  ELSE AmountOf(Of(first.inputs, tx), kinds, asset) + AmountOf(Of(second.inputs, tx), kinds, asset)
           /\ Counted(OutputsOf(pages, tx), FailedIn(pages, tx), kinds, asset, 2)
                = IF tx \in second.failed THEN 0
                  ELSE IF tx \in first.failed THEN AmountOf(Of(second.outputs, tx), kinds, asset)
                  ELSE AmountOf(Of(first.outputs, tx), kinds, asset) + AmountOf(Of(second.outputs, tx), kinds, asset)
    BY <1>5, CountedOnTwoPages
<1> HIDE DEF pages
<1>7. ASSUME NEW kinds, NEW asset
      PROVE  /\ Counted(InputsOf(pages, "t"), FailedIn(pages, "t"), kinds, asset, 2) = AmountOf(inputs, kinds, asset)
             /\ Counted(OutputsOf(pages, "t"), FailedIn(pages, "t"), kinds, asset, 2) = AmountOf(outputs, kinds, asset)
             /\ Counted(InputsOf(pages, "f"), FailedIn(pages, "f"), kinds, asset, 2) = AmountOf(none, kinds, asset)
             /\ Counted(OutputsOf(pages, "f"), FailedIn(pages, "f"), kinds, asset, 2) = AmountOf(none, kinds, asset)
    BY <1>2, <1>3, <1>5, <1>6
<1>8. IsAnswer(pages, inputs, outputs)
    BY <1>6, <1>7 DEF IsAnswer, CountsAs, none
<1> QED
    BY <1>8 DEF pages, first, second, failed, none

\* However the answer is cut, what is stored is what the vault gained.
LEMMA AnswersAddUp ==
    ASSUME NEW inputs, NEW outputs, NEW pages, IsAnswer(pages, inputs, outputs),
           Ordinary(inputs, outputs), NEW asset \in Assets
    PROVE  /\ Balance(pages, "t", asset) = AmountOf(outputs, {"coin", "variable", "change"}, asset)
                                             - AmountOf(inputs, {"coin"}, asset)
           /\ Balance(pages, "f", asset) = 0
<1>n. PICK n : n = Len(pages)
    OBVIOUS
<1> DEFINE t == GroupByTransaction(pages, "t")
           f == GroupByTransaction(pages, "f")
<1>1. pages \in Seq(AnyPage)
    BY DEF IsAnswer
<1>2. \A kinds, a :
        /\ AmountOf(t.inputs, kinds, a) = AmountOf(inputs, kinds, a)
        /\ AmountOf(t.outputs, kinds, a) = AmountOf(outputs, kinds, a)
        /\ AmountOf(f.inputs, kinds, a) = 0
        /\ AmountOf(f.outputs, kinds, a) = 0
    <2>1. ASSUME NEW kinds, NEW a
          PROVE  /\ AmountOf(t.inputs, kinds, a)
                      = Counted(InputsOf(pages, "t"), FailedIn(pages, "t"), kinds, a, n)
                 /\ AmountOf(t.outputs, kinds, a)
                      = Counted(OutputsOf(pages, "t"), FailedIn(pages, "t"), kinds, a, n)
                 /\ AmountOf(f.inputs, kinds, a)
                      = Counted(InputsOf(pages, "f"), FailedIn(pages, "f"), kinds, a, n)
                 /\ AmountOf(f.outputs, kinds, a)
                      = Counted(OutputsOf(pages, "f"), FailedIn(pages, "f"), kinds, a, n)
        <3>1. /\ AmountOf(t.inputs, kinds, a)
                   = Counted(InputsOf(pages, "t"), FailedIn(pages, "t"), kinds, a, n)
              /\ AmountOf(t.outputs, kinds, a)
                   = Counted(OutputsOf(pages, "t"), FailedIn(pages, "t"), kinds, a, n)
            BY <1>1, <1>n, GroupIs
        <3>2. /\ AmountOf(f.inputs, kinds, a)
                   = Counted(InputsOf(pages, "f"), FailedIn(pages, "f"), kinds, a, n)
              /\ AmountOf(f.outputs, kinds, a)
                   = Counted(OutputsOf(pages, "f"), FailedIn(pages, "f"), kinds, a, n)
            BY <1>1, <1>n, GroupIs
        <3> QED
            BY <3>1, <3>2
    <2> HIDE DEF t, f
    <2> QED
        BY <2>1, <1>n, AmountOfNone DEF IsAnswer, CountsAs
<1> HIDE DEF t, f
<1>3. Ordinary(t.inputs, t.outputs)
    BY <1>2 DEF Ordinary
<1>4. Ordinary(f.inputs, f.outputs)
    BY <1>2 DEF Ordinary
<1>5. Balance(pages, "t", asset)
        = Counted(OutputsOf(pages, "t"), FailedIn(pages, "t"), {"coin", "variable", "change"}, asset, n)
          - Counted(InputsOf(pages, "t"), FailedIn(pages, "t"), {"coin"}, asset, n)
    BY <1>1, <1>3, <1>n, BalanceOfPages DEF t
<1>6. Balance(pages, "f", asset)
        = Counted(OutputsOf(pages, "f"), FailedIn(pages, "f"), {"coin", "variable", "change"}, asset, n)
          - Counted(InputsOf(pages, "f"), FailedIn(pages, "f"), {"coin"}, asset, n)
    BY <1>1, <1>4, <1>n, BalanceOfPages DEF f
<1> QED
    BY <1>5, <1>6, <1>n, AmountOfNone DEF IsAnswer, CountsAs

\* The inputs and the outputs of the transactions of the property.
LEMMA TransactionsType ==
    /\ \A inputs \in Seq(Inputs) : inputs \in Seq(Input) /\ AllOfT(inputs)
    /\ \A outputs \in Seq(Outputs) : outputs \in Seq(Row) /\ AllOfT(outputs)
<1>1. ASSUME NEW row \in Inputs PROVE row \in Input /\ row.tx = "t"
    <2>1. CASE row \in [tx : {"t"}, kind : {"coin"}, mine : BOOLEAN, asset : Assets, amount : 1..2]
        BY <2>1 DEF Input, Row, Name
    <2>2. CASE row \in [tx : {"t"}, kind : {"message"}, mine : BOOLEAN, asset : {ETH}, amount : 1..2]
        BY <2>2 DEF Input, Row, Name, Assets
    <2> QED
        BY <2>1, <2>2 DEF Inputs
<1>2. ASSUME NEW row \in Outputs PROVE row \in Row /\ row.tx = "t"
    <2>1. CASE row \in [tx : {"t"}, kind : {"coin", "variable"}, mine : BOOLEAN, asset : Assets, amount : {1}]
        BY <2>1 DEF Row, Name
    <2>2. CASE row \in [tx : {"t"}, kind : {"change"}, mine : BOOLEAN, asset : Assets, amount : 1..2]
        BY <2>2 DEF Row, Name
    <2> QED
        BY <2>1, <2>2 DEF Outputs
<1>3. Inputs \subseteq Input /\ Outputs \subseteq Row
    BY <1>1, <1>2
<1>4. ASSUME NEW inputs \in Seq(Inputs) PROVE inputs \in Seq(Input) /\ AllOfT(inputs)
    BY <1>1, <1>3 DEF AllOfT
<1>5. ASSUME NEW outputs \in Seq(Outputs) PROVE outputs \in Seq(Row) /\ AllOfT(outputs)
    BY <1>2, <1>3 DEF AllOfT
<1> QED
    BY <1>4, <1>5

(***************************************************************************)
(* However many inputs and outputs a transaction has, of the property's    *)
(* kinds and amounts, and whichever of the property's ways its rows are    *)
(* cut into pages beside a failed transaction's: its amounts add up, and   *)
(* the failed transaction adds nothing (makeDeposits).                     *)
(***************************************************************************)
THEOREM TransactionsAddUp ==
    ASSUME NEW inputs \in Seq(Inputs), NEW outputs \in Seq(Outputs), Ordinary(inputs, outputs)
    PROVE  AddsUp(inputs, outputs)
<1>1. /\ inputs \in Seq(Input) /\ AllOfT(inputs)
      /\ outputs \in Seq(Row) /\ AllOfT(outputs)
    BY TransactionsType
<1>2. ASSUME NEW pages \in Pagings(inputs, outputs) PROVE IsAnswer(pages, inputs, outputs)
    BY <1>1, OnePage, FailedFirst, FailedLater DEF Pagings
<1>3. ASSUME NEW pages \in Pagings(inputs, outputs), NEW a \in Assets
      PROVE  /\ Balance(pages, "t", a) = AmountOf(outputs, {"coin", "variable", "change"}, a)
                                           - AmountOf(inputs, {"coin"}, a)
             /\ Balance(pages, "f", a) = 0
    BY <1>2, AnswersAddUp
<1> QED
    BY <1>3, Zenon DEF AddsUp

\* So none of the property's transactions is miscounted.
LEMMA NoneMiscounted == Miscounted = {}
<1>1. ASSUME NEW S, NEW s \in BoundedSeq(S, 2) PROVE s \in Seq(S)
    <2>1. PICK m \in 0..2 : s \in [1..m -> S]
        BY DEF BoundedSeq, SeqOf
    <2> QED
        BY <2>1
<1>2. ASSUME NEW rows \in BoundedSeq(Inputs, 2) \X BoundedSeq(Outputs, 2), Ordinary(rows[1], rows[2])
      PROVE  AddsUp(rows[1], rows[2])
    <2>1. rows[1] \in Seq(Inputs) /\ rows[2] \in Seq(Outputs)
        BY <1>1
    <2> QED
        BY <1>2, <2>1, TransactionsAddUp
<1> QED
    BY <1>2, Zenon DEF Miscounted

(***************************************************************************)
(* Whatever the job of the worker counted once, it counted right           *)
(* (balanceQueue, makeDeposits).                                           *)
(***************************************************************************)
THEOREM BalancesAlwaysAddUp == SyncSpec => []BalancesAddUp
<1>1. BalancesAddUp
    BY NoneMiscounted DEF BalancesAddUp
<1> QED
    BY <1>1, PTL
=============================================================================
