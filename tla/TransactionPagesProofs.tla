----------------------- MODULE TransactionPagesProofs -----------------------
(***************************************************************************)
(* Proofs about TransactionPages, for any histories and page sizes, and    *)
(* about what MCTransactionCache checks of them.                           *)
(***************************************************************************)
EXTENDS MCTransactionCache, FiniteSetTheorems, TLAPS

Item == [at : Nat, origin : {"DB", "FUEL"}]

-----------------------------------------------------------------------------
(***************************************************************************)
(* Induction and the recursive walk.                                       *)
(***************************************************************************)

\* A set of naturals that holds 0 and the successor of each of its members is Nat.
LEMMA NatSetInduction ==
    ASSUME NEW I \in SUBSET Nat, 0 \in I, \A n \in I : n + 1 \in I
    PROVE  I = Nat
<1> SUFFICES ASSUME Nat \ I # {} PROVE FALSE
    OBVIOUS
<1>1. PICK n \in Nat \ I : \A m \in Nat \ I : ~(<<m, n>> \in OpToRel(<, Nat))
    BY WFMin, NatLessThanWellFounded
<1>2. \A m \in Nat \ I : ~(m < n)
    BY <1>1 DEF OpToRel
<1>3. n - 1 \in I
    BY <1>2
<1> QED
    BY <1>3

\* What the definition of Walk asks of the function.
IsWalk(walk, views, perPage, sort, n) ==
    walk = [k \in 0..n |-> IF k = 0 THEN Beginning
                           ELSE NextPage(walk[k - 1], views[k], perPage, sort)]

\* There is such a function.
LEMMA WalkExists ==
    ASSUME NEW views, NEW perPage, NEW sort, NEW n \in Nat
    PROVE  \E walk : IsWalk(walk, views, perPage, sort, n)
<1> DEFINE Is(g, m) == IsWalk(g, views, perPage, sort, m)
           I == {m \in Nat : \E g : Is(g, m)}
<1>1. 0 \in I
    <2>1. Is([k \in 0..0 |-> Beginning], 0)
        BY DEF IsWalk
    <2> QED
        BY <2>1
<1>2. ASSUME NEW m \in I PROVE m + 1 \in I
    <2>1. PICK g : Is(g, m)
        OBVIOUS
    <2> DEFINE h == [k \in 0..(m + 1) |-> IF k = m + 1 THEN NextPage(g[m], views[m + 1], perPage, sort)
                                          ELSE g[k]]
    <2>2. \A k \in 0..m : g[k] = IF k = 0 THEN Beginning
                                 ELSE NextPage(g[k - 1], views[k], perPage, sort)
        BY <2>1 DEF IsWalk
    <2>3. ASSUME NEW k \in 0..(m + 1)
          PROVE  h[k] = IF k = 0 THEN Beginning ELSE NextPage(h[k - 1], views[k], perPage, sort)
        <3>1. CASE k = m + 1
            <4>1. h[k - 1] = g[m]
                BY <3>1
            <4> QED
                BY <3>1, <4>1
        <3>2. CASE k # m + 1
            <4>1. k \in 0..m /\ h[k] = g[k] /\ (k # 0 => h[k - 1] = g[k - 1])
                BY <3>2
            <4> QED
                BY <4>1, <2>2
        <3> QED
            BY <3>1, <3>2
    <2>4. Is(h, m + 1) /\ m + 1 \in Nat
        BY <2>3 DEF IsWalk
    <2> HIDE DEF Is, h
    <2> QED
        BY <2>4
<1>3. I \in SUBSET Nat
    OBVIOUS
<1> HIDE DEF I
<1>4. n \in I
    BY <1>1, <1>2, <1>3, NatSetInduction
<1> QED
    BY <1>4 DEF I

\* The pages of a walk, one by one.
LEMMA WalkPages ==
    ASSUME NEW views, NEW perPage, NEW sort, NEW n \in Nat
    PROVE  /\ Walk(views, perPage, sort, n)[0] = Beginning
           /\ \A k \in 1..n : Walk(views, perPage, sort, n)[k] =
                NextPage(Walk(views, perPage, sort, n)[k - 1], views[k], perPage, sort)
<1> DEFINE W == Walk(views, perPage, sort, n)
<1>1. W = CHOOSE walk : IsWalk(walk, views, perPage, sort, n)
    BY Zenon DEF Walk, IsWalk
<1> HIDE DEF W
<1>2. IsWalk(W, views, perPage, sort, n)
    BY <1>1, WalkExists
<1>3. W[0] = Beginning
    BY <1>2 DEF IsWalk
<1>4. ASSUME NEW k \in 1..n PROVE W[k] = NextPage(W[k - 1], views[k], perPage, sort)
    BY <1>2 DEF IsWalk
<1> QED
    BY <1>3, <1>4 DEF W

-----------------------------------------------------------------------------
(***************************************************************************)
(* The order of a list, and ranks in it.                                   *)
(***************************************************************************)

\* Precedes is a strict total order, whatever the sort.
LEMMA OrderOfItems ==
    ASSUME NEW sort
    PROVE  /\ \A a \in Item : ~Precedes(a, a, sort)
           /\ \A a, b, c \in Item :
                Precedes(a, b, sort) /\ Precedes(b, c, sort) => Precedes(a, c, sort)
           /\ \A a, b \in Item : a = b \/ Precedes(a, b, sort) \/ Precedes(b, a, sort)
<1>1. \A a \in Item : ~Precedes(a, a, sort)
    BY DEF Item, Precedes
<1>2. \A a, b, c \in Item :
        Precedes(a, b, sort) /\ Precedes(b, c, sort) => Precedes(a, c, sort)
    BY DEF Item, Precedes
<1>3. \A a, b \in Item : a = b \/ Precedes(a, b, sort) \/ Precedes(b, a, sort)
    BY DEF Item, Precedes
<1> QED
    BY <1>1, <1>2, <1>3

\* Ranks are numbers below the size of the list, and agree with the order.
LEMMA Ranks ==
    ASSUME NEW S \in SUBSET Item, IsFiniteSet(S), NEW sort
    PROVE  /\ \A a \in Item : Rank(S, a, sort) \in 0..Cardinality(S)
           /\ \A a \in S : Rank(S, a, sort) < Cardinality(S)
           /\ \A a \in S, b \in Item :
                Precedes(a, b, sort) => Rank(S, a, sort) < Rank(S, b, sort)
           /\ \A a, b \in S :
                Rank(S, a, sort) < Rank(S, b, sort) => Precedes(a, b, sort)
           /\ \A a, b \in S : Rank(S, a, sort) = Rank(S, b, sort) => a = b
<1> DEFINE Before(a) == {other \in S : Precedes(other, a, sort)}
<1>1. \A a \in Item : IsFiniteSet(Before(a)) /\ Rank(S, a, sort) = Cardinality(Before(a))
    BY FS_Subset, Zenon DEF Rank
<1>2. \A a \in Item : Rank(S, a, sort) \in 0..Cardinality(S)
    <2> TAKE a \in Item
    <2>1. Before(a) \subseteq S
        OBVIOUS
    <2> HIDE DEF Before
    <2>2. Cardinality(Before(a)) <= Cardinality(S) /\ Cardinality(Before(a)) \in Nat
          /\ Cardinality(S) \in Nat
        BY <1>1, <2>1, FS_Subset, FS_CardinalityType
    <2> QED
        BY <1>1, <2>2
<1>3. ASSUME NEW a \in S, NEW b \in Item, Precedes(a, b, sort)
      PROVE  Rank(S, a, sort) < Rank(S, b, sort)
    <2>1. Before(a) \subseteq Before(b) /\ a \in Before(b) /\ a \notin Before(a)
        BY <1>3, OrderOfItems
    <2> HIDE DEF Before
    <2>2. Cardinality(Before(a)) <= Cardinality(Before(b)) /\ Cardinality(Before(a)) # Cardinality(Before(b))
        BY <1>1, <2>1, FS_Subset
    <2> QED
        BY <1>1, <1>2, <2>2
<1>4. ASSUME NEW a \in S PROVE Rank(S, a, sort) < Cardinality(S)
    <2>1. Before(a) \subseteq S /\ a \notin Before(a)
        BY OrderOfItems
    <2> HIDE DEF Before
    <2>2. Cardinality(Before(a)) <= Cardinality(S) /\ Cardinality(Before(a)) # Cardinality(S)
        BY <2>1, FS_Subset
    <2>3. Cardinality(S) \in Nat
        BY FS_CardinalityType
    <2> QED
        BY <1>1, <1>2, <2>2, <2>3
<1>5. Cardinality(S) \in Nat
    BY FS_CardinalityType
<1>6. ASSUME NEW a \in S, NEW b \in S, Rank(S, a, sort) < Rank(S, b, sort)
      PROVE  Precedes(a, b, sort)
    <2>1. a \in Item /\ b \in Item
        OBVIOUS
    <2>2. ~Precedes(b, a, sort) /\ a # b
        BY <2>1, <1>2, <1>3, <1>6, <1>5
    <2> QED
        BY <2>1, <2>2, OrderOfItems
<1>7. ASSUME NEW a \in S, NEW b \in S, Rank(S, a, sort) = Rank(S, b, sort)
      PROVE  a = b
    <2>1. a \in Item /\ b \in Item
        OBVIOUS
    <2>2. ~Precedes(b, a, sort) /\ ~Precedes(a, b, sort)
        BY <2>1, <1>2, <1>3, <1>7, <1>5
    <2> QED
        BY <2>1, <2>2, OrderOfItems
<1> QED
    BY <1>2, <1>3, <1>4, <1>6, <1>7

\* As many items have a rank in a set of places as there are places.
LEMMA ItemsAtRanks ==
    ASSUME NEW S \in SUBSET Item, IsFiniteSet(S), NEW sort,
           NEW T \in SUBSET (0..(Cardinality(S) - 1))
    PROVE  /\ IsFiniteSet({a \in S : Rank(S, a, sort) \in T})
           /\ Cardinality({a \in S : Rank(S, a, sort) \in T}) = Cardinality(T)
<1> DEFINE rank == [a \in S |-> Rank(S, a, sort)]
           Places == 0..(Cardinality(S) - 1)
           A == {a \in S : Rank(S, a, sort) \in T}
           part == [a \in A |-> Rank(S, a, sort)]
<1>1. Cardinality(S) \in Nat
    BY FS_CardinalityType
<1>2. IsFiniteSet(Places) /\ Cardinality(Places) = Cardinality(S)
    <2>1. Cardinality(S) - 1 \in Int
        BY <1>1
    <2>2. /\ IsFiniteSet(Places)
          /\ Cardinality(Places) =
               IF 0 > Cardinality(S) - 1 THEN 0 ELSE (Cardinality(S) - 1) - 0 + 1
        BY <2>1, FS_Interval
    <2> QED
        BY <1>1, <2>2
<1>3. rank \in [S -> Places]
    BY <1>1, Ranks
<1>4. rank \in Injection(S, Places)
    BY <1>3, Ranks DEF Injection, IsInjective
<1>5. rank \in Surjection(S, Places)
    BY <1>2, <1>4, FS_Injection
<1>6. \A place \in T : \E a \in S : Rank(S, a, sort) = place
    BY <1>5 DEF Surjection
<1>7. IsFiniteSet(A)
    BY FS_Subset
<1>8. part \in Bijection(A, T)
    <2>1. part \in [A -> T]
        OBVIOUS
    <2>2. part \in Injection(A, T)
        BY <2>1, Ranks DEF Injection, IsInjective
    <2>3. \A place \in T : \E a \in A : part[a] = place
        BY <1>6
    <2>4. part \in Surjection(A, T)
        BY <2>1, <2>3 DEF Surjection
    <2> QED
        BY <2>2, <2>4 DEF Bijection
<1> HIDE DEF A, part
<1>9. Cardinality(T) = Cardinality(A)
    BY <1>7, <1>8, FS_Bijection DEF ExistsBijection
<1> QED
    BY <1>7, <1>9 DEF A

\* A list holds no more items before x than a longer one.
LEMMA RankInLonger ==
    ASSUME NEW S, IsFiniteSet(S), NEW R \in SUBSET S, NEW x, NEW sort
    PROVE  Rank(R, x, sort) <= Rank(S, x, sort)
<1> DEFINE A == {other \in R : Precedes(other, x, sort)}
           B == {other \in S : Precedes(other, x, sort)}
<1>1. A \subseteq B /\ B \subseteq S
    OBVIOUS
<1>2. IsFiniteSet(B)
    BY <1>1, FS_Subset
<1>3. Cardinality(A) <= Cardinality(B)
    BY <1>1, <1>2, FS_Subset
<1> QED
    BY <1>3 DEF Rank

-----------------------------------------------------------------------------
(***************************************************************************)
(* A client that has been shown a part D of the lists, which holds         *)
(* whatever precedes what it holds.                                        *)
(***************************************************************************)
Closed(D, sort) == \A x \in D, y \in Item : Precedes(y, x, sort) => y \in D

\* The part that has been shown once a page has been.
Further(D, list, sort) ==
    D \cup {x \in Item : \E c \in list : x = c \/ Precedes(x, c, sort)}

\* What has been shown after a page holds whatever precedes it.
LEMMA FurtherIsClosed ==
    ASSUME NEW sort, NEW D \in SUBSET Item, Closed(D, sort), NEW list \in SUBSET Item
    PROVE  Further(D, list, sort) \in SUBSET Item /\ Closed(Further(D, list, sort), sort)
<1>1. Further(D, list, sort) \in SUBSET Item
    BY DEF Further
<1>2. ASSUME NEW x \in Further(D, list, sort), NEW y \in Item, Precedes(y, x, sort)
      PROVE  y \in Further(D, list, sort)
    <2>1. CASE x \in D
        BY <1>2, <2>1 DEF Closed, Further
    <2>2. CASE x \notin D
        <3>1. PICK c \in list : x = c \/ Precedes(x, c, sort)
            BY <2>2 DEF Further
        <3>2. x \in Item /\ c \in Item
            BY <1>1
        <3>3. Precedes(y, c, sort)
            BY <1>2, <3>1, <3>2, OrderOfItems
        <3> QED
            BY <3>3 DEF Further
    <2> QED
        BY <2>1, <2>2
<1> QED
    BY <1>1, <1>2 DEF Closed

\* What has been shown of a sorted list are its first items.
LEMMA ShownComesFirst ==
    ASSUME NEW sort, NEW D \in SUBSET Item, Closed(D, sort),
           NEW S \in SUBSET Item, IsFiniteSet(S), NEW a \in S
    PROVE  a \in D <=> Rank(S, a, sort) < Cardinality(S \cap D)
<1> DEFINE Before == {other \in S : Precedes(other, a, sort)}
           Shown == S \cap D
<1>1. IsFiniteSet(Before) /\ IsFiniteSet(Shown) /\ Rank(S, a, sort) = Cardinality(Before)
    BY FS_Subset, FS_Intersection DEF Rank
<1>2. Cardinality(Before) \in Nat /\ Cardinality(Shown) \in Nat
    BY <1>1, FS_CardinalityType
<1>3. ASSUME a \in D PROVE Cardinality(Before) < Cardinality(Shown)
    <2>1. Before \subseteq Shown
        BY <1>3 DEF Closed
    <2>2. a \in Shown /\ a \notin Before
        BY <1>3, OrderOfItems
    <2> HIDE DEF Before, Shown
    <2>3. Cardinality(Before) <= Cardinality(Shown) /\ Cardinality(Before) # Cardinality(Shown)
        BY <1>1, <2>1, <2>2, FS_Subset
    <2> QED
        BY <1>2, <2>3
<1>4. ASSUME a \notin D PROVE Cardinality(Shown) <= Cardinality(Before)
    <2>1. Shown \subseteq Before
        <3> SUFFICES ASSUME NEW other \in S, other \in D PROVE other \in Before
            OBVIOUS
        <3>1. other \in Item /\ a \in Item /\ other # a /\ ~Precedes(a, other, sort)
            BY <1>4 DEF Closed
        <3> QED
            BY <3>1, OrderOfItems
    <2> HIDE DEF Before, Shown
    <2> QED
        BY <1>1, <2>1, FS_Subset
<1> QED
    BY <1>1, <1>2, <1>3, <1>4

(***************************************************************************)
(* A slice that begins no later than what has not been shown yet: an item  *)
(* behind it comes after n items of the slice.                             *)
(***************************************************************************)
LEMMA BehindTheSlice ==
    ASSUME NEW sort, NEW D \in SUBSET Item, Closed(D, sort),
           NEW S \in SUBSET Item, IsFiniteSet(S),
           NEW from \in Nat, from <= Cardinality(S \cap D), NEW n \in Nat,
           NEW x \in S \ D, x \notin Slice(S, from, n, sort)
    PROVE  Rank(Slice(S, from, n, sort), x, sort) >= n
<1> DEFINE slice == Slice(S, from, n, sort)
           places == from..(from + n - 1)
<1>1. Cardinality(S) \in Nat /\ Cardinality(S \cap D) \in Nat
    BY FS_CardinalityType, FS_Intersection
<1>2. Rank(S, x, sort) \in Nat /\ Rank(S, x, sort) < Cardinality(S)
    BY Ranks, <1>1
<1>3. Rank(S, x, sort) >= from
    <2>1. x \in S /\ x \notin D
        OBVIOUS
    <2>2. ~(Rank(S, x, sort) < Cardinality(S \cap D))
        BY <2>1, ShownComesFirst
    <2> QED
        BY <1>1, <1>2, <2>2
<1>4. Rank(S, x, sort) >= from + n
    BY <1>2, <1>3 DEF Slice
<1>5. places \subseteq 0..(Cardinality(S) - 1)
    BY <1>1, <1>2, <1>4
<1>6. Cardinality(slice) = Cardinality(places)
    <2>1. slice = {a \in S : Rank(S, a, sort) \in places}
        BY DEF Slice
    <2> HIDE DEF places
    <2> QED
        BY <2>1, <1>5, ItemsAtRanks
<1>7. Cardinality(places) = n
    <2>1. from + n - 1 \in Int /\ from \in Int
        OBVIOUS
    <2>2. Cardinality(places) = IF from > from + n - 1 THEN 0 ELSE from + n - 1 - from + 1
        BY <2>1, FS_Interval
    <2> QED
        BY <2>2
<1>8. \A a \in slice : Precedes(a, x, sort)
    <2> TAKE a \in slice
    <2>1. a \in S /\ Rank(S, a, sort) <= from + n - 1 /\ Rank(S, a, sort) \in Nat
        BY DEF Slice
    <2>2. Rank(S, a, sort) < Rank(S, x, sort)
        BY <2>1, <1>2, <1>4
    <2> QED
        BY <2>1, <2>2, Ranks
<1>9. {other \in slice : Precedes(other, x, sort)} = slice
    BY <1>8
<1>10. Rank(slice, x, sort) = Cardinality({other \in slice : Precedes(other, x, sort)})
    BY Zenon DEF Rank
<1>11. Rank(slice, x, sort) = n
    <2> HIDE DEF slice, places
    <2> QED
        BY <1>6, <1>7, <1>9, <1>10
<1> QED
    BY <1>11

(***************************************************************************)
(* The page that is joined from two slices which begin no later than what  *)
(* has not been shown holds, with an item, all that precede it and have    *)
(* not been shown.                                                         *)
(***************************************************************************)
LEMMA NothingIsSkipped ==
    ASSUME NEW sort, NEW D \in SUBSET Item, Closed(D, sort),
           NEW R \in SUBSET Item, IsFiniteSet(R), NEW U \in SUBSET Item, IsFiniteSet(U),
           NEW d \in Nat, d <= Cardinality(R \cap D),
           NEW f \in Nat, f <= Cardinality(U \cap D), NEW n \in Nat,
           NEW joined, joined = Slice(R, d, n, sort) \cup Slice(U, f, n, sort),
           NEW c \in Slice(joined, 0, n, sort),
           NEW x \in (R \cup U) \ D, x = c \/ Precedes(x, c, sort)
    PROVE  x \in Slice(joined, 0, n, sort)
<1>1. joined \subseteq R \cup U
    BY DEF Slice
<1>2. IsFiniteSet(joined) /\ joined \in SUBSET Item
    BY <1>1, FS_Union, FS_Subset
<1>3. c \in joined /\ c \in Item /\ x \in Item
    BY <1>1 DEF Slice
<1>4. Rank(joined, c, sort) < n
    <2>1. Rank(joined, c, sort) \in 0..(0 + n - 1)
        BY Zenon DEF Slice
    <2> QED
        BY <2>1
<1>5. Rank(joined, x, sort) <= Rank(joined, c, sort)
    <2>1. {other \in joined : Precedes(other, x, sort)}
            \subseteq {other \in joined : Precedes(other, c, sort)}
        BY <1>2, <1>3, OrderOfItems
    <2>2. IsFiniteSet({other \in joined : Precedes(other, c, sort)})
        BY <1>2, FS_Subset
    <2> QED
        BY <2>1, <2>2, FS_Subset DEF Rank
<1>6. Rank(joined, x, sort) \in Nat /\ Rank(joined, c, sort) \in Nat /\ Cardinality(joined) \in Nat
    BY <1>2, <1>3, Ranks, FS_CardinalityType
<1>7. ASSUME NEW S \in SUBSET Item, IsFiniteSet(S), NEW s \in Nat, s <= Cardinality(S \cap D),
             x \in S, Slice(S, s, n, sort) \subseteq joined
      PROVE  x \in Slice(S, s, n, sort)
    <2> SUFFICES ASSUME x \notin Slice(S, s, n, sort) PROVE FALSE
        OBVIOUS
    <2>1. Rank(Slice(S, s, n, sort), x, sort) >= n
        BY <1>7, BehindTheSlice
    <2>2. Rank(Slice(S, s, n, sort), x, sort) <= Rank(joined, x, sort)
        BY <1>2, <1>7, RankInLonger
    <2>3. Slice(S, s, n, sort) \in SUBSET Item /\ IsFiniteSet(Slice(S, s, n, sort))
        <3>1. Slice(S, s, n, sort) \in SUBSET joined
            BY <1>7
        <3>2. \A a \in Slice(S, s, n, sort) : a \in Item
            BY <1>2, <3>1
        <3> QED
            BY <1>2, <3>1, <3>2, FS_Subset
    <2>4. Rank(Slice(S, s, n, sort), x, sort) \in Nat
        <3> DEFINE slice == Slice(S, s, n, sort)
        <3> HIDE DEF slice
        <3>1. slice \in SUBSET Item /\ IsFiniteSet(slice)
            BY <2>3 DEF slice
        <3>2. Cardinality(slice) \in Nat /\ Rank(slice, x, sort) \in 0..Cardinality(slice)
            BY <3>1, <1>3, Ranks, FS_CardinalityType
        <3>3. Rank(slice, x, sort) \in Nat
            BY <3>2
        <3> QED
            BY <3>3 DEF slice
    <2> QED
        BY <1>4, <1>5, <1>6, <2>1, <2>2, <2>4
<1>8. x \in joined
    BY <1>7
<1>9. Rank(joined, x, sort) \in 0..(0 + n - 1)
    BY <1>4, <1>5, <1>6
<1> QED
    BY <1>8, <1>9, Zenon DEF Slice

\* An offset moves on by the items that are listed, and stays within what has been shown.
LEMMA OffsetIsShown ==
    ASSUME NEW sort, NEW D \in SUBSET Item, Closed(D, sort),
           NEW S \in SUBSET Item, IsFiniteSet(S),
           NEW s \in Nat, s <= Cardinality(S \cap D), NEW n \in Nat,
           NEW L \in SUBSET Slice(S, s, n, sort),
           NEW E, D \subseteq E, L \subseteq E
    PROVE  /\ Cardinality(L) \in Nat /\ IsFiniteSet(L)
           /\ s + Cardinality(L) <= Cardinality(S \cap E)
<1> DEFINE places == 0..(s - 1)
           First == {a \in S : Rank(S, a, sort) \in places}
<1>1. L \subseteq S /\ \A a \in L : Rank(S, a, sort) >= s
    BY DEF Slice
<1>2. IsFiniteSet(L) /\ IsFiniteSet(S \cap D) /\ IsFiniteSet(S \cap E)
    BY <1>1, FS_Subset, FS_Intersection
<1>3. /\ Cardinality(L) \in Nat
      /\ Cardinality(S) \in Nat
      /\ Cardinality(S \cap D) \in Nat
      /\ Cardinality(S \cap E) \in Nat
    BY <1>2, FS_CardinalityType
<1>4. Cardinality(S \cap D) <= Cardinality(S)
    BY FS_Intersection
<1>5. IsFiniteSet(First) /\ Cardinality(First) = s
    <2>1. places \subseteq 0..(Cardinality(S) - 1)
        BY <1>3, <1>4
    <2>2. Cardinality(places) = s
        <3>1. s - 1 \in Int
            OBVIOUS
        <3>2. Cardinality(places) = IF 0 > s - 1 THEN 0 ELSE (s - 1) - 0 + 1
            BY <3>1, FS_Interval
        <3> QED
            BY <3>2
    <2> HIDE DEF places
    <2> QED
        BY <2>1, <2>2, ItemsAtRanks
<1>6. First \subseteq D
    <2> SUFFICES ASSUME NEW a \in First PROVE a \in D
        OBVIOUS
    <2>1. a \in S /\ Rank(S, a, sort) <= s - 1 /\ Rank(S, a, sort) \in Nat
        OBVIOUS
    <2>2. Rank(S, a, sort) < Cardinality(S \cap D)
        BY <2>1, <1>3
    <2> QED
        BY <2>1, <2>2, ShownComesFirst
<1>7. First \cap L = {} /\ First \subseteq S
    BY <1>1
<1> HIDE DEF First, places
<1>8. Cardinality(First \cup L) = s + Cardinality(L)
    <2>1. Cardinality(First \cap L) = 0
        BY <1>7, FS_EmptySet
    <2>2. Cardinality(First \cup L)
            = Cardinality(First) + Cardinality(L) - Cardinality(First \cap L)
        BY <1>2, <1>5, FS_Union
    <2> QED
        BY <1>3, <1>5, <2>1, <2>2
<1>9. First \cup L \subseteq S \cap E
    BY <1>1, <1>6, <1>7
<1>10. s + Cardinality(L) <= Cardinality(S \cap E)
    BY <1>2, <1>8, <1>9, FS_Subset
<1> QED
    BY <1>2, <1>3, <1>10

\* It stays exact if nothing else has been shown.
LEMMA OffsetIsExact ==
    ASSUME NEW sort, NEW D \in SUBSET Item, Closed(D, sort),
           NEW S \in SUBSET Item, IsFiniteSet(S),
           NEW s \in Nat, s <= Cardinality(S \cap D), s >= Cardinality(S \cap D), NEW n \in Nat,
           NEW L \in SUBSET Slice(S, s, n, sort),
           NEW E, D \subseteq E, L \subseteq E,
           S \cap E = (S \cap D) \cup L
    PROVE  s + Cardinality(L) = Cardinality(S \cap E)
<1>1. L \subseteq S
    BY DEF Slice
<1>2. IsFiniteSet(L) /\ IsFiniteSet(S \cap D) /\ IsFiniteSet(S \cap E)
    BY <1>1, FS_Subset, FS_Intersection
<1>3. /\ Cardinality(L) \in Nat
      /\ Cardinality(S \cap D) \in Nat
      /\ Cardinality(S \cap E) \in Nat
    BY <1>2, FS_CardinalityType
<1>4. s = Cardinality(S \cap D)
    BY <1>3
<1>5. s + Cardinality(L) <= Cardinality(S \cap E)
    BY OffsetIsShown
<1>6. Cardinality(S \cap E) <= s + Cardinality(L)
    <2>1. S \cap E \subseteq (S \cap D) \cup L
        OBVIOUS
    <2>2. /\ IsFiniteSet((S \cap D) \cup L)
          /\ Cardinality((S \cap D) \cup L)
               = Cardinality(S \cap D) + Cardinality(L) - Cardinality((S \cap D) \cap L)
        BY <1>2, FS_Union
    <2>3. Cardinality((S \cap D) \cap L) \in Nat
        BY <1>2, FS_Intersection, FS_CardinalityType
    <2>4. Cardinality(S \cap E) <= Cardinality((S \cap D) \cup L)
        BY <2>1, <2>2, FS_Subset
    <2> QED
        BY <1>3, <1>4, <2>2, <2>3, <2>4
<1> QED
    BY <1>3, <1>5, <1>6

\* A slice is only empty behind the last item.
LEMMA EmptySlice ==
    ASSUME NEW sort, NEW D \in SUBSET Item, Closed(D, sort),
           NEW S \in SUBSET Item, IsFiniteSet(S),
           NEW s \in Nat, s <= Cardinality(S \cap D), NEW n \in Nat \ {0},
           Slice(S, s, n, sort) = {}
    PROVE  S \subseteq D
<1> SUFFICES ASSUME NEW x \in S, x \notin D PROVE FALSE
    OBVIOUS
<1>1. Rank({}, x, sort) >= n
    BY BehindTheSlice
<1>2. Rank({}, x, sort) = Cardinality({})
    <2>1. {other \in {} : Precedes(other, x, sort)} = {}
        OBVIOUS
    <2> QED
        BY <2>1 DEF Rank
<1> QED
    BY <1>1, <1>2, FS_EmptySet

\* The first page of a list is only empty if the list is.
LEMMA EmptyList ==
    ASSUME NEW sort, NEW S \in SUBSET Item, IsFiniteSet(S), NEW n \in Nat \ {0},
           Slice(S, 0, n, sort) = {}
    PROVE  S = {}
<1>1. Closed({}, sort) /\ {} \in SUBSET Item
    BY DEF Closed
<1>2. 0 <= Cardinality(S \cap {})
    <2>1. S \cap {} = {}
        OBVIOUS
    <2> QED
        BY <2>1, FS_EmptySet
<1> QED
    BY <1>1, <1>2, EmptySlice

-----------------------------------------------------------------------------
(***************************************************************************)
(* One page: mergeTransactionLists.                                        *)
(***************************************************************************)
Rows(view) == Items(view.rows, "DB")

Cached(view) == Items(view.fuel, "FUEL")

IsView(view) ==
    /\ view.rows \in SUBSET Nat /\ IsFiniteSet(view.rows)
    /\ view.fuel \in SUBSET Nat /\ IsFiniteSet(view.fuel)

Offsets == [db : Nat, fuel : Nat]

\* A list has one item for each time.
LEMMA ItemsOfTimes ==
    ASSUME NEW T \in SUBSET Nat, IsFiniteSet(T), NEW origin \in {"DB", "FUEL"}
    PROVE  /\ Items(T, origin) \in SUBSET Item
           /\ IsFiniteSet(Items(T, origin))
           /\ Cardinality(Items(T, origin)) = Cardinality(T)
<1> DEFINE item == [t \in T |-> [at |-> t, origin |-> origin]]
<1>1. Items(T, origin) \in SUBSET Item
    BY DEF Items, Item
<1>2. item \in Bijection(T, Items(T, origin))
    <2>1. item \in [T -> Items(T, origin)]
        BY DEF Items
    <2>2. \A a, b \in T : item[a] = item[b] => a = b
        OBVIOUS
    <2>3. \A i \in Items(T, origin) : \E t \in T : item[t] = i
        BY DEF Items
    <2> QED
        BY <2>1, <2>2, <2>3 DEF Bijection, Injection, Surjection, IsInjective
<1>3. ExistsBijection(T, Items(T, origin))
    BY <1>2 DEF ExistsBijection
<1> QED
    BY <1>1, <1>3, FS_Bijection

\* The deposits of the cache that the page from an offset does not record.
Unrecorded(view, offset, perPage, sort) ==
    Items(FilterRecorded(view.fuel, Paginate(view.rows, offset, perPage, sort), view.recorded),
          "FUEL")

(***************************************************************************)
(* The deposits that are left out do not shift those behind the offset, if *)
(* nothing is recorded or if all rows before the page have been shown.     *)
(***************************************************************************)
LEMMA FilteredOffset ==
    ASSUME NEW sort, NEW D \in SUBSET Item, Closed(D, sort), NEW view, IsView(view),
           NEW offset \in Nat, NEW perPage \in Nat, NEW cachedOffset \in Nat,
           cachedOffset <= Cardinality(Cached(view) \cap D),
           view.recorded = {} \/ offset = Cardinality(Rows(view) \cap D)
    PROVE  /\ Unrecorded(view, offset, perPage, sort) \in SUBSET Cached(view)
           /\ Unrecorded(view, offset, perPage, sort) \in SUBSET Item
           /\ IsFiniteSet(Unrecorded(view, offset, perPage, sort))
           /\ cachedOffset <= Cardinality(Unrecorded(view, offset, perPage, sort) \cap D)
<1> DEFINE U == Unrecorded(view, offset, perPage, sort)
           page == Paginate(view.rows, offset, perPage, sort)
           unrecorded == FilterRecorded(view.fuel, page, view.recorded)
<1>1. /\ Rows(view) \in SUBSET Item /\ IsFiniteSet(Rows(view))
      /\ Cached(view) \in SUBSET Item /\ IsFiniteSet(Cached(view))
    BY ItemsOfTimes DEF IsView, Rows, Cached
<1>2. U \subseteq Cached(view)
    BY DEF FilterRecorded, Items, Cached, Unrecorded
<1>3. page \subseteq Rows(view)
    BY DEF Paginate, Slice, Rows
<1>4. ASSUME NEW x \in Cached(view), x \in D PROVE x \in U
    <2>1. PICK t \in view.fuel : x = [at |-> t, origin |-> "FUEL"]
        BY DEF Cached, Items
    <2>2. ASSUME NEW row \in page, row.at = t, t \in view.recorded PROVE FALSE
        <3>1. offset = Cardinality(Rows(view) \cap D)
            BY <2>2
        <3>2. row \in Rows(view) /\ Rank(Rows(view), row, sort) \in offset..(offset + perPage - 1)
            BY <2>2, Zenon DEF Paginate, Slice, Rows
        <3>3. row \in Item /\ row.origin = "DB" /\ x \in Item
            BY <1>1, <3>2 DEF Rows, Items
        <3>4. Precedes(row, x, sort)
            BY <2>1, <2>2, <3>3 DEF Precedes
        <3>5. row \in D
            BY <1>4, <3>3, <3>4 DEF Closed
        <3>6. Rank(Rows(view), row, sort) < Cardinality(Rows(view) \cap D)
            BY <1>1, <3>2, <3>5, ShownComesFirst
        <3>7. Rank(Rows(view), row, sort) >= offset
            BY <3>2
        <3>8. Rank(Rows(view), row, sort) \in Int
            BY <3>2
        <3> QED
            BY <3>1, <3>6, <3>7, <3>8
    <2>3. t \in unrecorded
        BY <2>1, <2>2 DEF FilterRecorded
    <2> QED
        BY <2>1, <2>3 DEF Items, Unrecorded
<1>5. U \cap D = Cached(view) \cap D
    BY <1>2, <1>4
<1> QED
    BY <1>1, <1>2, <1>5, FS_Subset

(***************************************************************************)
(* What a page does: D had been shown before and E has been now.  The      *)
(* answer holds, with an item, all the times before it that have not been  *)
(* shown; its offsets are within what has now been shown; and they grow    *)
(* until everything has been.                                              *)
(***************************************************************************)
PageGoesOn(view, offsets, D, answer, E) ==
    /\ answer.data \in SUBSET (Rows(view) \cup Cached(view))
    /\ \A x \in Rows(view) \cup Cached(view) :
         x \in E => x \in D \/ \E c \in answer.data : c.at = x.at
    /\ answer.offsets \in Offsets
    /\ answer.offsets.db <= Cardinality(Rows(view) \cap E)
    /\ answer.offsets.fuel <= Cardinality(Cached(view) \cap E)
    /\ offsets.db = Cardinality(Rows(view) \cap D) =>
         answer.offsets.db = Cardinality(Rows(view) \cap E)
    /\ \/ Rows(view) \cup Cached(view) \subseteq D
       \/ answer.offsets.db + answer.offsets.fuel >= offsets.db + offsets.fuel + 1

\* A page whose offsets are within what has been shown does so.
LEMMA OnePage ==
    ASSUME NEW sort, NEW D \in SUBSET Item, Closed(D, sort), NEW view, IsView(view),
           NEW offsets \in Offsets, NEW perPage \in Nat \ {0},
           offsets.db <= Cardinality(Rows(view) \cap D),
           offsets.fuel <= Cardinality(Cached(view) \cap D),
           view.recorded = {} \/ offsets.db = Cardinality(Rows(view) \cap D)
    PROVE  PageGoesOn(view, offsets, D, MergeTransactionLists(view, offsets, perPage, sort),
                      Further(D, MergeTransactionLists(view, offsets, perPage, sort).data, sort))
<1> DEFINE answer == MergeTransactionLists(view, offsets, perPage, sort)
           E == Further(D, answer.data, sort)
           R == Rows(view)
           page == Paginate(view.rows, offsets.db, perPage, sort)
           unrecorded == FilterRecorded(view.fuel, page, view.recorded)
           U == Items(unrecorded, "FUEL")
           fuel == Slice(U, offsets.fuel, perPage, sort)
           list == Slice(page \cup fuel, 0, perPage, sort)
           ofDb == {item \in list : item.origin = "DB"}
           ofFuel == {item \in list : item.origin = "FUEL"}
<1>1. /\ R \in SUBSET Item /\ IsFiniteSet(R)
      /\ Cached(view) \in SUBSET Item /\ IsFiniteSet(Cached(view))
    BY ItemsOfTimes DEF IsView, Rows, Cached
<1>2. offsets.db \in Nat /\ offsets.fuel \in Nat
    BY DEF Offsets
<1>3. /\ U \in SUBSET Cached(view) /\ U \in SUBSET Item /\ IsFiniteSet(U)
      /\ offsets.fuel <= Cardinality(U \cap D)
    <2>1. U = Unrecorded(view, offsets.db, perPage, sort)
        BY DEF Unrecorded
    <2>2. perPage \in Nat
        OBVIOUS
    <2> HIDE DEF U
    <2> QED
        BY <1>2, <2>1, <2>2, FilteredOffset
<1>4. page = Slice(R, offsets.db, perPage, sort)
    BY Zenon DEF Paginate, Rows
<1>5. /\ answer.data = list
      /\ answer.offsets = [db |-> offsets.db + Cardinality(ofDb),
                           fuel |-> offsets.fuel + Cardinality(ofFuel)]
    BY DEF MergeTransactionLists, NextOffset, CountPerOrigin
<1> HIDE DEF answer, E
<1>6. /\ page \subseteq R /\ \A a \in R : a.origin = "DB"
      /\ fuel \subseteq U /\ \A a \in U : a.origin = "FUEL"
      /\ list \subseteq page \cup fuel
    <2>1. \A S, from, n : Slice(S, from, n, sort) \subseteq S
        BY DEF Slice
    <2>2. \A a \in R : a.origin = "DB"
        BY DEF Rows, Items
    <2>3. \A a \in U : a.origin = "FUEL"
        BY DEF Items
    <2> HIDE DEF page, U
    <2> QED
        BY <1>4, <2>1, <2>2, <2>3
<1>7. /\ ofDb \in SUBSET page /\ ofFuel \in SUBSET fuel
      /\ list = ofDb \cup ofFuel
    BY <1>6
<1>8. list \in SUBSET Item
    BY <1>1, <1>3, <1>6
<1>9. D \subseteq E /\ list \subseteq E
    BY <1>5, <1>8 DEF Further, E
<1>10. \A x \in R \cup U : x \in E => x \in D \/ x \in list
    <2> SUFFICES ASSUME NEW x \in R \cup U, x \in E, x \notin D PROVE x \in list
        OBVIOUS
    <2>1. PICK c \in list : x = c \/ Precedes(x, c, sort)
        BY <1>5 DEF Further, E
    <2> DEFINE joined == page \cup fuel
    <2>2. joined = Slice(R, offsets.db, perPage, sort) \cup Slice(U, offsets.fuel, perPage, sort)
        BY <1>4
    <2>3. c \in Slice(joined, 0, perPage, sort)
        BY <2>1
    <2>4. offsets.db <= Cardinality(R \cap D) /\ perPage \in Nat
        OBVIOUS
    <2> HIDE DEF R, U, joined
    <2>5. x \in Slice(joined, 0, perPage, sort)
        BY <1>1, <1>2, <1>3, <2>1, <2>2, <2>3, <2>4, NothingIsSkipped
    <2> QED
        BY <2>5 DEF joined
<1>11. ASSUME NEW x \in R \cup Cached(view), x \in E
       PROVE  x \in D \/ \E c \in list : c.at = x.at
    <2>1. CASE x \in R \cup U
        BY <1>10, <1>11, <2>1
    <2>2. CASE x \notin R \cup U
        <3>1. PICK t \in view.fuel : x = [at |-> t, origin |-> "FUEL"]
            BY <2>2 DEF Cached, Items
        <3>2. PICK row \in page : row.at = t /\ t \in view.recorded
            BY <2>2, <3>1 DEF FilterRecorded, Items
        <3>3. row \in Item /\ row \in R /\ x \in Item
            BY <1>1, <1>6
        <3>4. Precedes(row, x, sort)
            BY <1>6, <3>1, <3>2, <3>3 DEF Precedes
        <3>5. row \in E
            <4>1. Closed(E, sort)
                BY <1>5, <1>8, FurtherIsClosed DEF E
            <4> QED
                BY <1>11, <3>3, <3>4, <4>1 DEF Closed
        <3>6. row \notin D
            <4>1. offsets.db = Cardinality(R \cap D)
                BY <3>2
            <4>2. Rank(R, row, sort) \in offsets.db..(offsets.db + perPage - 1)
                BY <1>4, Zenon DEF Slice
            <4>3. ~(Rank(R, row, sort) < Cardinality(R \cap D))
                BY <1>2, <4>1, <4>2
            <4> QED
                BY <1>1, <3>3, <4>3, ShownComesFirst
        <3>7. row \in list
            BY <1>10, <3>3, <3>5, <3>6
        <3> QED
            BY <3>1, <3>2, <3>7
    <2> QED
        BY <2>1, <2>2
<1> HIDE DEF page, unrecorded, U, fuel, list, R
<1>12. /\ Cardinality(ofDb) \in Nat /\ IsFiniteSet(ofDb)
       /\ offsets.db + Cardinality(ofDb) <= Cardinality(R \cap E)
       /\ offsets.db = Cardinality(R \cap D) =>
            offsets.db + Cardinality(ofDb) = Cardinality(R \cap E)
    <2> DEFINE db == offsets.db
    <2>1. /\ db \in Nat /\ db <= Cardinality(R \cap D) /\ perPage \in Nat
          /\ ofDb \in SUBSET Slice(R, db, perPage, sort)
          /\ ofDb \subseteq E
        BY <1>2, <1>4, <1>7, <1>9 DEF R
    <2>2. R \cap E = (R \cap D) \cup ofDb
        BY <1>6, <1>7, <1>9, <1>10
    <2> HIDE DEF ofDb, db
    <2>3. /\ Cardinality(ofDb) \in Nat /\ IsFiniteSet(ofDb)
          /\ db + Cardinality(ofDb) <= Cardinality(R \cap E)
        BY <1>1, <1>9, <2>1, OffsetIsShown
    <2>4. ASSUME db = Cardinality(R \cap D)
          PROVE  db + Cardinality(ofDb) = Cardinality(R \cap E)
        <3>1. db >= Cardinality(R \cap D)
            BY <2>1, <2>4
        <3> QED
            BY <1>1, <1>9, <2>1, <2>2, <3>1, OffsetIsExact
    <2> QED
        BY <2>3, <2>4 DEF db
<1>13. /\ Cardinality(ofFuel) \in Nat /\ IsFiniteSet(ofFuel)
       /\ offsets.fuel + Cardinality(ofFuel) <= Cardinality(U \cap E)
    <2>1. ofFuel \subseteq E
        BY <1>9
    <2>2. ofFuel \in SUBSET Slice(U, offsets.fuel, perPage, sort)
        BY <1>7 DEF fuel
    <2>3. perPage \in Nat
        OBVIOUS
    <2> HIDE DEF ofFuel
    <2> QED
        BY <1>2, <1>3, <1>9, <2>1, <2>2, <2>3, OffsetIsShown, ZenonT(60)
<1>14. offsets.fuel + Cardinality(ofFuel) <= Cardinality(Cached(view) \cap E)
    <2>1. U \cap E \subseteq Cached(view) \cap E /\ IsFiniteSet(Cached(view) \cap E)
        BY <1>1, <1>3, FS_Intersection
    <2>2. Cardinality(U \cap E) <= Cardinality(Cached(view) \cap E)
        BY <2>1, FS_Subset
    <2>3. Cardinality(U \cap E) \in Nat /\ Cardinality(Cached(view) \cap E) \in Nat
        BY <1>1, <1>3, FS_Intersection, FS_CardinalityType
    <2> QED
        BY <1>2, <1>13, <2>2, <2>3
<1>15. ASSUME list # {}
       PROVE  answer.offsets.db + answer.offsets.fuel >= offsets.db + offsets.fuel + 1
    <2>1. ofDb # {} \/ ofFuel # {}
        BY <1>7, <1>15
    <2>2. Cardinality(ofDb) # 0 \/ Cardinality(ofFuel) # 0
        BY <1>12, <1>13, <2>1, FS_EmptySet
    <2> HIDE DEF ofDb, ofFuel
    <2> QED
        BY <1>2, <1>5, <1>12, <1>13, <2>2
<1>16. ASSUME list = {} PROVE Rows(view) \cup Cached(view) \subseteq D
    <2>1. page \cup fuel \in SUBSET Item /\ IsFiniteSet(page \cup fuel)
        <3>1. IsFiniteSet(page) /\ IsFiniteSet(fuel)
            BY <1>1, <1>3, <1>6, FS_Subset
        <3> QED
            BY <1>1, <1>3, <1>6, <3>1, FS_Union
    <2>2. page \cup fuel = {}
        <3> DEFINE joined == page \cup fuel
        <3> HIDE DEF joined
        <3>1. Slice(joined, 0, perPage, sort) = {}
            BY <1>16 DEF list, joined
        <3>2. joined = {}
            BY <2>1, <3>1, EmptyList DEF joined
        <3> QED
            BY <3>2 DEF joined
    <2>3. R \subseteq D
        BY <1>1, <1>2, <1>4, <2>2, EmptySlice DEF R
    <2>4. U \subseteq D
        BY <1>2, <1>3, <2>2, EmptySlice DEF fuel
    <2>5. U = Cached(view)
        BY <2>2 DEF U, unrecorded, FilterRecorded, Cached
    <2> QED
        BY <2>3, <2>4, <2>5 DEF R
<1>17. answer.offsets \in Offsets
    BY <1>2, <1>5, <1>12, <1>13 DEF Offsets
<1>18. answer.data \in SUBSET (R \cup Cached(view))
    BY <1>3, <1>5, <1>6
<1>19. \A x \in Rows(view) \cup Cached(view) :
         x \in E => x \in D \/ \E c \in answer.data : c.at = x.at
    BY <1>5, <1>11 DEF R
<1> QED
    <2>1. PageGoesOn(view, offsets, D, answer, E)
        BY <1>5, <1>12, <1>14, <1>15, <1>16, <1>17, <1>18, <1>19 DEF R, PageGoesOn
    <2> QED
        BY <2>1 DEF answer, E

-----------------------------------------------------------------------------
(***************************************************************************)
(* Walks: a client that asks for n pages while rows and deposits come.     *)
(***************************************************************************)
GrowingViews(views, n) ==
    /\ \A k \in 1..n : IsView(views[k])
    /\ \A i, j \in 1..n : i <= j => /\ views[i].rows \subseteq views[j].rows
                                    /\ views[i].fuel \subseteq views[j].fuel

NothingRecorded(views, n) == \A k \in 1..n : views[k].recorded = {}

\* The rows that come do so at the end of the list that the client walks through.
RowsComeLast(views, sort, n) ==
    \A i, j \in 1..n : i <= j =>
      \A x \in Rows(views[j]) \ Rows(views[i]), y \in Rows(views[i]) \cup Cached(views[i]) :
        Precedes(y, x, sort)

(***************************************************************************)
(* The invariant of a walk after k pages, of which D has been shown.       *)
(***************************************************************************)
WalkInv(state, views, sort, n, k, D) ==
    /\ D \in SUBSET Item /\ Closed(D, sort)
    /\ state.offsets \in Offsets
    /\ \A j \in 1..n : j >= k =>
         /\ state.offsets.db <= Cardinality(Rows(views[j]) \cap D)
         /\ state.offsets.fuel <= Cardinality(Cached(views[j]) \cap D)
         /\ RowsComeLast(views, sort, n) =>
              state.offsets.db = Cardinality(Rows(views[j]) \cap D)
    /\ \A x \in Rows(views[1]) \cup Cached(views[1]) : x \in D => x.at \in state.shown
    /\ \/ Rows(views[1]) \cup Cached(views[1]) \subseteq D
       \/ state.offsets.db + state.offsets.fuel >= k

\* The walk invariant holds before the first page.
LEMMA WalkBegins ==
    ASSUME NEW views, NEW sort, NEW n
    PROVE  WalkInv(Beginning, views, sort, n, 0, {})
<1>1. \A S : S \cap {} = {}
    OBVIOUS
<1>2. Cardinality({}) = 0
    BY FS_EmptySet
<1>3. Beginning.offsets = [db |-> 0, fuel |-> 0]
    BY DEF Beginning
<1>4. \A S : Cardinality(S \cap {}) = 0
    BY <1>1, <1>2
<1> QED
    BY <1>3, <1>4 DEF WalkInv, Closed, Offsets

\* What has been shown of a list does not shrink when the list grows.
LEMMA ShownGrows ==
    ASSUME NEW origin \in {"DB", "FUEL"}, NEW S \in SUBSET Nat, NEW T \in SUBSET Nat,
           S \subseteq T, IsFiniteSet(T), NEW D
    PROVE  /\ Cardinality(Items(S, origin) \cap D) <= Cardinality(Items(T, origin) \cap D)
           /\ Cardinality(Items(S, origin) \cap D) \in Nat
           /\ Cardinality(Items(T, origin) \cap D) \in Nat
<1>1. IsFiniteSet(Items(T, origin))
    BY ItemsOfTimes
<1>2. Items(S, origin) \subseteq Items(T, origin)
    BY DEF Items
<1>3. IsFiniteSet(Items(T, origin) \cap D)
    BY <1>1, FS_Intersection
<1>4. Items(S, origin) \cap D \subseteq Items(T, origin) \cap D
    BY <1>2
<1> QED
    BY <1>3, <1>4, FS_Subset, FS_CardinalityType

\* A row that comes last has not been passed.
LEMMA NewRowsAreAhead ==
    ASSUME NEW views, NEW sort, NEW n \in Nat, GrowingViews(views, n),
           RowsComeLast(views, sort, n),
           NEW i \in 1..n, NEW j \in 1..n, i <= j,
           NEW D \in SUBSET Item,
           Cardinality(Rows(views[i]) \cap D) = Cardinality(Rows(views[j]) \cap D),
           NEW list \in SUBSET (Rows(views[i]) \cup Cached(views[i]))
    PROVE  Rows(views[j]) \cap Further(D, list, sort) = Rows(views[i]) \cap Further(D, list, sort)
<1> DEFINE E == Further(D, list, sort)
<1>1. /\ Rows(views[i]) \subseteq Rows(views[j])
      /\ Rows(views[j]) \in SUBSET Item /\ IsFiniteSet(Rows(views[j]))
      /\ Cached(views[i]) \in SUBSET Item
    <2>1. IsView(views[i]) /\ IsView(views[j]) /\ views[i].rows \subseteq views[j].rows
        BY DEF GrowingViews
    <2> QED
        BY <2>1, ItemsOfTimes DEF IsView, Rows, Cached, Items
<1>2. Rows(views[i]) \cap D = Rows(views[j]) \cap D
    <2>1. IsFiniteSet(Rows(views[j]) \cap D)
        BY <1>1, FS_Intersection
    <2>2. Rows(views[i]) \cap D \subseteq Rows(views[j]) \cap D
        BY <1>1
    <2> QED
        BY <2>1, <2>2, FS_Subset
<1>3. ASSUME NEW x \in Rows(views[j]), x \in E, x \notin Rows(views[i]) PROVE FALSE
    <2>1. x \notin D
        BY <1>2, <1>3
    <2>2. PICK c \in list : x = c \/ Precedes(x, c, sort)
        BY <1>3, <2>1 DEF Further
    <2>3. Precedes(c, x, sort)
        BY <1>3, <2>2 DEF RowsComeLast
    <2>4. x \in Item /\ c \in Item
        BY <1>1, <2>2
    <2>5. ~Precedes(x, x, sort)
        BY <2>4, OrderOfItems
    <2> QED
        BY <2>2, <2>3, <2>4, <2>5, OrderOfItems
<1> QED
    BY <1>1, <1>3

\* The next page keeps the walk invariant.
LEMMA WalkGoesOn ==
    ASSUME NEW views, NEW sort, NEW n \in Nat, GrowingViews(views, n),
           NothingRecorded(views, n) \/ RowsComeLast(views, sort, n),
           NEW perPage \in Nat \ {0}, NEW k \in Nat, k + 1 <= n,
           NEW before, NEW D, WalkInv(before, views, sort, n, k, D)
    PROVE  \E E : WalkInv(NextPage(before, views[k + 1], perPage, sort), views, sort, n, k + 1, E)
<1> DEFINE view == views[k + 1]
           answer == MergeTransactionLists(view, before.offsets, perPage, sort)
           E == Further(D, answer.data, sort)
           after == NextPage(before, view, perPage, sort)
           Both == Rows(view) \cup Cached(view)
<1>1. k + 1 \in 1..n /\ 1 \in 1..n /\ k + 1 >= k
    OBVIOUS
<1>2. IsView(view)
    BY <1>1 DEF GrowingViews
<1>3. D \in SUBSET Item /\ Closed(D, sort) /\ before.offsets \in Offsets
    BY DEF WalkInv
<1>4. /\ before.offsets.db <= Cardinality(Rows(view) \cap D)
      /\ before.offsets.fuel <= Cardinality(Cached(view) \cap D)
      /\ RowsComeLast(views, sort, n) => before.offsets.db = Cardinality(Rows(view) \cap D)
    BY <1>1 DEF WalkInv
<1>5. view.recorded = {} \/ before.offsets.db = Cardinality(Rows(view) \cap D)
    BY <1>1, <1>4 DEF NothingRecorded
<1> HIDE DEF view, answer, E
<1>6. PageGoesOn(view, before.offsets, D, answer, E)
    BY <1>2, <1>3, <1>4, <1>5, OnePage DEF answer, E
<1>7. /\ after.offsets = answer.offsets
      /\ after.shown = before.shown \cup {item.at : item \in answer.data}
    BY DEF NextPage, answer
<1>8. E \in SUBSET Item /\ Closed(E, sort) /\ D \subseteq E
    <2>1. Both \in SUBSET Item
        BY <1>2, ItemsOfTimes DEF IsView, Rows, Cached
    <2>2. answer.data \in SUBSET Item
        BY <1>6, <2>1 DEF PageGoesOn
    <2> QED
        BY <1>3, <2>2, FurtherIsClosed DEF E, Further
<1>9. Rows(views[1]) \cup Cached(views[1]) \subseteq Both
    <2>1. views[1].rows \subseteq view.rows /\ views[1].fuel \subseteq view.fuel
        BY <1>1 DEF GrowingViews, view
    <2> QED
        BY <2>1 DEF Rows, Cached, Items
<1>10. ASSUME NEW j \in 1..n, j >= k + 1
       PROVE  /\ after.offsets.db <= Cardinality(Rows(views[j]) \cap E)
              /\ after.offsets.fuel <= Cardinality(Cached(views[j]) \cap E)
              /\ RowsComeLast(views, sort, n) =>
                   after.offsets.db = Cardinality(Rows(views[j]) \cap E)
    <2>1. /\ view.rows \in SUBSET Nat /\ view.fuel \in SUBSET Nat
          /\ view.rows \subseteq views[j].rows /\ view.fuel \subseteq views[j].fuel
          /\ views[j].rows \in SUBSET Nat /\ IsFiniteSet(views[j].rows)
          /\ views[j].fuel \in SUBSET Nat /\ IsFiniteSet(views[j].fuel)
        BY <1>1, <1>10 DEF GrowingViews, IsView, view
    <2>2. /\ Cardinality(Rows(view) \cap E) <= Cardinality(Rows(views[j]) \cap E)
          /\ Cardinality(Rows(view) \cap E) \in Nat
          /\ Cardinality(Rows(views[j]) \cap E) \in Nat
        BY <2>1, ShownGrows DEF Rows
    <2>3. /\ Cardinality(Cached(view) \cap E) <= Cardinality(Cached(views[j]) \cap E)
          /\ Cardinality(Cached(view) \cap E) \in Nat
          /\ Cardinality(Cached(views[j]) \cap E) \in Nat
        BY <2>1, ShownGrows DEF Cached
    <2>4. answer.offsets.db \in Nat /\ answer.offsets.fuel \in Nat
        BY <1>6 DEF Offsets, PageGoesOn
    <2>5. ASSUME RowsComeLast(views, sort, n)
          PROVE  answer.offsets.db = Cardinality(Rows(views[j]) \cap E)
        <3>1. before.offsets.db = Cardinality(Rows(view) \cap D)
            BY <1>4, <2>5
        <3>2. before.offsets.db = Cardinality(Rows(views[j]) \cap D)
            <4>1. j >= k
                BY <1>10
            <4> QED
                BY <2>5, <4>1 DEF WalkInv
        <3>3. Rows(views[j]) \cap E = Rows(view) \cap E
            BY <1>1, <1>3, <1>6, <1>10, <2>5, <3>1, <3>2, NewRowsAreAhead DEF view, E, PageGoesOn
        <3> QED
            BY <1>6, <3>1, <3>3 DEF PageGoesOn
    <2> QED
        BY <1>6, <1>7, <2>2, <2>3, <2>4, <2>5 DEF PageGoesOn
<1>11. ASSUME NEW x \in Rows(views[1]) \cup Cached(views[1]), x \in E
       PROVE  x.at \in after.shown
    <2>1. x \in D \/ \E c \in answer.data : c.at = x.at
        BY <1>6, <1>9, <1>11 DEF PageGoesOn
    <2>2. x \in D => x.at \in before.shown
        BY DEF WalkInv
    <2> QED
        BY <1>7, <2>1, <2>2
<1>12. \/ Rows(views[1]) \cup Cached(views[1]) \subseteq E
       \/ after.offsets.db + after.offsets.fuel >= k + 1
    <2>1. CASE Rows(views[1]) \cup Cached(views[1]) \subseteq D
        BY <1>8, <2>1
    <2>2. CASE Both \subseteq D
        BY <1>8, <1>9, <2>2
    <2>3. CASE /\ before.offsets.db + before.offsets.fuel >= k
               /\ answer.offsets.db + answer.offsets.fuel
                    >= before.offsets.db + before.offsets.fuel + 1
        BY <1>3, <1>6, <1>7, <2>3 DEF Offsets, PageGoesOn
    <2> QED
        BY <1>6, <2>1, <2>2, <2>3 DEF WalkInv, PageGoesOn
<1>13. WalkInv(after, views, sort, n, k + 1, E)
    BY <1>6, <1>7, <1>8, <1>10, <1>11, <1>12 DEF WalkInv, PageGoesOn
<1> QED
    BY <1>13 DEF view

(***************************************************************************)
(* A client that asks for as many pages as there are rows and deposits in  *)
(* the end is shown every transaction that was there when it began         *)
(* (mergeTransactionLists): for any rows and deposits, any that come       *)
(* meanwhile, any page size and order; if no row records a deposit of the  *)
(* cache, or if the rows that come do so at the end of the list.           *)
(***************************************************************************)
THEOREM WalkIsComplete ==
    ASSUME NEW views, NEW sort, NEW n \in Nat \ {0}, GrowingViews(views, n),
           NothingRecorded(views, n) \/ RowsComeLast(views, sort, n),
           NEW perPage \in Nat \ {0},
           n >= Cardinality(views[n].rows) + Cardinality(views[n].fuel)
    PROVE  views[1].rows \cup views[1].fuel \subseteq Walk(views, perPage, sort, n)[n].shown
<1> DEFINE walk == Walk(views, perPage, sort, n)
           I == {k \in Nat : k <= n => \E D : WalkInv(walk[k], views, sort, n, k, D)}
<1>1. walk[0] = Beginning /\ \A k \in 1..n : walk[k] = NextPage(walk[k - 1], views[k], perPage, sort)
    BY WalkPages
<1> HIDE DEF walk
<1>2. 0 \in I
    BY <1>1, WalkBegins
<1>3. ASSUME NEW k \in I PROVE k + 1 \in I
    <2> SUFFICES ASSUME k + 1 <= n
                 PROVE  \E E : WalkInv(walk[k + 1], views, sort, n, k + 1, E)
        OBVIOUS
    <2>1. PICK D : WalkInv(walk[k], views, sort, n, k, D)
        OBVIOUS
    <2>2. walk[k + 1] = NextPage(walk[k], views[k + 1], perPage, sort)
        <3>1. k + 1 \in 1..n /\ (k + 1) - 1 = k
            OBVIOUS
        <3> QED
            BY <1>1, <3>1
    <2>3. n \in Nat /\ k \in Nat
        OBVIOUS
    <2>4. \E E : WalkInv(NextPage(walk[k], views[k + 1], perPage, sort), views, sort, n, k + 1, E)
        BY <2>1, <2>3, WalkGoesOn
    <2> QED
        BY <2>2, <2>4
<1>4. I \in SUBSET Nat
    OBVIOUS
<1>5. n \in I
    <2> HIDE DEF I
    <2> QED
        BY <1>2, <1>3, <1>4, NatSetInduction
<1>6. PICK D : WalkInv(walk[n], views, sort, n, n, D)
    BY <1>5
<1> DEFINE R == Rows(views[n])
           F == Cached(views[n])
           db == walk[n].offsets.db
           fuel == walk[n].offsets.fuel
<1>7. 1 \in 1..n /\ n \in 1..n /\ 1 <= n /\ n <= n
    OBVIOUS
<1>8. IsView(views[n])
    BY <1>7 DEF GrowingViews
<1>9. /\ IsFiniteSet(R) /\ Cardinality(R) = Cardinality(views[n].rows)
      /\ IsFiniteSet(F) /\ Cardinality(F) = Cardinality(views[n].fuel)
    BY <1>8, ItemsOfTimes DEF IsView, Rows, Cached
<1>10. Rows(views[1]) \subseteq R /\ Cached(views[1]) \subseteq F
    <2>1. views[1].rows \subseteq views[n].rows /\ views[1].fuel \subseteq views[n].fuel
        BY <1>7 DEF GrowingViews
    <2> QED
        BY <2>1 DEF Rows, Cached, Items
<1>11. /\ db \in Nat /\ fuel \in Nat
       /\ db <= Cardinality(R \cap D) /\ fuel <= Cardinality(F \cap D)
    BY <1>6, <1>7 DEF WalkInv, Offsets
<1> HIDE DEF R, F, db, fuel
<1>12. ASSUME db + fuel >= n PROVE R \subseteq D /\ F \subseteq D
    <2>1. /\ Cardinality(R) \in Nat /\ Cardinality(F) \in Nat
          /\ Cardinality(R \cap D) \in Nat /\ Cardinality(F \cap D) \in Nat
          /\ Cardinality(R \cap D) <= Cardinality(R) /\ Cardinality(F \cap D) <= Cardinality(F)
        BY <1>9, FS_Intersection, FS_CardinalityType
    <2>2. Cardinality(R \cap D) = Cardinality(R) /\ Cardinality(F \cap D) = Cardinality(F)
        BY <1>9, <1>11, <1>12, <2>1
    <2>3. R \cap D = R /\ F \cap D = F
        BY <1>9, <2>2, FS_Subset
    <2> QED
        BY <2>3
<1>13. Rows(views[1]) \cup Cached(views[1]) \subseteq D
    BY <1>6, <1>10, <1>12 DEF WalkInv, db, fuel
<1>14. \A x \in Rows(views[1]) \cup Cached(views[1]) : x.at \in walk[n].shown
    BY <1>6, <1>13 DEF WalkInv
<1>15. \A t \in views[1].rows \cup views[1].fuel : t \in walk[n].shown
    <2> TAKE t \in views[1].rows \cup views[1].fuel
    <2>1. [at |-> t, origin |-> "DB"] \in Rows(views[1]) \/ [at |-> t, origin |-> "FUEL"] \in Cached(views[1])
        BY DEF Rows, Cached, Items
    <2> QED
        BY <1>14, <2>1
<1> QED
    BY <1>15 DEF walk

-----------------------------------------------------------------------------
(***************************************************************************)
(* The pages while nothing changes.                                        *)
(***************************************************************************)

\* A slice from what has not been shown yet shows nothing again.
LEMMA SliceIsNew ==
    ASSUME NEW sort, NEW D \in SUBSET Item, Closed(D, sort),
           NEW S \in SUBSET Item, IsFiniteSet(S),
           NEW s \in Nat, s >= Cardinality(S \cap D), NEW n \in Nat,
           NEW x \in Slice(S, s, n, sort)
    PROVE  x \in S /\ x \notin D
<1>1. x \in S /\ Rank(S, x, sort) \in s..(s + n - 1)
    BY Zenon DEF Slice
<1>2. Cardinality(S \cap D) \in Nat
    BY FS_Intersection, FS_CardinalityType
<1>3. ~(Rank(S, x, sort) < Cardinality(S \cap D))
    BY <1>1, <1>2
<1> QED
    BY <1>1, <1>3, ShownComesFirst

\* The first m items of a list and what precedes them.
First(S, m, sort) ==
    {x \in Item : \E y \in S : Rank(S, y, sort) < m /\ (x = y \/ Precedes(x, y, sort))}

\* The first m items are a closed part, and hold the m items of the list of lowest rank.
LEMMA FirstItems ==
    ASSUME NEW S \in SUBSET Item, IsFiniteSet(S), NEW m \in Nat, NEW sort
    PROVE  /\ First(S, m, sort) \in SUBSET Item
           /\ Closed(First(S, m, sort), sort)
           /\ \A x \in S : x \in First(S, m, sort) <=> Rank(S, x, sort) < m
<1>1. First(S, m, sort) \in SUBSET Item
    BY DEF First
<1>2. ASSUME NEW x \in First(S, m, sort), NEW z \in Item, Precedes(z, x, sort)
      PROVE  z \in First(S, m, sort)
    <2>1. PICK y \in S : Rank(S, y, sort) < m /\ (x = y \/ Precedes(x, y, sort))
        BY DEF First
    <2>2. x \in Item /\ y \in Item
        BY DEF First
    <2>3. Precedes(z, y, sort)
        BY <1>2, <2>1, <2>2, OrderOfItems
    <2> QED
        BY <2>1, <2>3 DEF First
<1>3. ASSUME NEW x \in S PROVE x \in First(S, m, sort) <=> Rank(S, x, sort) < m
    <2>1. \A y \in S : Rank(S, y, sort) \in Nat
        BY Ranks, FS_CardinalityType
    <2>2. \A y \in S : Precedes(x, y, sort) => Rank(S, x, sort) < Rank(S, y, sort)
        BY Ranks
    <2> QED
        BY <2>1, <2>2 DEF First
<1> QED
    BY <1>1, <1>2, <1>3 DEF Closed

\* The page that is joined where both lists have been shown exactly is a slice of both.
LEMMA JoinedIsTheSlice ==
    ASSUME NEW sort, NEW m \in Nat, NEW n \in Nat,
           NEW R \in SUBSET Item, IsFiniteSet(R), NEW F \in SUBSET Item, IsFiniteSet(F)
    PROVE  Slice(Slice(R, Cardinality(R \cap First(R \cup F, m, sort)), n, sort)
                   \cup Slice(F, Cardinality(F \cap First(R \cup F, m, sort)), n, sort),
                 0, n, sort)
             = Slice(R \cup F, m, n, sort)
<1> DEFINE S == R \cup F
           D == First(S, m, sort)
           d == Cardinality(R \cap D)
           f == Cardinality(F \cap D)
           joined == Slice(R, d, n, sort) \cup Slice(F, f, n, sort)
           list == Slice(joined, 0, n, sort)
           Shown == S \cap D
           Before(x) == {y \in joined : Precedes(y, x, sort)}
           BeforeInBoth(x) == {y \in S : Precedes(y, x, sort)}
<1>1. S \in SUBSET Item /\ IsFiniteSet(S)
    BY FS_Union
<1>2. d \in Nat /\ f \in Nat
    BY FS_Intersection, FS_CardinalityType
<1>First. D \in SUBSET Item /\ Closed(D, sort) /\ \A x \in S : x \in D <=> Rank(S, x, sort) < m
    BY <1>1, FirstItems
<1> HIDE DEF D
<1>3. joined \subseteq S \ D
    <2>1. d >= Cardinality(R \cap D) /\ f >= Cardinality(F \cap D)
        BY <1>2
    <2> HIDE DEF d, f
    <2> QED
        BY <1>2, <1>First, <2>1, SliceIsNew
<1>4. joined \in SUBSET Item /\ IsFiniteSet(joined)
    BY <1>1, <1>3, FS_Subset
<1>5. IsFiniteSet(Shown) /\ Cardinality(Shown) \in Nat
    BY <1>1, FS_Intersection, FS_CardinalityType
<1>6. \A x \in S : x \in D <=> Rank(S, x, sort) < m
    BY <1>First
<1>7. Shown = {a \in S : Rank(S, a, sort) \in 0..(m - 1)}
    <2>1. \A a \in S : Rank(S, a, sort) \in Nat
        BY <1>1, Ranks, FS_CardinalityType
    <2> HIDE DEF S
    <2>2. \A a \in S : a \in D <=> Rank(S, a, sort) \in 0..(m - 1)
        BY <1>6, <2>1
    <2> QED
        BY <2>2
<1> HIDE DEF S, d, f, joined, Shown
<1>8. ASSUME NEW x \in Item
      PROVE  /\ Rank(joined, x, sort) = Cardinality(Before(x)) /\ Rank(joined, x, sort) \in Nat
             /\ IsFiniteSet(Before(x)) /\ Before(x) \subseteq joined
             /\ Rank(S, x, sort) = Cardinality(BeforeInBoth(x)) /\ Rank(S, x, sort) \in Nat
             /\ IsFiniteSet(BeforeInBoth(x))
    <2>1. Rank(joined, x, sort) \in Nat /\ Rank(S, x, sort) \in Nat
        BY <1>1, <1>4, Ranks, FS_CardinalityType
    <2>2. IsFiniteSet(Before(x)) /\ IsFiniteSet(BeforeInBoth(x))
        BY <1>1, <1>4, FS_Subset
    <2>3. Rank(joined, x, sort) = Cardinality(Before(x)) /\ Rank(S, x, sort) = Cardinality(BeforeInBoth(x))
        BY Zenon DEF Rank
    <2> QED
        BY <2>1, <2>2, <2>3
<1>9. ASSUME NEW x \in Item
      PROVE  Cardinality(Before(x) \cup Shown) = Rank(joined, x, sort) + Cardinality(Shown)
             /\ IsFiniteSet(Before(x) \cup Shown)
    <2>1. Before(x) \cap Shown = {}
        BY <1>3 DEF Shown
    <2>2. Cardinality(Before(x) \cap Shown) = 0
        BY <2>1, FS_EmptySet
    <2>3. /\ Rank(joined, x, sort) = Cardinality(Before(x)) /\ Rank(joined, x, sort) \in Nat
          /\ IsFiniteSet(Before(x))
        BY <1>8
    <2> HIDE DEF Before
    <2>4. /\ IsFiniteSet(Before(x) \cup Shown)
          /\ Cardinality(Before(x) \cup Shown)
               = Cardinality(Before(x)) + Cardinality(Shown) - Cardinality(Before(x) \cap Shown)
        BY <1>5, <2>3, FS_Union
    <2> QED
        BY <1>5, <2>2, <2>3, <2>4
<1>10. ASSUME NEW x \in list PROVE x \in Slice(S, m, n, sort)
    <2>1. x \in joined /\ Rank(joined, x, sort) \in 0..(0 + n - 1)
        BY Zenon DEF Slice
    <2>2. x \in S /\ x \notin D /\ x \in Item
        BY <1>1, <1>3, <2>1
    <2>3. BeforeInBoth(x) \subseteq Before(x) \cup Shown
        <3> SUFFICES ASSUME NEW y \in S, Precedes(y, x, sort), y \notin D PROVE y \in joined
            BY DEF Shown
        <3>1. y \in (R \cup F) \ D
            BY DEF S
        <3>2. d <= Cardinality(R \cap D) /\ f <= Cardinality(F \cap D)
            BY <1>2 DEF d, f
        <3>3. joined = Slice(R, d, n, sort) \cup Slice(F, f, n, sort)
            BY DEF joined
        <3>4. y \in list
            BY <1>2, <1>First, <3>1, <3>2, <3>3, NothingIsSkipped
        <3> QED
            BY <3>4 DEF Slice
    <2>4. Rank(S, x, sort) <= Rank(joined, x, sort) + Cardinality(Shown)
        <3>1. IsFiniteSet(Before(x) \cup Shown)
                /\ Cardinality(Before(x) \cup Shown) = Rank(joined, x, sort) + Cardinality(Shown)
            BY <1>9, <2>2
        <3>2. Cardinality(BeforeInBoth(x)) <= Cardinality(Before(x) \cup Shown)
            BY <2>3, <3>1, FS_Subset
        <3> QED
            BY <1>8, <2>2, <3>1, <3>2
    <2>5. Cardinality(Shown) <= m
        <3>1. IsFiniteSet(0..(m - 1)) /\ Cardinality(0..(m - 1)) = m
            <4>1. 0 \in Int /\ m - 1 \in Int
                OBVIOUS
            <4>2. /\ IsFiniteSet(0..(m - 1))
                  /\ Cardinality(0..(m - 1)) = IF 0 > m - 1 THEN 0 ELSE (m - 1) - 0 + 1
                BY <4>1, FS_Interval
            <4> QED
                BY <4>2
        <3>2. x \in S /\ ~(Rank(S, x, sort) < m) /\ Rank(S, x, sort) < Cardinality(S)
            BY <1>1, <1>6, <2>2, Ranks
        <3>3. Rank(S, x, sort) \in Nat /\ Cardinality(S) \in Nat
            BY <1>1, <1>8, <2>2, FS_CardinalityType
        <3>4. 0..(m - 1) \subseteq 0..(Cardinality(S) - 1)
            BY <3>2, <3>3
        <3> DEFINE places == 0..(m - 1)
        <3>5. /\ Shown = {a \in S : Rank(S, a, sort) \in places}
              /\ places \subseteq 0..(Cardinality(S) - 1)
              /\ Cardinality(places) = m
            BY <1>7, <3>1, <3>4
        <3> HIDE DEF places
        <3>6. Cardinality(Shown) = Cardinality(places)
            BY <1>1, <3>5, ItemsAtRanks
        <3> QED
            BY <3>5, <3>6
    <2>6. ~(Rank(S, x, sort) < m)
        BY <1>6, <2>2
    <2>7. Rank(S, x, sort) \in Nat /\ Rank(joined, x, sort) \in Nat
        BY <1>8, <2>2
    <2>8. Rank(S, x, sort) \in m..(m + n - 1)
        BY <1>5, <2>1, <2>4, <2>5, <2>6, <2>7
    <2> QED
        BY <2>2, <2>8, Zenon DEF Slice
<1>11. ASSUME NEW x \in Slice(S, m, n, sort) PROVE x \in list
    <2>1. x \in S /\ Rank(S, x, sort) \in m..(m + n - 1)
        BY Zenon DEF Slice
    <2>2. x \in Item /\ Rank(S, x, sort) \in Nat /\ ~(Rank(S, x, sort) < m)
        BY <1>1, <2>1
    <2>3. x \notin D
        BY <1>6, <2>1, <2>2
    <2> SUFFICES ASSUME x \notin list PROVE FALSE
        OBVIOUS
    <2>4. Rank(joined, x, sort) >= n
        <3>1. CASE x \in joined
            <4>1. Rank(joined, x, sort) \notin 0..(0 + n - 1)
                BY <3>1, Zenon DEF Slice
            <4>2. Rank(joined, x, sort) \in Nat
                BY <1>8, <2>2
            <4> QED
                BY <4>1, <4>2
        <3>2. ASSUME x \notin joined,
                     NEW T \in SUBSET Item, IsFiniteSet(T), x \in T,
                     Slice(T, Cardinality(T \cap D), n, sort) \subseteq joined
              PROVE  Rank(joined, x, sort) >= n
            <4> DEFINE s == Cardinality(T \cap D)
                       slice == Slice(T, s, n, sort)
            <4>1. s \in Nat
                BY <3>2, FS_Intersection, FS_CardinalityType
            <4> HIDE DEF s
            <4>2. x \in T \ D /\ x \notin slice
                BY <2>3, <3>2 DEF s
            <4>3. s <= Cardinality(T \cap D)
                BY <4>1 DEF s
            <4>4. Rank(slice, x, sort) >= n
                BY <1>First, <3>2, <4>1, <4>2, <4>3, BehindTheSlice
            <4>5. slice \in SUBSET joined
                BY <3>2 DEF s
            <4> HIDE DEF slice
            <4>6. Rank(slice, x, sort) <= Rank(joined, x, sort)
                BY <1>4, <4>5, RankInLonger
            <4>7. Rank(slice, x, sort) \in Nat
                <5>1. slice \in SUBSET Item /\ IsFiniteSet(slice)
                    BY <1>4, <4>5, FS_Subset
                <5>2. Cardinality(slice) \in Nat /\ Rank(slice, x, sort) \in 0..Cardinality(slice)
                    BY <2>2, <5>1, Ranks, FS_CardinalityType
                <5> QED
                    BY <5>2
            <4>8. Rank(joined, x, sort) \in Nat
                BY <1>8, <2>2
            <4> QED
                BY <4>4, <4>6, <4>7, <4>8
        <3>3. CASE x \notin joined
            <4>1. x \in R \/ x \in F
                BY <2>1 DEF S
            <4>2. /\ Slice(R, Cardinality(R \cap D), n, sort) \subseteq joined
                  /\ Slice(F, Cardinality(F \cap D), n, sort) \subseteq joined
                BY DEF joined, d, f
            <4> QED
                BY <3>2, <3>3, <4>1, <4>2
        <3> QED
            BY <3>1, <3>3
    <2>5. Cardinality(Shown) >= m
        <3>1. Rank(S, x, sort) < Cardinality(S) /\ Cardinality(S) \in Nat
            BY <1>1, <2>1, Ranks, FS_CardinalityType
        <3> DEFINE places == 0..(m - 1)
        <3>2. places \subseteq 0..(Cardinality(S) - 1)
            BY <2>1, <2>2, <3>1
        <3>3. Cardinality(places) = m
            <4>1. 0 \in Int /\ m - 1 \in Int
                OBVIOUS
            <4>2. Cardinality(0..(m - 1)) = IF 0 > m - 1 THEN 0 ELSE (m - 1) - 0 + 1
                BY <4>1, FS_Interval
            <4> QED
                BY <4>2
        <3>4. Shown = {a \in S : Rank(S, a, sort) \in places}
            BY <1>7
        <3> HIDE DEF places
        <3>5. Cardinality(Shown) = Cardinality(places)
            BY <1>1, <3>2, <3>4, ItemsAtRanks
        <3> QED
            BY <3>3, <3>5
    <2>6. Before(x) \cup Shown \subseteq BeforeInBoth(x)
        <3>1. Before(x) \subseteq BeforeInBoth(x)
            BY <1>3
        <3>2. ASSUME NEW y \in Shown PROVE Precedes(y, x, sort)
            <4>1. y \in D /\ y \in Item /\ y # x /\ ~Precedes(x, y, sort)
                BY <1>First, <2>2, <2>3 DEF Shown, Closed
            <4> QED
                BY <2>2, <4>1, OrderOfItems
        <3> QED
            BY <3>1, <3>2 DEF Shown
    <2>7. Cardinality(Before(x) \cup Shown) <= Rank(S, x, sort)
        <3>1. IsFiniteSet(BeforeInBoth(x)) /\ Rank(S, x, sort) = Cardinality(BeforeInBoth(x))
            BY <1>8, <2>2
        <3> HIDE DEF Before, BeforeInBoth
        <3> QED
            BY <2>6, <3>1, FS_Subset
    <2>8. Cardinality(Before(x) \cup Shown) = Rank(joined, x, sort) + Cardinality(Shown)
        BY <1>9, <2>2
    <2>9. Rank(joined, x, sort) \in Nat
        BY <1>8, <2>2
    <2> QED
        BY <1>5, <2>1, <2>4, <2>5, <2>7, <2>8, <2>9
<1>12. list = Slice(S, m, n, sort)
    BY <1>10, <1>11
<1> QED
    BY <1>12 DEF joined, S, d, f, D

\* The part of a list that the first m items of it and another one bring is counted exactly.
LEMMA CountIsExact ==
    ASSUME NEW sort, NEW m \in Nat, NEW n \in Nat,
           NEW S \in SUBSET Item, IsFiniteSet(S), NEW T \in SUBSET S
    PROVE  /\ Cardinality(T \cap First(S, m + n, sort))
                = Cardinality(T \cap First(S, m, sort)) + Cardinality(T \cap Slice(S, m, n, sort))
           /\ Cardinality(T \cap First(S, m + n, sort)) \in Nat
<1> DEFINE D == First(S, m, sort)
           E == First(S, m + n, sort)
           L == T \cap Slice(S, m, n, sort)
<1>1. \A x \in S : x \in D <=> Rank(S, x, sort) < m
    BY FirstItems
<1>2. \A x \in S : x \in E <=> Rank(S, x, sort) < m + n
    <2>1. m + n \in Nat
        OBVIOUS
    <2> QED
        BY <2>1, FirstItems
<1>3. \A x \in S : Rank(S, x, sort) \in Nat
    BY Ranks, FS_CardinalityType
<1>4. \A x \in S : x \in Slice(S, m, n, sort) <=>
                     (Rank(S, x, sort) >= m /\ Rank(S, x, sort) < m + n)
    BY <1>3 DEF Slice
<1>5. IsFiniteSet(T)
    BY FS_Subset
<1> HIDE DEF D, E
<1>6. T \cap E = (T \cap D) \cup L /\ (T \cap D) \cap L = {}
    <2>1. \A x \in T : x \in E <=> x \in D \/ x \in L
        BY <1>1, <1>2, <1>3, <1>4
    <2>2. \A x \in T : ~(x \in D /\ x \in L)
        BY <1>1, <1>3, <1>4
    <2> HIDE DEF L
    <2>3. L \subseteq T
        BY DEF L
    <2> QED
        BY <2>1, <2>2, <2>3
<1> HIDE DEF L
<1>7. IsFiniteSet(T \cap D) /\ IsFiniteSet(L) /\ IsFiniteSet(T \cap E)
    BY <1>5, FS_Intersection DEF L
<1>8. Cardinality(T \cap E)
        = Cardinality(T \cap D) + Cardinality(L) - Cardinality((T \cap D) \cap L)
    BY <1>6, <1>7, FS_Union
<1>9. Cardinality((T \cap D) \cap L) = 0
    BY <1>6, FS_EmptySet
<1>10. /\ Cardinality(T \cap D) \in Nat /\ Cardinality(L) \in Nat
       /\ Cardinality(T \cap E) \in Nat
    BY <1>7, FS_CardinalityType
<1>11. Cardinality(T \cap E) = Cardinality(T \cap D) + Cardinality(L)
    BY <1>8, <1>9, <1>10
<1> QED
    BY <1>10, <1>11 DEF D, E, L

All(view) == Rows(view) \cup Cached(view)

\* Offsets behind the first m items, and a page that shows the next n of them.
OffsetsAt(offsets, view, m, sort) ==
    /\ offsets \in Offsets
    /\ offsets.db = Cardinality(Rows(view) \cap First(All(view), m, sort))
    /\ offsets.fuel = Cardinality(Cached(view) \cap First(All(view), m, sort))

PageAt(answer, view, m, n, sort) ==
    /\ answer.data = Slice(All(view), m, n, sort)
    /\ OffsetsAt(answer.offsets, view, m + n, sort)

\* While nothing is recorded, a page is the next part of the list.
LEMMA PageOfTheList ==
    ASSUME NEW view, IsView(view), view.recorded = {}, NEW sort,
           NEW perPage \in Nat, NEW m \in Nat,
           NEW offsets, OffsetsAt(offsets, view, m, sort)
    PROVE  PageAt(MergeTransactionLists(view, offsets, perPage, sort), view, m, perPage, sort)
<1> DEFINE answer == MergeTransactionLists(view, offsets, perPage, sort)
           S == All(view)
           R == Rows(view)
           F == Cached(view)
           D == First(S, m, sort)
           page == Slice(R, offsets.db, perPage, sort)
           fuel == Slice(F, offsets.fuel, perPage, sort)
           list == Slice(page \cup fuel, 0, perPage, sort)
           ofDb == {item \in list : item.origin = "DB"}
           ofFuel == {item \in list : item.origin = "FUEL"}
<1>1. /\ R \in SUBSET Item /\ IsFiniteSet(R)
      /\ F \in SUBSET Item /\ IsFiniteSet(F)
    BY ItemsOfTimes DEF IsView, Rows, Cached
<1>2. S \in SUBSET Item /\ IsFiniteSet(S)
    BY <1>1, FS_Union DEF All
<1>3. /\ offsets.db \in Nat /\ offsets.fuel \in Nat
      /\ offsets.db = Cardinality(R \cap D) /\ offsets.fuel = Cardinality(F \cap D)
    BY DEF Offsets, OffsetsAt
<1>4. FilterRecorded(view.fuel, Paginate(view.rows, offsets.db, perPage, sort), view.recorded)
        = view.fuel
    BY DEF FilterRecorded
<1>5. /\ answer.data = list
      /\ answer.offsets = [db |-> offsets.db + Cardinality(ofDb),
                           fuel |-> offsets.fuel + Cardinality(ofFuel)]
    BY <1>4 DEF MergeTransactionLists, NextOffset, CountPerOrigin, Paginate, Rows, Cached
<1>6. list = Slice(S, m, perPage, sort)
    <2>1. /\ page = Slice(R, Cardinality(R \cap D), perPage, sort)
          /\ fuel = Slice(F, Cardinality(F \cap D), perPage, sort)
        BY <1>3
    <2>2. D = First(R \cup F, m, sort) /\ S = R \cup F
        BY DEF All
    <2> HIDE DEF D, R, F, S
    <2> QED
        BY <1>1, <2>1, <2>2, JoinedIsTheSlice
<1>7. /\ ofDb = R \cap Slice(S, m, perPage, sort) /\ ofDb \subseteq page
      /\ ofFuel = F \cap Slice(S, m, perPage, sort) /\ ofFuel \subseteq fuel
    <2>1. \A T, from, n : Slice(T, from, n, sort) \subseteq T
        BY DEF Slice
    <2>2. (\A a \in R : a.origin = "DB") /\ (\A a \in F : a.origin = "FUEL")
        BY DEF Rows, Cached, Items
    <2>3. page \subseteq R /\ fuel \subseteq F /\ list \subseteq page \cup fuel
        BY <2>1
    <2> HIDE DEF page, fuel, list, R, F
    <2>4. ofDb = R \cap list /\ ofFuel = F \cap list
        BY <2>2, <2>3
    <2>5. ofDb \subseteq page /\ ofFuel \subseteq fuel
        BY <2>2, <2>3
    <2> QED
        BY <1>6, <2>4, <2>5
<1> HIDE DEF ofDb, ofFuel, list
<1>8. R \in SUBSET S /\ F \in SUBSET S
    BY DEF All
<1> HIDE DEF R, F, S
<1>9. /\ offsets.db + Cardinality(ofDb) = Cardinality(R \cap First(S, m + perPage, sort))
      /\ offsets.db + Cardinality(ofDb) \in Nat
    <2>1. /\ Cardinality(R \cap First(S, m + perPage, sort))
               = Cardinality(R \cap First(S, m, sort)) + Cardinality(R \cap Slice(S, m, perPage, sort))
          /\ Cardinality(R \cap First(S, m + perPage, sort)) \in Nat
        BY <1>2, <1>8, CountIsExact
    <2>2. offsets.db = Cardinality(R \cap First(S, m, sort))
        BY <1>3
    <2>3. Cardinality(ofDb) = Cardinality(R \cap Slice(S, m, perPage, sort))
        BY <1>7
    <2> QED
        BY <2>1, <2>2, <2>3
<1>10. /\ offsets.fuel + Cardinality(ofFuel) = Cardinality(F \cap First(S, m + perPage, sort))
       /\ offsets.fuel + Cardinality(ofFuel) \in Nat
    <2>1. /\ Cardinality(F \cap First(S, m + perPage, sort))
               = Cardinality(F \cap First(S, m, sort)) + Cardinality(F \cap Slice(S, m, perPage, sort))
          /\ Cardinality(F \cap First(S, m + perPage, sort)) \in Nat
        BY <1>2, <1>8, CountIsExact
    <2>2. offsets.fuel = Cardinality(F \cap First(S, m, sort))
        BY <1>3
    <2>3. Cardinality(ofFuel) = Cardinality(F \cap Slice(S, m, perPage, sort))
        BY <1>7
    <2> QED
        BY <2>1, <2>2, <2>3
<1>11. OffsetsAt(answer.offsets, view, m + perPage, sort)
    BY <1>5, <1>9, <1>10 DEF Offsets, OffsetsAt, R, F, S
<1> QED
    BY <1>5, <1>6, <1>11 DEF PageAt, S

(***************************************************************************)
(* While nothing changes and nothing is recorded, the k-th page of a walk  *)
(* is the k-th part of the sorted list of all rows and deposits            *)
(* (mergeTransactionLists): for any rows, deposits, page size and order.   *)
(***************************************************************************)
THEOREM WalkPagesTheList ==
    ASSUME NEW view, IsView(view), view.recorded = {}, NEW sort,
           NEW perPage \in Nat, NEW n \in Nat, NEW k \in 1..n
    PROVE  Walk([j \in 1..n |-> view], perPage, sort, n)[k].page
             = Slice(All(view), (k - 1) * perPage, perPage, sort)
<1> DEFINE views == [j \in 1..n |-> view]
           walk == Walk(views, perPage, sort, n)
           Exact(i) == OffsetsAt(walk[i].offsets, view, i * perPage, sort)
           I == {i \in Nat : i <= n => Exact(i)}
<1>1. walk[0] = Beginning /\ \A i \in 1..n : walk[i] = NextPage(walk[i - 1], views[i], perPage, sort)
    BY WalkPages
<1> HIDE DEF walk
<1>2. All(view) \in SUBSET Item /\ IsFiniteSet(All(view))
    <2>1. /\ Rows(view) \in SUBSET Item /\ IsFiniteSet(Rows(view))
          /\ Cached(view) \in SUBSET Item /\ IsFiniteSet(Cached(view))
        BY ItemsOfTimes DEF IsView, Rows, Cached
    <2> QED
        BY <2>1, FS_Union DEF All
<1>3. Exact(0)
    <2>1. \A x \in All(view) : Rank(All(view), x, sort) \in Nat
        BY <1>2, Ranks, FS_CardinalityType
    <2>2. First(All(view), 0, sort) = {}
        BY <2>1 DEF First
    <2>3. \A S : Cardinality(S \cap {}) = 0
        <3>1. \A S : S \cap {} = {}
            OBVIOUS
        <3> QED
            BY <3>1, FS_EmptySet
    <2>4. Beginning.offsets = [db |-> 0, fuel |-> 0]
        BY DEF Beginning
    <2>5. OffsetsAt(Beginning.offsets, view, 0, sort)
        BY <2>2, <2>3, <2>4 DEF Offsets, OffsetsAt
    <2>6. 0 * perPage = 0
        OBVIOUS
    <2> QED
        BY <1>1, <2>5, <2>6
<1>4. ASSUME NEW i \in Nat, i + 1 \in 1..n, Exact(i)
      PROVE  walk[i + 1].page = Slice(All(view), i * perPage, perPage, sort) /\ Exact(i + 1)
    <2> DEFINE answer == MergeTransactionLists(view, walk[i].offsets, perPage, sort)
               m == i * perPage
    <2>1. walk[i + 1] = NextPage(walk[i], view, perPage, sort)
        <3>1. (i + 1) - 1 = i /\ views[i + 1] = view
            BY <1>4
        <3> QED
            BY <1>1, <1>4, <3>1
    <2>2. walk[i + 1].page = answer.data /\ walk[i + 1].offsets = answer.offsets
        BY <2>1 DEF NextPage
    <2>3. m \in Nat /\ m + perPage = (i + 1) * perPage
        OBVIOUS
    <2>4. OffsetsAt(walk[i].offsets, view, m, sort)
        BY <1>4
    <2> HIDE DEF m
    <2>5. PageAt(answer, view, m, perPage, sort)
        BY <2>3, <2>4, PageOfTheList
    <2> QED
        BY <2>2, <2>3, <2>5 DEF m, PageAt
<1>5. ASSUME NEW i \in I PROVE i + 1 \in I
    <2> SUFFICES ASSUME i + 1 <= n PROVE Exact(i + 1)
        OBVIOUS
    <2>1. i \in Nat /\ i + 1 \in 1..n /\ Exact(i)
        OBVIOUS
    <2> HIDE DEF Exact
    <2> QED
        BY <1>4, <2>1
<1>6. k - 1 \in I
    <2>1. 0 \in I /\ I \in SUBSET Nat /\ k - 1 \in Nat
        BY <1>3
    <2> HIDE DEF I
    <2> QED
        BY <1>5, <2>1, NatSetInduction
<1>7. k - 1 \in Nat /\ (k - 1) + 1 = k /\ Exact(k - 1)
    BY <1>6
<1> HIDE DEF Exact, I
<1>8. walk[(k - 1) + 1].page = Slice(All(view), (k - 1) * perPage, perPage, sort)
    BY <1>4, <1>7
<1> QED
    BY <1>7, <1>8 DEF walk

-----------------------------------------------------------------------------
(***************************************************************************)
(* The histories of MCTransactionCache.                                    *)
(***************************************************************************)

\* Finitely many times.
LEMMA TimesUpTo ==
    ASSUME NEW n \in Nat, NEW T \in SUBSET (1..n)
    PROVE  T \in SUBSET Nat /\ IsFiniteSet(T) /\ Cardinality(T) \in Nat /\ Cardinality(T) <= n
<1>1. 1 \in Int /\ n \in Int
    OBVIOUS
<1>2. IsFiniteSet(1..n) /\ Cardinality(1..n) = IF 1 > n THEN 0 ELSE n - 1 + 1
    BY <1>1, FS_Interval
<1>3. IsFiniteSet(T) /\ Cardinality(T) <= Cardinality(1..n)
    BY <1>2, FS_Subset
<1>4. Cardinality(T) \in Nat
    BY <1>3, FS_CardinalityType
<1> QED
    BY <1>2, <1>3, <1>4

\* A history of which the first n transactions have come.
LEMMA ComeView ==
    ASSUME NEW h \in Histories, NEW n \in 0..MaxTime
    PROVE  /\ Come(h, n).rows = {t \in 1..n : h[t] \in {"row", "recorded"}}
           /\ Come(h, n).recorded = {t \in 1..n : h[t] = "recorded"}
           /\ Come(h, n).fuel = {t \in 1..n : h[t] \in {"deposit", "recorded"}}
           /\ Come(h, n).rows \cup Come(h, n).fuel = 1..n
           /\ IsView(Come(h, n))
           /\ Cardinality(Come(h, n).rows) <= MaxTime
           /\ Cardinality(Come(h, n).fuel) <= MaxTime
<1>1. MaxTime \in Nat /\ n \in Nat /\ n <= MaxTime
    BY PagesAssumption
<1>2. /\ Come(h, n).rows = {t \in 1..n : h[t] \in {"row", "recorded"}}
      /\ Come(h, n).recorded = {t \in 1..n : h[t] = "recorded"}
      /\ Come(h, n).fuel = {t \in 1..n : h[t] \in {"deposit", "recorded"}}
    BY DEF Come, View
<1>3. \A t \in 1..n : h[t] \in {"row", "deposit", "recorded"}
    BY <1>1 DEF Histories, Times
<1>4. Come(h, n).rows \cup Come(h, n).fuel = 1..n
    BY <1>2, <1>3
<1>5. Come(h, n).rows \in SUBSET (1..n) /\ Come(h, n).fuel \in SUBSET (1..n)
    BY <1>2
<1>6. /\ IsView(Come(h, n))
      /\ Cardinality(Come(h, n).rows) <= n /\ Cardinality(Come(h, n).fuel) <= n
      /\ Cardinality(Come(h, n).rows) \in Nat /\ Cardinality(Come(h, n).fuel) \in Nat
    BY <1>1, <1>5, TimesUpTo DEF IsView
<1> QED
    BY <1>1, <1>2, <1>4, <1>6

\* A client is shown all that there was of any history, unless recorded deposits are moved.
LEMMA WalksShowAll ==
    ASSUME NEW h \in Histories, NEW first \in 0..MaxTime
    PROVE  WalkShowsAll(h, first)
<1> SUFFICES ASSUME NEW perPage \in 1..2, NEW sort \in Sorts, NEW second \in first..MaxTime,
                    ~MovesRecorded(h, first, sort), MaxPages # 0
             PROVE  1..first \subseteq Walk(Views(h, first, second), perPage, sort, MaxPages)[MaxPages].shown
    <2>1. MaxPages = 0 => 1..first = {}
        BY PagesAssumption
    <2> QED
        BY <2>1 DEF WalkShowsAll
<1> DEFINE come(k) == IF k = 1 THEN first ELSE IF k = 2 THEN second ELSE MaxTime
           views == Views(h, first, second)
<1>1. MaxTime \in Nat /\ MaxPages \in Nat \ {0} /\ MaxPages >= 2 * MaxTime /\ 1 \in 1..MaxPages
    BY PagesAssumption
<1>2. \A k \in 1..MaxPages : views[k] = Come(h, come(k))
    BY DEF Views
<1>3. /\ \A k \in 1..MaxPages : come(k) \in 0..MaxTime /\ come(k) >= first
      /\ \A i, j \in 1..MaxPages : i <= j => come(i) <= come(j)
    BY <1>1
<1> HIDE DEF come, views
<1>4. \A i \in 1..MaxPages :
        /\ views[i].rows = {t \in 1..come(i) : h[t] \in {"row", "recorded"}}
        /\ views[i].recorded = {t \in 1..come(i) : h[t] = "recorded"}
        /\ views[i].fuel = {t \in 1..come(i) : h[t] \in {"deposit", "recorded"}}
        /\ views[i].rows \cup views[i].fuel = 1..come(i)
        /\ IsView(views[i])
        /\ Cardinality(views[i].rows) <= MaxTime
        /\ Cardinality(views[i].fuel) <= MaxTime
    BY <1>2, <1>3, ComeView
<1>5. GrowingViews(views, MaxPages)
    <2>1. ASSUME NEW i \in 1..MaxPages, NEW j \in 1..MaxPages, i <= j
          PROVE  views[i].rows \subseteq views[j].rows /\ views[i].fuel \subseteq views[j].fuel
        <3>1. come(i) \in Nat /\ come(j) \in Nat /\ come(i) <= come(j)
            BY <1>1, <1>3, <2>1
        <3>2. \A t \in 1..come(i) : t \in 1..come(j)
            BY <3>1
        <3> QED
            BY <1>4, <3>2
    <2> QED
        BY <1>4, <2>1 DEF GrowingViews
<1>6. NothingRecorded(views, MaxPages) \/ RowsComeLast(views, sort, MaxPages)
    <2>1. CASE \A t \in Times : h[t] # "recorded"
        <3>1. ASSUME NEW k \in 1..MaxPages PROVE views[k].recorded = {}
            <4>1. \A t \in 1..come(k) : t \in Times
                BY <1>1, <1>3 DEF Times
            <4> QED
                BY <1>4, <2>1, <4>1
        <3> QED
            BY <3>1 DEF NothingRecorded
    <2>2. ASSUME NEW i \in 1..MaxPages, NEW j \in 1..MaxPages, i <= j,
                 NEW x \in Rows(views[j]) \ Rows(views[i]),
                 NEW y \in Rows(views[i]) \cup Cached(views[i]),
                 \E t \in Times : h[t] = "recorded"
          PROVE  Precedes(y, x, sort)
        <3>1. come(i) \in Nat /\ come(j) \in Nat /\ come(j) <= MaxTime /\ come(i) >= first
              /\ first \in Nat
            BY <1>1, <1>3, <2>2
        <3>2. x.at \in views[j].rows /\ x.at \notin views[i].rows
            BY <2>2 DEF Rows, Items
        <3>3. x.at \in 1..come(j) /\ h[x.at] \in {"row", "recorded"} /\ ~(x.at \in 1..come(i))
            BY <1>4, <3>2
        <3>4. y.at \in 1..come(i)
            <4>1. y.at \in views[i].rows \cup views[i].fuel
                BY DEF Rows, Cached, Items
            <4> QED
                BY <1>4, <4>1
        <3>5. y.at < x.at /\ x.at \in (first + 1)..MaxTime /\ h[x.at] # "deposit"
            BY <1>1, <3>1, <3>3, <3>4
        <3>6. sort # "DESC"
            BY <2>2, <3>5 DEF MovesRecorded
        <3> QED
            BY <3>5, <3>6 DEF Precedes
    <2> QED
        BY <2>1, <2>2 DEF RowsComeLast
<1>7. MaxPages >= Cardinality(views[MaxPages].rows) + Cardinality(views[MaxPages].fuel)
    <2>1. MaxPages \in 1..MaxPages
        BY <1>1
    <2>2. /\ Cardinality(views[MaxPages].rows) <= MaxTime
          /\ Cardinality(views[MaxPages].fuel) <= MaxTime
          /\ IsView(views[MaxPages])
        BY <1>4, <2>1
    <2>3. Cardinality(views[MaxPages].rows) \in Nat /\ Cardinality(views[MaxPages].fuel) \in Nat
        BY <2>2, FS_CardinalityType DEF IsView
    <2> QED
        BY <1>1, <2>2, <2>3
<1>8. perPage \in Nat \ {0}
    OBVIOUS
<1>9. views[1].rows \cup views[1].fuel \subseteq Walk(views, perPage, sort, MaxPages)[MaxPages].shown
    BY <1>1, <1>5, <1>6, <1>7, <1>8, WalkIsComplete
<1>10. views[1].rows \cup views[1].fuel = 1..first
    BY <1>1, <1>4 DEF come
<1> QED
    BY <1>9, <1>10 DEF views

(***************************************************************************)
(* Nothing is skipped: PagingIsComplete for any bounds, whatever else the  *)
(* cache does (mergeTransactionLists).                                     *)
(***************************************************************************)
THEOREM PagingIsAlwaysComplete == PagesSpec => []PagingIsComplete
<1>1. HistoriesNotShown = {}
    BY WalksShowAll DEF HistoriesNotShown
<1>2. PagingIsComplete
    BY <1>1 DEF PagingIsComplete
<1> QED
    BY <1>2, PTL

-----------------------------------------------------------------------------

\* The one item of a time in a history without recorded deposits.
ItemOf(h, t) == [at |-> t, origin |-> IF h[t] = "row" THEN "DB" ELSE "FUEL"]

ItemsOf(h, T) == {ItemOf(h, t) : t \in T}

\* A history without recorded deposits has one item for each of its times.
LEMMA ItemsOfHistory ==
    ASSUME NEW h \in [Times -> {"row", "deposit"}]
    PROVE  /\ IsView(View(h)) /\ View(h).recorded = {}
           /\ All(View(h)) = ItemsOf(h, Times)
           /\ \A T \in SUBSET Times : Cardinality(ItemsOf(h, T)) = Cardinality(T)
<1>1. MaxTime \in Nat /\ Times = 1..MaxTime
    BY PagesAssumption DEF Times
<1>2. /\ View(h).rows = {t \in Times : h[t] = "row"}
      /\ View(h).fuel = {t \in Times : h[t] = "deposit"}
      /\ View(h).recorded = {}
    BY DEF View
<1>3. IsView(View(h))
    <2>1. View(h).rows \in SUBSET (1..MaxTime) /\ View(h).fuel \in SUBSET (1..MaxTime)
        BY <1>1, <1>2
    <2> QED
        BY <1>1, <2>1, TimesUpTo DEF IsView
<1>4. All(View(h)) = ItemsOf(h, Times)
    <2>1. ASSUME NEW x \in All(View(h)) PROVE x \in ItemsOf(h, Times)
        <3>1. CASE x \in Rows(View(h))
            BY <1>2, <3>1 DEF Rows, Items, ItemsOf, ItemOf
        <3>2. CASE x \in Cached(View(h))
            BY <1>2, <3>2 DEF Cached, Items, ItemsOf, ItemOf
        <3> QED
            BY <3>1, <3>2 DEF All
    <2>2. ASSUME NEW t \in Times PROVE ItemOf(h, t) \in All(View(h))
        <3>1. CASE h[t] = "row"
            BY <1>2, <3>1 DEF All, Rows, Items, ItemOf
        <3>2. CASE h[t] = "deposit"
            BY <1>2, <3>2 DEF All, Cached, Items, ItemOf
        <3> QED
            BY <3>1, <3>2
    <2> QED
        BY <2>1, <2>2 DEF ItemsOf
<1>5. ASSUME NEW T \in SUBSET Times PROVE Cardinality(ItemsOf(h, T)) = Cardinality(T)
    <2> DEFINE item == [t \in T |-> ItemOf(h, t)]
    <2>1. item \in [T -> ItemsOf(h, T)]
        BY DEF ItemsOf
    <2>2. \A a, b \in T : item[a] = item[b] => a = b
        BY DEF ItemOf
    <2>3. \A i \in ItemsOf(h, T) : \E t \in T : item[t] = i
        BY DEF ItemsOf
    <2>4. ExistsBijection(T, ItemsOf(h, T))
        BY <2>1, <2>2, <2>3 DEF ExistsBijection, Bijection, Injection, Surjection, IsInjective
    <2>5. IsFiniteSet(T)
        BY <1>1, TimesUpTo
    <2> QED
        BY <2>4, <2>5, FS_Bijection
<1> QED
    BY <1>2, <1>3, <1>4, <1>5

\* Its place in the list is the place of its time.
LEMMA PlaceInHistory ==
    ASSUME NEW h \in [Times -> {"row", "deposit"}], NEW sort, NEW t \in Times
    PROVE  Rank(All(View(h)), ItemOf(h, t), sort) = Place(t, sort)
<1> DEFINE Earlier == IF sort = "DESC" THEN (t + 1)..MaxTime ELSE 1..(t - 1)
           Before == {x \in ItemsOf(h, Times) : Precedes(x, ItemOf(h, t), sort)}
<1>1. MaxTime \in Nat /\ Times = 1..MaxTime
    BY PagesAssumption DEF Times
<1>2. Rank(All(View(h)), ItemOf(h, t), sort) = Cardinality(Before)
    BY ItemsOfHistory DEF Rank
<1>3. \A u \in Times : Precedes(ItemOf(h, u), ItemOf(h, t), sort) <=> u \in Earlier
    BY <1>1 DEF Precedes, ItemOf
<1>4. Earlier \in SUBSET Times
    BY <1>1
<1> HIDE DEF Earlier
<1>5. Before = ItemsOf(h, Earlier)
    BY <1>3, <1>4 DEF ItemsOf
<1>6. Cardinality(Before) = Cardinality(Earlier)
    BY <1>4, <1>5, ItemsOfHistory
<1>7. Cardinality(Earlier) = Place(t, sort)
    <2>1. t + 1 \in Int /\ MaxTime \in Int /\ 1 \in Int /\ t - 1 \in Int
        BY <1>1
    <2>2. /\ Cardinality((t + 1)..MaxTime) = IF t + 1 > MaxTime THEN 0 ELSE MaxTime - (t + 1) + 1
          /\ Cardinality(1..(t - 1)) = IF 1 > t - 1 THEN 0 ELSE (t - 1) - 1 + 1
        BY <2>1, FS_Interval
    <2> QED
        BY <1>1, <2>2 DEF Earlier, Place
<1> QED
    BY <1>2, <1>6, <1>7

\* The walks over such a history show its list, page by page.
LEMMA WalksAreTheList ==
    ASSUME NEW h \in [Times -> {"row", "deposit"}]
    PROVE  WalkIsTheList(h)
<1> SUFFICES ASSUME NEW perPage \in 1..MaxTime, NEW sort \in Sorts, NEW k \in 1..MaxPages
             PROVE  {item.at : item \in Walk([j \in 1..MaxPages |-> View(h)], perPage, sort, MaxPages)[k].page}
                      = {t \in Times : Place(t, sort) \in ((k - 1) * perPage)..(k * perPage - 1)}
    BY DEF WalkIsTheList
<1> DEFINE page == Walk([j \in 1..MaxPages |-> View(h)], perPage, sort, MaxPages)[k].page
           from == (k - 1) * perPage
<1>1. MaxPages \in Nat /\ perPage \in Nat /\ k \in Nat
    BY PagesAssumption
<1>2. page = Slice(All(View(h)), from, perPage, sort)
    BY <1>1, ItemsOfHistory, WalkPagesTheList
<1>3. from + perPage - 1 = k * perPage - 1
    BY <1>1
<1> HIDE DEF page, from
<1>4. \A x : x \in page <=> \E t \in Times : x = ItemOf(h, t) /\ Place(t, sort) \in from..(k * perPage - 1)
    <2>1. \A x : x \in page <=> /\ x \in ItemsOf(h, Times)
                                /\ Rank(All(View(h)), x, sort) \in from..(k * perPage - 1)
        BY <1>2, <1>3, ItemsOfHistory DEF Slice
    <2> QED
        BY <2>1, PlaceInHistory DEF ItemsOf
<1>5. \A t : ItemOf(h, t).at = t
    BY DEF ItemOf
<1>6. {item.at : item \in page} = {t \in Times : Place(t, sort) \in from..(k * perPage - 1)}
    <2>1. ASSUME NEW x \in page
          PROVE  x.at \in Times /\ Place(x.at, sort) \in from..(k * perPage - 1)
        BY <1>4, <1>5
    <2>2. ASSUME NEW t \in Times, Place(t, sort) \in from..(k * perPage - 1)
          PROVE  ItemOf(h, t) \in page /\ t = ItemOf(h, t).at
        BY <1>4, <1>5, <2>2
    <2> QED
        BY <2>1, <2>2
<1> QED
    BY <1>6 DEF page, from

(***************************************************************************)
(* Every page is its part of the list: PagingIsTheList for any bounds      *)
(* (mergeTransactionLists).                                                *)
(***************************************************************************)
THEOREM PagingIsAlwaysTheList == PagesSpec => []PagingIsTheList
<1>1. HistoriesOutOfOrder = {}
    BY WalksAreTheList DEF HistoriesOutOfOrder
<1>2. PagingIsTheList
    BY <1>1 DEF PagingIsTheList
<1> QED
    BY <1>2, PTL
=============================================================================
