-------------------------- MODULE EptTables_proofs --------------------------
(***************************************************************************)
(* Proofs about EptTables, for any number of levels, of slots in a table,  *)
(* of tables and of pages, and for any memory and any MTRRs: the tables    *)
(* form a tree whatever the order in which pages get their entries,        *)
(* nothing leaks, all of memory is mapped before the EPT is used, and the  *)
(* EPT implements EptMap, with the memory types of the MTRRs.              *)
(*                                                                         *)
(* Path, Reached, Span and the loops over the MTRRs are functions defined  *)
(* by recursion.  A lemma for each says that it solves its equation, and   *)
(* the inductions over levels and ranges use NatSetInduction.              *)
(***************************************************************************)
EXTENDS EptTables, FiniteSetTheorems, WellFoundedInduction, TLAPS

-----------------------------------------------------------------------------
(* Induction over the naturals, as a fact about sets.                      *)

\* What holds at 0 and at the successor of each number that has it is all of
\* Nat.
LEMMA NatSetInduction ==
  ASSUME NEW S, 0 \in S, \A n \in Nat : n \in S => n + 1 \in S
  PROVE  Nat \subseteq S
<1> DEFINE Less == OpToRel(<, Nat)
<1>1. SUFFICES ASSUME Nat \ S # {} PROVE FALSE
  OBVIOUS
<1>2. IsWellFoundedOn(Less, Nat)
  BY NatLessThanWellFounded
<1>3. \A k, l \in Nat : k < l => <<k, l>> \in Less
  BY DEF OpToRel
<1> HIDE DEF Less
<1>4. PICK m \in Nat \ S : \A k \in Nat \ S : <<k, m>> \notin Less
  BY <1>1, <1>2, WFMin
<1>5. m - 1 \in Nat /\ m - 1 \notin S
  OBVIOUS
<1>6. <<m - 1, m>> \in Less
  BY <1>3, <1>5
<1>7. QED
  BY <1>4, <1>5, <1>6

\* What holds at the last number of an interval and at the predecessor of each
\* later one that has it holds in the whole interval.
LEMMA DownwardInduction ==
  ASSUME NEW n \in Nat, NEW S, n \in S,
         \A k \in 1 .. n - 1 : k + 1 \in S => k \in S
  PROVE  1 .. n \subseteq S
<1> DEFINE T == {d \in Nat : n - d \in 1 .. n => n - d \in S}
<1>1. 0 \in T
  OBVIOUS
<1>2. \A d \in Nat : d \in T => d + 1 \in T
  OBVIOUS
<1>3. Nat \subseteq T
  <2> HIDE DEF T
  <2> QED BY <1>1, <1>2, NatSetInduction
<1>4. \A k \in 1 .. n : n - k \in T
  BY <1>3
<1>5. QED
  BY <1>4

\* A set of numbers that is not empty has a least element.
LEMMA LeastElement ==
  ASSUME NEW S \in SUBSET Nat, S # {}
  PROVE  \E m \in S : \A k \in S : m <= k
<1> DEFINE Less == OpToRel(<, Nat)
<1>1. IsWellFoundedOn(Less, Nat)
  BY NatLessThanWellFounded
<1>2. \A k, l \in Nat : k < l => <<k, l>> \in Less
  BY DEF OpToRel
<1> HIDE DEF Less
<1>3. PICK m \in S : \A k \in S : <<k, m>> \notin Less
  BY <1>1, WFMin
<1>4. \A k \in S : ~(k < m)
  BY <1>2, <1>3
<1>5. QED
  BY <1>3, <1>4
-----------------------------------------------------------------------------
(* Addresses: which page is where is what the bits of its number say.      *)

\* Division with remainder by a positive number.
LEMMA Quotient ==
  ASSUME NEW x \in Nat, NEW a \in Nat \ {0}
  PROVE  /\ x \div a \in Nat
         /\ a * (x \div a) <= x
         /\ x < a * (x \div a) + a
OBVIOUS

\* A quotient and a remainder that fit are those of the division.
LEMMA QuotientUnique ==
  ASSUME NEW x \in Nat, NEW a \in Nat \ {0}, NEW q \in Nat,
         a * q <= x, x < a * q + a
  PROVE  x \div a = q
OBVIOUS

\* The remainder lies below the divisor.
LEMMA Remainder ==
  ASSUME NEW x \in Nat, NEW a \in Nat \ {0}
  PROVE  x % a \in 0 .. a - 1 /\ x = a * (x \div a) + (x % a)
OBVIOUS

\* Dividing by a product is dividing twice.
LEMMA DivideTwice ==
  ASSUME NEW x \in Nat, NEW a \in Nat \ {0}, NEW b \in Nat \ {0}
  PROVE  x \div (a * b) = (x \div b) \div a
<1> DEFINE y == x \div b
           z == y \div a
<1>1. y \in Nat /\ b * y <= x /\ x < b * y + b
  BY Quotient
<1> HIDE DEF y
<1>2. z \in Nat /\ a * z <= y /\ y < a * z + a
  BY <1>1, Quotient
<1> HIDE DEF z
<1>3. a * b \in Nat \ {0}
  OBVIOUS
<1>4. (a * b) * z = b * (a * z)
  BY <1>2
<1>5. b * (a * z) <= b * y
  BY <1>1, <1>2
<1>6. y + 1 <= a * z + a
  BY <1>1, <1>2
<1>7. b * (y + 1) <= b * (a * z + a)
  <2> DEFINE u == a * z + a
  <2>1. u \in Nat
    BY <1>2
  <2> HIDE DEF u
  <2>2. y + 1 <= u
    BY <1>6 DEF u
  <2>3. b * (y + 1) <= b * u
    BY <1>1, <2>1, <2>2
  <2>4. QED BY <2>3 DEF u
<1>8. b * (y + 1) = b * y + b /\ b * (a * z + a) = (a * b) * z + a * b
  BY <1>1, <1>2
<1>9. (a * b) * z <= x /\ x < (a * b) * z + a * b
  <2> DEFINE ab == a * b
             abz == ab * z
             by == b * y
  <2>1. ab \in Nat /\ abz \in Nat /\ by \in Nat
    BY <1>1, <1>2, <1>3
  <2>2. abz <= by /\ by + b <= abz + ab
    BY <1>4, <1>5, <1>7, <1>8
  <2>3. by <= x /\ x < by + b
    BY <1>1
  <2> HIDE DEF ab, abz, by
  <2>4. abz <= x /\ x < abz + ab
    BY <2>1, <2>2, <2>3
  <2>5. QED BY <2>4 DEF ab, abz
<1>10. x \div (a * b) = z
  BY <1>2, <1>3, <1>9, QuotientUnique
<1>11. QED
  BY <1>10 DEF y, z

\* Span is defined by its recursion, and a span is a positive number.
LEMMA SpanIs ==
  /\ Span[0] = 1
  /\ \A k \in 1 .. Levels : Span[k] = Fan * Span[k - 1]
<1> DEFINE Solves(f, n) == f = [k \in 0 .. n |-> IF k = 0 THEN 1 ELSE Fan * f[k - 1]]
           S == {n \in Nat : \E f : Solves(f, n)}
<1>1. 0 \in S
  <2>1. Solves([k \in 0 .. 0 |-> 1], 0)
    OBVIOUS
  <2>2. QED BY <2>1
<1>2. ASSUME NEW n \in Nat, n \in S PROVE n + 1 \in S
  <2>1. PICK f : Solves(f, n)
    BY <1>2
  <2> DEFINE g == [k \in 0 .. n + 1 |-> IF k = n + 1 THEN Fan * f[n] ELSE f[k]]
  <2>2. ASSUME NEW k \in 0 .. n + 1
        PROVE  g[k] = IF k = 0 THEN 1 ELSE Fan * g[k - 1]
    BY <2>1
  <2>3. Solves(g, n + 1)
    BY <2>2
  <2>4. \E h : Solves(h, n + 1)
    <3> HIDE DEF g, Solves
    <3> QED BY <2>3
  <2>5. QED
    BY <2>4
<1>3. Levels \in S
  <2> HIDE DEF S
  <2> QED BY <1>1, <1>2, NatSetInduction, TreeAssumption
<1>4. PICK f : Solves(f, Levels)
  BY <1>3
<1>5. Solves(Span, Levels)
  BY <1>4 DEF Span
<1>6. QED
  BY <1>5, TreeAssumption

\* A table of each level maps some pages.
LEMMA SpanType == \A k \in 0 .. Levels : Span[k] \in Nat \ {0}
<1> DEFINE S == {n \in Nat : n <= Levels => Span[n] \in Nat \ {0}}
<1>1. 0 \in S
  BY SpanIs
<1>2. ASSUME NEW n \in Nat, n \in S PROVE n + 1 \in S
  <2>1. SUFFICES ASSUME n + 1 <= Levels PROVE Span[n + 1] \in Nat \ {0}
    OBVIOUS
  <2>2. Span[n] \in Nat \ {0}
    BY <1>2, <2>1, TreeAssumption
  <2>3. Span[n + 1] = Fan * Span[n]
    BY <2>1, SpanIs, TreeAssumption
  <2>4. QED
    BY <2>2, <2>3, TreeAssumption
<1>3. Nat \subseteq S
  <2> HIDE DEF S
  <2> QED BY <1>1, <1>2, NatSetInduction
<1>4. QED
  BY <1>3, TreeAssumption

\* A page is a number below what the root maps.
LEMMA PageIsNat == \A p \in Pages : p \in Nat /\ p < Span[Levels]
BY SpanType, TreeAssumption DEF Pages

\* The index at each level is that of a slot.
LEMMA IndexType == \A p \in Pages, level \in 1 .. Levels : Index(level, p) \in Slots
<1> TAKE p \in Pages, level \in 1 .. Levels
<1>1. p \in Nat /\ Span[level - 1] \in Nat \ {0}
  BY PageIsNat, SpanType, TreeAssumption
<1>2. p \div Span[level - 1] \in Nat
  BY <1>1, Quotient
<1>3. QED
  BY <1>2, Remainder, TreeAssumption DEF Index, Slots

\* A page is told by the entries that lead to it.
LEMMA SameIndices ==
  ASSUME NEW p \in Pages, NEW q \in Pages,
         \A level \in 1 .. Levels : Index(level, p) = Index(level, q)
  PROVE  p = q
<1>0. Levels \in Nat \ {0} /\ Fan \in Nat \ {0}
  BY TreeAssumption
<1>1. p \in Nat /\ q \in Nat
  BY PageIsNat
<1> DEFINE S == {d \in Nat : d <= Levels => p \div Span[Levels - d] = q \div Span[Levels - d]}
<1>2. 0 \in S
  <2>1. \A x \in Pages : x \div Span[Levels] = 0
    BY <1>0, PageIsNat, SpanType, QuotientUnique
  <2>2. QED
    BY <2>1, <1>0
<1>3. ASSUME NEW d \in Nat, d \in S PROVE d + 1 \in S
  <2>1. SUFFICES ASSUME d + 1 <= Levels
                 PROVE  p \div Span[Levels - (d + 1)] = q \div Span[Levels - (d + 1)]
    OBVIOUS
  <2> DEFINE level == Levels - d
  <2>2. level \in 1 .. Levels /\ Levels - (d + 1) = level - 1
    BY <1>0, <2>1
  <2>3. p \div Span[level] = q \div Span[level]
    BY <1>3, <2>1, <1>0
  <2> HIDE DEF level
  <2>4. Span[level] = Fan * Span[level - 1] /\ Span[level - 1] \in Nat \ {0}
    BY <1>0, <2>2, SpanIs, SpanType
  <2>5. ASSUME NEW x \in Nat
        PROVE  x \div Span[level - 1]
                 = Fan * (x \div Span[level]) + Index(level, x)
    <3>1. x \div Span[level] = (x \div Span[level - 1]) \div Fan
      BY <2>4, <1>0, DivideTwice
    <3>2. x \div Span[level - 1] \in Nat
      BY <2>4, Quotient
    <3>3. QED
      BY <3>1, <3>2, <1>0, Remainder DEF Index
  <2>6. Index(level, p) = Index(level, q)
    BY <2>2
  <2>7. p \div Span[level - 1] = q \div Span[level - 1]
    BY <2>3, <2>5, <2>6, <1>1
  <2>8. QED
    BY <2>2, <2>7
<1>4. Levels \in S
  <2> HIDE DEF S
  <2> QED BY <1>0, <1>2, <1>3, NatSetInduction
<1>5. p \div Span[0] = q \div Span[0]
  BY <1>4, <1>0
<1>6. \A x \in Nat : x \div 1 = x
  OBVIOUS
<1>7. QED
  BY <1>1, <1>5, <1>6, SpanIs
-----------------------------------------------------------------------------
(* The tree as a function of its root and of the entries of its tables.    *)

PathIn(r, c, p) ==
  LET At[level \in 1 .. Levels] ==
        IF level = Levels THEN r
        ELSE IF At[level + 1] = NoTable THEN NoTable
        ELSE c[At[level + 1]][Index(level + 1, p)]
  IN At

Below(c, tables) == {c[t][i] : t \in tables, i \in Slots} \ {NoTable}

ReachedIn(r, c) ==
  LET At[level \in 1 .. Levels] ==
        IF level = Levels THEN {r} \ {NoTable}
        ELSE Below(c, At[level + 1])
  IN At

TablesIn(r, c) == UNION {ReachedIn(r, c)[level] : level \in 1 .. Levels}

\* The model's operators are those functions of the current tree.
LEMMA TreeIsIn ==
  /\ \A p : Path(p) = PathIn(root, child, p)
  /\ Reached = ReachedIn(root, child)
  /\ TreeTables = TablesIn(root, child)
BY DEF Path, PathIn, Reached, ReachedIn, Below, TreeTables, TablesIn

\* So they are after the step.
LEMMA TreeIsInPrime ==
  /\ \A p : Path(p)' = PathIn(root', child', p)
  /\ Reached' = ReachedIn(root', child')
  /\ TreeTables' = TablesIn(root', child')
BY DEF Path, PathIn, Reached, ReachedIn, Below, TreeTables, TablesIn

\* What the recursive definition of Path says, level by level.
LEMMA PathIs ==
  ASSUME NEW r, NEW c, NEW p
  PROVE  /\ PathIn(r, c, p)[Levels] = r
         /\ \A l \in 1 .. Levels - 1 :
              PathIn(r, c, p)[l] =
                IF PathIn(r, c, p)[l + 1] = NoTable THEN NoTable
                ELSE c[PathIn(r, c, p)[l + 1]][Index(l + 1, p)]
<1> DEFINE Solves(f, n) ==
             f = [level \in n .. Levels |->
                    IF level = Levels THEN r
                    ELSE IF f[level + 1] = NoTable THEN NoTable
                    ELSE c[f[level + 1]][Index(level + 1, p)]]
           S == {d \in Nat : \E f : Solves(f, Levels - d)}
<1>0. Levels \in Nat /\ Levels >= 2
  BY TreeAssumption
<1>1. 0 \in S
  <2>1. Solves([level \in Levels .. Levels |-> r], Levels)
    BY <1>0
  <2>2. \E f : Solves(f, Levels)
    <3> HIDE DEF Solves
    <3> QED BY <2>1
  <2>3. Levels - 0 = Levels
    BY <1>0
  <2>4. QED
    BY <2>2, <2>3
<1>2. ASSUME NEW d \in Nat, d \in S PROVE d + 1 \in S
  <2>1. PICK f : Solves(f, Levels - d)
    BY <1>2
  <2> DEFINE n == Levels - (d + 1)
             g == [level \in n .. Levels |->
                     IF level = n
                     THEN IF f[n + 1] = NoTable THEN NoTable
                          ELSE c[f[n + 1]][Index(n + 1, p)]
                     ELSE f[level]]
  <2>2. n \in Int /\ n + 1 = Levels - d /\ n < Levels
    BY <1>0
  <2>3. Solves(f, n + 1)
    BY <2>1, <2>2
  <2>a. \A level \in n + 1 .. Levels :
          f[level] = IF level = Levels THEN r
                     ELSE IF f[level + 1] = NoTable THEN NoTable
                     ELSE c[f[level + 1]][Index(level + 1, p)]
    BY <2>3
  <2> HIDE DEF n, Solves
  <2>4. ASSUME NEW level \in n .. Levels
        PROVE  g[level] = IF level = Levels THEN r
                          ELSE IF g[level + 1] = NoTable THEN NoTable
                          ELSE c[g[level + 1]][Index(level + 1, p)]
    <3>1. CASE level = n
      BY <3>1, <2>2, <1>0
    <3>2. CASE level # n /\ level # Levels
      <4>1. level \in n + 1 .. Levels /\ level + 1 \in n + 1 .. Levels /\ level + 1 # n
        BY <3>2, <2>2, <1>0
      <4>2. g[level] = f[level] /\ g[level + 1] = f[level + 1]
        BY <4>1, <3>2, <2>2, <1>0
      <4>3. QED BY <4>1, <4>2, <3>2, <2>a
    <3>3. CASE level # n /\ level = Levels
      BY <3>3, <2>2, <2>a, <1>0
    <3>4. QED BY <3>1, <3>2, <3>3
  <2>5. Solves(g, n)
    BY <2>4 DEF Solves
  <2>6. \E h : Solves(h, n)
    <3> HIDE DEF g
    <3> QED BY <2>5
  <2>7. QED
    BY <2>6 DEF n
<1>3. Levels - 1 \in S
  <2> HIDE DEF S
  <2> QED BY <1>0, <1>1, <1>2, NatSetInduction
<1>4. PICK f : Solves(f, 1)
  BY <1>3, <1>0
<1>5. Solves(PathIn(r, c, p), 1)
  BY <1>4 DEF PathIn
<1>6. QED
  BY <1>5, <1>0

\* What the recursive definition of Reached says, level by level.
LEMMA ReachedIs ==
  ASSUME NEW r, NEW c
  PROVE  /\ ReachedIn(r, c)[Levels] = {r} \ {NoTable}
         /\ \A l \in 1 .. Levels - 1 :
              ReachedIn(r, c)[l] =
                Below(c, ReachedIn(r, c)[l + 1])
<1> DEFINE Solves(f, n) ==
             f = [level \in n .. Levels |->
                    IF level = Levels THEN {r} \ {NoTable}
                    ELSE Below(c, f[level + 1])]
           S == {d \in Nat : \E f : Solves(f, Levels - d)}
<1>0. Levels \in Nat /\ Levels >= 2
  BY TreeAssumption
<1>1. 0 \in S
  <2>1. Solves([level \in Levels .. Levels |-> {r} \ {NoTable}], Levels)
    BY <1>0
  <2>2. \E f : Solves(f, Levels)
    <3> HIDE DEF Solves
    <3> QED BY <2>1
  <2>3. Levels - 0 = Levels
    BY <1>0
  <2>4. QED
    BY <2>2, <2>3
<1>2. ASSUME NEW d \in Nat, d \in S PROVE d + 1 \in S
  <2>1. PICK f : Solves(f, Levels - d)
    BY <1>2
  <2> DEFINE n == Levels - (d + 1)
             g == [level \in n .. Levels |->
                     IF level = n
                     THEN Below(c, f[n + 1])
                     ELSE f[level]]
  <2>2. n \in Int /\ n + 1 = Levels - d /\ n < Levels
    BY <1>0
  <2>3. Solves(f, n + 1)
    BY <2>1, <2>2
  <2>a. \A level \in n + 1 .. Levels :
          f[level] = IF level = Levels THEN {r} \ {NoTable}
                     ELSE Below(c, f[level + 1])
    BY <2>3
  <2> HIDE DEF n, Solves
  <2>4. ASSUME NEW level \in n .. Levels
        PROVE  g[level] = IF level = Levels THEN {r} \ {NoTable}
                          ELSE Below(c, g[level + 1])
    <3>1. CASE level = n
      BY <3>1, <2>2, <1>0
    <3>2. CASE level # n /\ level # Levels
      <4>1. level \in n + 1 .. Levels /\ level + 1 \in n + 1 .. Levels /\ level + 1 # n
        BY <3>2, <2>2, <1>0
      <4>2. g[level] = f[level] /\ g[level + 1] = f[level + 1]
        BY <4>1, <3>2, <2>2, <1>0
      <4>3. QED BY <4>1, <4>2, <3>2, <2>a
    <3>3. CASE level # n /\ level = Levels
      BY <3>3, <2>2, <2>a, <1>0
    <3>4. QED BY <3>1, <3>2, <3>3
  <2>5. Solves(g, n)
    BY <2>4 DEF Solves
  <2>6. \E h : Solves(h, n)
    <3> HIDE DEF g
    <3> QED BY <2>5
  <2>7. QED
    BY <2>6 DEF n
<1>3. Levels - 1 \in S
  <2> HIDE DEF S
  <2> QED BY <1>0, <1>1, <1>2, NatSetInduction
<1>4. PICK f : Solves(f, 1)
  BY <1>3, <1>0
<1>5. Solves(ReachedIn(r, c), 1)
  BY <1>4 DEF ReachedIn
<1>6. \A l \in 1 .. Levels :
        ReachedIn(r, c)[l] = IF l = Levels THEN {r} \ {NoTable}
                             ELSE Below(c, ReachedIn(r, c)[l + 1])
  BY <1>5
<1> HIDE DEF Solves
<1>7. QED
  BY <1>6, <1>0
-----------------------------------------------------------------------------
(* What the shape of a tree says of the paths through it.                  *)

\* There are two levels or more.
LEMMA SomeLevels == Levels \in Nat /\ Levels >= 2
BY TreeAssumption

\* 0 is the number of no table.
LEMMA NoTableIsNone == NoTable \notin TableIds
BY TreeAssumption DEF NoTable, TableIds

TreeType(r, c) ==
  /\ r \in TableIds \union {NoTable}
  /\ c \in [TableIds -> [Slots -> TableIds \union {NoTable}]]

\* No table is the target of two entries, and the root of none.
Unique(r, c) ==
  /\ \A s, t \in TableIds : \A i, j \in Slots :
       c[s][i] = c[t][j] /\ c[s][i] # NoTable => s = t /\ i = j
  /\ \A s \in TableIds : \A i \in Slots : c[s][i] # NoTable => c[s][i] # r

\* What is reached from the root are tables.
LEMMA ReachedType ==
  ASSUME NEW r, NEW c, TreeType(r, c)
  PROVE  /\ \A l \in 1 .. Levels : ReachedIn(r, c)[l] \subseteq TableIds
         /\ TablesIn(r, c) \subseteq TableIds
<1> DEFINE S == {l \in 1 .. Levels : ReachedIn(r, c)[l] \subseteq TableIds}
<1>1. Levels \in S
  BY ReachedIs, SomeLevels DEF TreeType
<1>2. ASSUME NEW l \in 1 .. Levels - 1, l + 1 \in S PROVE l \in S
  <2>1. ReachedIn(r, c)[l] = Below(c, ReachedIn(r, c)[l + 1]) /\ l \in 1 .. Levels
    BY ReachedIs, SomeLevels
  <2>2. ReachedIn(r, c)[l + 1] \subseteq TableIds
    BY <1>2
  <2>3. Below(c, ReachedIn(r, c)[l + 1]) \subseteq TableIds
    BY <2>2 DEF Below, TreeType
  <2>4. QED BY <2>1, <2>3
<1>3. 1 .. Levels \subseteq S
  <2> HIDE DEF S
  <2> QED BY <1>1, <1>2, SomeLevels, DownwardInduction
<1>4. QED
  BY <1>3 DEF TablesIn

\* The path of a page goes through tables of the tree.
LEMMA PathIsReached ==
  ASSUME NEW r, NEW c, NEW p \in Pages
  PROVE  \A l \in 1 .. Levels :
           PathIn(r, c, p)[l] \in ReachedIn(r, c)[l] \union {NoTable}
<1> DEFINE S == {l \in 1 .. Levels :
                   PathIn(r, c, p)[l] \in ReachedIn(r, c)[l] \union {NoTable}}
<1>1. Levels \in S
  BY ReachedIs, PathIs, SomeLevels
<1>2. ASSUME NEW l \in 1 .. Levels - 1, l + 1 \in S PROVE l \in S
  <2>1. l \in 1 .. Levels /\ l + 1 \in 1 .. Levels
    BY SomeLevels
  <2>2. CASE PathIn(r, c, p)[l + 1] = NoTable
    BY <2>1, <2>2, PathIs
  <2>3. CASE PathIn(r, c, p)[l + 1] # NoTable
    <3>1. PathIn(r, c, p)[l + 1] \in ReachedIn(r, c)[l + 1]
      BY <1>2, <2>3
    <3>2. PathIn(r, c, p)[l] = c[PathIn(r, c, p)[l + 1]][Index(l + 1, p)]
      BY <2>3, PathIs
    <3>3. Index(l + 1, p) \in Slots
      BY <2>1, IndexType
    <3>4. PathIn(r, c, p)[l] \in Below(c, ReachedIn(r, c)[l + 1]) \union {NoTable}
      BY <3>1, <3>2, <3>3 DEF Below
    <3>5. QED BY <3>4, <2>1, ReachedIs
  <2>4. QED BY <2>2, <2>3
<1>3. 1 .. Levels \subseteq S
  <2> HIDE DEF S
  <2> QED BY <1>1, <1>2, SomeLevels, DownwardInduction
<1>4. QED
  BY <1>3

\* A path goes on in the slot that its page has in the table.
LEMMA NextOnPath ==
  ASSUME NEW r, NEW c, NEW p, NEW l \in 2 .. Levels, PathIn(r, c, p)[l] # NoTable
  PROVE  PathIn(r, c, p)[l - 1] = c[PathIn(r, c, p)[l]][Index(l, p)]
<1>1. PICK k \in 1 .. Levels - 1 : k = l - 1 /\ k + 1 = l
  BY SomeLevels
<1>2. QED
  BY <1>1, PathIs

\* The tables on a path are tables of the tree.
LEMMA PathInTables ==
  ASSUME NEW r, NEW c, NEW p \in Pages, NEW l \in 1 .. Levels
  PROVE  PathIn(r, c, p)[l] \in TablesIn(r, c) \union {NoTable}
BY PathIsReached DEF TablesIn

\* A tree whose tables are all empty has no table but its root.
LEMMA LoneRoot ==
  ASSUME NEW r, NEW c, TreeType(r, c),
         \A t \in TableIds : \A i \in Slots : c[t][i] = NoTable
  PROVE  /\ TablesIn(r, c) = {r} \ {NoTable}
         /\ \A p \in Pages : PathIn(r, c, p)[1] = NoTable
<1>1. \A l \in 1 .. Levels - 1 : ReachedIn(r, c)[l] = {}
  <2> TAKE l \in 1 .. Levels - 1
  <2>1. ReachedIn(r, c)[l + 1] \subseteq TableIds
    BY ReachedType, SomeLevels
  <2>2. Below(c, ReachedIn(r, c)[l + 1]) = {}
    BY <2>1 DEF Below
  <2>3. QED BY <2>2, ReachedIs
<1>2. TablesIn(r, c) = {r} \ {NoTable}
  <2>1. \A l \in 1 .. Levels : l = Levels \/ l \in 1 .. Levels - 1
    BY SomeLevels
  <2>2. Levels \in 1 .. Levels /\ ReachedIn(r, c)[Levels] = {r} \ {NoTable}
    BY SomeLevels, ReachedIs
  <2>3. QED BY <1>1, <2>1, <2>2 DEF TablesIn
<1>3. 1 \in 1 .. Levels - 1 /\ 1 \in 1 .. Levels
  BY SomeLevels
<1>4. QED
  BY <1>1, <1>2, <1>3, PathIsReached

\* Without a root there is no table and no path.
LEMMA NoTree ==
  ASSUME NEW c
  PROVE  /\ TablesIn(NoTable, c) = {}
         /\ \A p \in Pages : PathIn(NoTable, c, p)[1] = NoTable
<1> DEFINE S == {l \in 1 .. Levels : ReachedIn(NoTable, c)[l] = {}}
<1>1. Levels \in S
  BY ReachedIs, SomeLevels
<1>2. ASSUME NEW l \in 1 .. Levels - 1, l + 1 \in S PROVE l \in S
  <2>1. Below(c, {}) = {}
    BY DEF Below
  <2>2. ReachedIn(NoTable, c)[l + 1] = {} /\ l \in 1 .. Levels
    BY <1>2, SomeLevels
  <2>3. QED BY <2>1, <2>2, ReachedIs
<1>3. 1 .. Levels \subseteq S
  <2> HIDE DEF S
  <2> QED BY <1>1, <1>2, SomeLevels, DownwardInduction
<1>4. \A l \in 1 .. Levels : ReachedIn(NoTable, c)[l] = {}
  BY <1>3
<1>5. 1 \in 1 .. Levels
  BY SomeLevels
<1>6. QED
  BY <1>4, <1>5, PathIsReached DEF TablesIn

\* Two pages never share an entry: their paths would be the same.
LEMMA SamePath ==
  ASSUME NEW r, NEW c, TreeType(r, c), Unique(r, c),
         NEW p \in Pages, NEW q \in Pages,
         PathIn(r, c, p)[1] = PathIn(r, c, q)[1], PathIn(r, c, p)[1] # NoTable,
         Index(1, p) = Index(1, q)
  PROVE  p = q
<1> DEFINE P(l) == PathIn(r, c, p)[l]
           Q(l) == PathIn(r, c, q)[l]
           S == {n \in Nat : n + 1 <= Levels =>
                   /\ P(n + 1) = Q(n + 1) /\ P(n + 1) # NoTable
                   /\ Index(n + 1, p) = Index(n + 1, q)}
<1>1. 0 \in S
  OBVIOUS
<1>2. ASSUME NEW n \in Nat, n \in S PROVE n + 1 \in S
  <2>1. SUFFICES ASSUME n + 2 <= Levels
                 PROVE  /\ P(n + 2) = Q(n + 2) /\ P(n + 2) # NoTable
                        /\ Index(n + 2, p) = Index(n + 2, q)
    OBVIOUS
  <2>2. n + 1 \in 1 .. Levels - 1 /\ n + 2 \in 1 .. Levels /\ (n + 1) + 1 = n + 2
    BY <2>1, SomeLevels
  <2>3. P(n + 1) = Q(n + 1) /\ P(n + 1) # NoTable
    BY <1>2, <2>1, SomeLevels
  <2>4. P(n + 2) # NoTable /\ Q(n + 2) # NoTable
    BY <2>2, <2>3, PathIs
  <2>5. /\ P(n + 1) = c[P(n + 2)][Index(n + 2, p)]
        /\ Q(n + 1) = c[Q(n + 2)][Index(n + 2, q)]
    BY <2>2, <2>4, PathIs
  <2>6. Index(n + 2, p) \in Slots /\ Index(n + 2, q) \in Slots
    BY <2>2, IndexType
  <2>7. P(n + 2) \in TableIds /\ Q(n + 2) \in TableIds
    BY <2>2, <2>4, PathInTables, ReachedType
  <2> HIDE DEF P, Q
  <2>8. QED
    BY <2>3, <2>4, <2>5, <2>6, <2>7 DEF Unique
<1>3. Nat \subseteq S
  <2> HIDE DEF S
  <2> QED BY <1>1, <1>2, NatSetInduction
<1>4. ASSUME NEW l \in 1 .. Levels PROVE Index(l, p) = Index(l, q)
  <2>1. l - 1 \in S /\ (l - 1) + 1 = l /\ l <= Levels
    BY <1>3, SomeLevels
  <2>2. QED BY <2>1
<1>5. QED
  BY <1>4, SameIndices
-----------------------------------------------------------------------------
(* EptpConstructTables hangs an empty table t into an empty entry s of a   *)
(* table w of the tree.                                                    *)

Grown(r, c, d, w, s, t) ==
  /\ TreeType(r, c) /\ TreeType(r, d)
  /\ w \in TablesIn(r, c) /\ s \in Slots /\ c[w][s] = NoTable
  /\ t \in TableIds \ TablesIn(r, c)
  /\ \A i \in Slots : c[t][i] = NoTable
  /\ d[w][s] = t
  /\ \A u \in TableIds : \A i \in Slots : ~(u = w /\ i = s) => d[u][i] = c[u][i]

\* Entries that led somewhere still lead there, and the new one to t.
LEMMA GrownPath ==
  ASSUME NEW r, NEW c, NEW d, NEW w, NEW s, NEW t, Grown(r, c, d, w, s, t),
         NEW p \in Pages
  PROVE  \A l \in 1 .. Levels :
           \/ PathIn(r, d, p)[l] = PathIn(r, c, p)[l]
           \/ PathIn(r, c, p)[l] = NoTable /\ PathIn(r, d, p)[l] = t
<1> DEFINE P(l) == PathIn(r, c, p)[l]
           Q(l) == PathIn(r, d, p)[l]
           Fine(l) == Q(l) = P(l) \/ (P(l) = NoTable /\ Q(l) = t)
           S == {l \in 1 .. Levels : Fine(l)}
<1>1. Levels \in S
  BY PathIs, SomeLevels
<1>2. ASSUME NEW l \in 1 .. Levels - 1, l + 1 \in S PROVE l \in S
  <2>1. l \in 1 .. Levels /\ l + 1 \in 1 .. Levels
    BY SomeLevels
  <2>2. PICK i \in Slots : i = Index(l + 1, p)
    BY <2>1, IndexType
  <2>3. /\ P(l) = IF P(l + 1) = NoTable THEN NoTable ELSE c[P(l + 1)][i]
        /\ Q(l) = IF Q(l + 1) = NoTable THEN NoTable ELSE d[Q(l + 1)][i]
    BY <2>2, PathIs
  <2>4. Fine(l + 1)
    BY <1>2
  <2>5. P(l + 1) \in TablesIn(r, c) \union {NoTable}
    BY <2>1, PathInTables
  <2>6. TablesIn(r, c) \subseteq TableIds /\ NoTable \notin TableIds
    BY ReachedType, NoTableIsNone DEF Grown
  <2> HIDE DEF P, Q
  <2>7. Fine(l)
    <3>1. CASE P(l + 1) = NoTable /\ Q(l + 1) = NoTable
      BY <3>1, <2>3
    <3>2. CASE P(l + 1) # NoTable /\ Q(l + 1) = P(l + 1)
      BY <3>2, <2>3, <2>5, <2>6 DEF Grown
    <3>3. CASE P(l + 1) = NoTable /\ Q(l + 1) = t
      BY <3>3, <2>3, <2>6 DEF Grown
    <3>4. QED BY <2>4, <3>1, <3>2, <3>3
  <2>8. QED BY <2>1, <2>7
<1>3. 1 .. Levels \subseteq S
  <2> HIDE DEF S
  <2> QED BY <1>1, <1>2, SomeLevels, DownwardInduction
<1>4. QED
  BY <1>3

\* Adding a table adds it one level below, and nothing else.
LEMMA GrownReached ==
  ASSUME NEW r, NEW c, NEW d, NEW w, NEW s, NEW t, Grown(r, c, d, w, s, t)
  PROVE  \A l \in 1 .. Levels :
           /\ ReachedIn(r, c)[l] \subseteq ReachedIn(r, d)[l]
           /\ ReachedIn(r, d)[l] \subseteq ReachedIn(r, c)[l] \union {t}
<1> DEFINE A(l) == ReachedIn(r, c)[l]
           B(l) == ReachedIn(r, d)[l]
           S == {l \in 1 .. Levels : A(l) \subseteq B(l) /\ B(l) \subseteq A(l) \union {t}}
<1>1. Levels \in S
  BY ReachedIs, SomeLevels
<1>2. ASSUME NEW l \in 1 .. Levels - 1, l + 1 \in S PROVE l \in S
  <2>1. l \in 1 .. Levels /\ l + 1 \in 1 .. Levels
    BY SomeLevels
  <2>2. A(l) = Below(c, A(l + 1)) /\ B(l) = Below(d, B(l + 1))
    BY ReachedIs
  <2>3. A(l + 1) \subseteq B(l + 1) /\ B(l + 1) \subseteq A(l + 1) \union {t}
    BY <1>2
  <2>4. A(l + 1) \subseteq TablesIn(r, c) /\ TablesIn(r, c) \subseteq TableIds
    BY <2>1, ReachedType DEF TablesIn, Grown
  <2> HIDE DEF A, B
  <2>5. Below(c, A(l + 1)) \subseteq Below(d, B(l + 1))
    <3>1. ASSUME NEW u \in A(l + 1), NEW i \in Slots, c[u][i] # NoTable
          PROVE  c[u][i] \in Below(d, B(l + 1))
      <4>1. d[u][i] = c[u][i] /\ u \in B(l + 1)
        BY <3>1, <2>3, <2>4 DEF Grown
      <4>2. d[u][i] \in {d[v][j] : v \in B(l + 1), j \in Slots}
        BY <4>1
      <4>3. QED BY <4>1, <4>2, <3>1 DEF Below
    <3>2. QED BY <3>1 DEF Below
  <2>6. Below(d, B(l + 1)) \subseteq Below(c, A(l + 1)) \union {t}
    <3>1. ASSUME NEW u \in B(l + 1), NEW i \in Slots, d[u][i] # NoTable, d[u][i] # t
          PROVE  d[u][i] \in Below(c, A(l + 1))
      <4>1. u \in TableIds
        BY <2>3, <2>4 DEF Grown
      <4>2. d[u][i] = c[u][i]
        BY <3>1, <4>1 DEF Grown
      <4>3. u \in A(l + 1)
        BY <3>1, <4>2, <2>3 DEF Grown
      <4>4. c[u][i] \in {c[v][j] : v \in A(l + 1), j \in Slots}
        BY <4>3
      <4>5. QED BY <4>2, <4>4, <3>1 DEF Below
    <3>2. QED BY <3>1 DEF Below
  <2>7. QED BY <2>1, <2>2, <2>5, <2>6
<1>3. 1 .. Levels \subseteq S
  <2> HIDE DEF S
  <2> QED BY <1>1, <1>2, SomeLevels, DownwardInduction
<1>4. QED
  BY <1>3

\* The tree has t now, as long as w was not of the lowest level.
LEMMA GrownTables ==
  ASSUME NEW r, NEW c, NEW d, NEW w, NEW s, NEW t, Grown(r, c, d, w, s, t),
         NEW l \in 2 .. Levels, w \in ReachedIn(r, c)[l]
  PROVE  TablesIn(r, d) = TablesIn(r, c) \union {t}
<1>1. w \in ReachedIn(r, d)[l] /\ l \in 1 .. Levels /\ l - 1 \in 1 .. Levels - 1
  BY GrownReached, SomeLevels
<1>2. (l - 1) + 1 = l /\ l - 1 \in 1 .. Levels
  BY <1>1, SomeLevels
<1>3. ReachedIn(r, d)[l - 1] = Below(d, ReachedIn(r, d)[l])
  BY <1>1, <1>2, ReachedIs
<1>4. d[w][s] \in {d[v][j] : v \in ReachedIn(r, d)[l], j \in Slots}
  BY <1>1 DEF Grown
<1>5. t \in Below(d, ReachedIn(r, d)[l])
  BY <1>4, NoTableIsNone DEF Below, Grown
<1>6. t \in TablesIn(r, d)
  BY <1>2, <1>3, <1>5 DEF TablesIn
<1>7. TablesIn(r, c) \subseteq TablesIn(r, d)
  BY GrownReached DEF TablesIn
<1>8. TablesIn(r, d) \subseteq TablesIn(r, c) \union {t}
  BY GrownReached DEF TablesIn
<1>9. QED
  BY <1>6, <1>7, <1>8

\* No table is reached twice, as long as t is not.
LEMMA GrownUnique ==
  ASSUME NEW r, NEW c, NEW d, NEW w, NEW s, NEW t, Grown(r, c, d, w, s, t),
         Unique(r, c), r \in TablesIn(r, c),
         \A u \in TableIds : \A i \in Slots : c[u][i] # t
  PROVE  Unique(r, d)
<1>1. w \in TableIds /\ r # t
  BY ReachedType DEF Grown
<1>2. \A u \in TableIds : \A i \in Slots : d[u][i] = t => u = w /\ i = s
  BY DEF Grown
<1>3. ASSUME NEW u \in TableIds, NEW v \in TableIds, NEW i \in Slots, NEW j \in Slots,
             d[u][i] = d[v][j], d[u][i] # NoTable
      PROVE  u = v /\ i = j
  <2>1. CASE d[u][i] = t
    BY <2>1, <1>2, <1>3
  <2>2. CASE d[u][i] # t
    <3>1. d[u][i] = c[u][i] /\ d[v][j] = c[v][j]
      BY <2>2, <1>3 DEF Grown
    <3>2. c[u][i] = c[v][j] /\ c[u][i] # NoTable
      BY <3>1, <1>3
    <3>3. \A i1, j1 \in Slots : c[u][i1] = c[v][j1] /\ c[u][i1] # NoTable => u = v /\ i1 = j1
      BY DEF Unique
    <3>4. QED BY <3>2, <3>3
  <2>3. QED BY <2>1, <2>2
<1>4. ASSUME NEW u \in TableIds, NEW i \in Slots, d[u][i] # NoTable PROVE d[u][i] # r
  BY <1>1, <1>4 DEF Grown, Unique
<1>5. QED
  BY <1>3, <1>4 DEF Unique
-----------------------------------------------------------------------------
(* The memory types that are stored and found.                             *)

MtrrEntries == [fixed : BOOLEAN, type : MemoryTypes, first : Nat, last : Nat]

FixedSum ==
  LET Sum[k \in 0 .. Len(FixedSizes)] ==
        IF k = 0 THEN 0 ELSE Sum[k - 1] + FixedSizes[k]
  IN Sum

\* What the recursive definition of FixedSum says.
LEMMA FixedSumIs ==
  /\ FixedSum[0] = 0
  /\ \A k \in 1 .. Len(FixedSizes) : FixedSum[k] = FixedSum[k - 1] + FixedSizes[k]
<1> DEFINE Solves(f, n) == f = [k \in 0 .. n |-> IF k = 0 THEN 0 ELSE f[k - 1] + FixedSizes[k]]
           S == {n \in Nat : \E f : Solves(f, n)}
<1>0. Len(FixedSizes) \in Nat
  BY FixedSizesAssumption
<1>1. 0 \in S
  <2>1. Solves([k \in 0 .. 0 |-> 0], 0)
    OBVIOUS
  <2>2. QED BY <2>1
<1>2. ASSUME NEW n \in Nat, n \in S PROVE n + 1 \in S
  <2>1. PICK f : Solves(f, n)
    BY <1>2
  <2> DEFINE g == [k \in 0 .. n + 1 |->
                     IF k = n + 1 THEN f[n] + FixedSizes[n + 1] ELSE f[k]]
  <2>a. \A k \in 0 .. n :
          f[k] = IF k = 0 THEN 0 ELSE f[k - 1] + FixedSizes[k]
    BY <2>1
  <2>2. ASSUME NEW k \in 0 .. n + 1
        PROVE  g[k] = IF k = 0 THEN 0 ELSE g[k - 1] + FixedSizes[k]
    <3>1. CASE k = n + 1
      BY <3>1
    <3>2. CASE k \in 0 .. n
      <4>1. g[k] = f[k] /\ (k # 0 => g[k - 1] = f[k - 1])
        BY <3>2
      <4>2. QED BY <3>2, <4>1, <2>a
    <3>3. QED BY <3>1, <3>2
  <2>3. Solves(g, n + 1)
    BY <2>2
  <2>4. \E h : Solves(h, n + 1)
    <3> HIDE DEF g, Solves
    <3> QED BY <2>3
  <2>5. QED
    BY <2>4
<1>3. Len(FixedSizes) \in S
  <2> HIDE DEF S
  <2> QED BY <1>0, <1>1, <1>2, NatSetInduction
<1>4. PICK f : Solves(f, Len(FixedSizes))
  BY <1>3
<1>5. Solves(FixedSum, Len(FixedSizes))
  BY <1>4 DEF FixedSum
<1>6. \A k \in 0 .. Len(FixedSizes) :
        FixedSum[k] = IF k = 0 THEN 0 ELSE FixedSum[k - 1] + FixedSizes[k]
  BY <1>5
<1> HIDE DEF Solves
<1>7. QED
  BY <1>6, <1>0

\* Sums of sizes are numbers.
LEMMA FixedSumType == \A k \in 0 .. Len(FixedSizes) : FixedSum[k] \in Nat
<1> DEFINE S == {n \in Nat : n <= Len(FixedSizes) => FixedSum[n] \in Nat}
<1>0. Len(FixedSizes) \in Nat /\ \A k \in 1 .. Len(FixedSizes) : FixedSizes[k] \in Nat \ {0}
  BY FixedSizesAssumption
<1>1. 0 \in S
  BY FixedSumIs
<1>2. ASSUME NEW n \in Nat, n \in S PROVE n + 1 \in S
  BY <1>0, <1>2, FixedSumIs
<1>3. Nat \subseteq S
  <2> HIDE DEF S
  <2> QED BY <1>1, <1>2, NatSetInduction
<1>4. QED
  BY <1>3, <1>0

\* The fixed ranges begin at page numbers.
LEMMA FixedBaseType ==
  ASSUME NEW i \in 1 .. Len(FixedSizes)
  PROVE  FixedBase[i] \in Nat /\ FixedBase[i + 1] \in Nat /\ FixedBase[i + 1] - 1 \in Nat
<1>0. Len(FixedSizes) \in Nat /\ \A k \in 1 .. Len(FixedSizes) : FixedSizes[k] \in Nat \ {0}
  BY FixedSizesAssumption
<1>1. FixedBase = [k \in 1 .. Len(FixedSizes) + 1 |-> FixedSum[k - 1]]
  BY DEF FixedBase, FixedSum
<1>2. FixedBase[i] = FixedSum[i - 1] /\ FixedBase[i + 1] = FixedSum[i]
  BY <1>0, <1>1
<1>3. FixedSum[i - 1] \in Nat /\ FixedSum[i] = FixedSum[i - 1] + FixedSizes[i]
  BY <1>0, FixedSumIs, FixedSumType
<1>4. QED BY <1>0, <1>2, <1>3

\* The entries made of the fixed-range MTRRs are MTRR entries.
LEMMA FixedEntriesType ==
  ASSUME NEW m \in MtrrChoices
  PROVE  FixedEntries(m) \in Seq(MtrrEntries)
<1>0. /\ Len(FixedSizes) \in Nat
      /\ \A k \in 1 .. Len(FixedSizes) : FixedSizes[k] \in Nat \ {0} /\ m.fixed[k] \in MemoryTypes
  BY FixedSizesAssumption, MtrrAssumption
<1>2. ASSUME NEW i \in 1 .. Len(FixedSizes)
      PROVE  FixedBase[i] \in Nat /\ FixedBase[i + 1] - 1 \in Nat
  BY FixedBaseType
<1>3. CASE ~m.fixedOn
  BY <1>3 DEF FixedEntries
<1>4. CASE m.fixedOn
  <2> DEFINE e(i) == [fixed |-> TRUE, type |-> m.fixed[i],
                      first |-> FixedBase[i], last |-> FixedBase[i + 1] - 1]
  <2>1. \A i \in 1 .. Len(FixedSizes) : e(i) \in MtrrEntries
    BY <1>0, <1>2 DEF MtrrEntries
  <2>2. FixedEntries(m) = [i \in 1 .. Len(FixedSizes) |-> e(i)]
    BY <1>4 DEF FixedEntries
  <2> HIDE DEF e
  <2>3. QED BY <2>1, <2>2, <1>0
<1>5. QED BY <1>3, <1>4, MtrrAssumption

ValidUpto(m) ==
  LET Upto[k \in 0 .. Len(m.variable)] ==
        IF k = 0 THEN <<>>
        ELSE IF m.variable[k].valid
        THEN Append(Upto[k - 1], VariableEntry(m.variable[k]))
        ELSE Upto[k - 1]
  IN Upto

\* What the recursive definition in VariableEntries says.
LEMMA ValidUptoIs ==
  ASSUME NEW m, Len(m.variable) \in Nat
  PROVE  /\ ValidUpto(m)[0] = <<>>
         /\ \A k \in 1 .. Len(m.variable) :
              ValidUpto(m)[k] = IF m.variable[k].valid
                                THEN Append(ValidUpto(m)[k - 1], VariableEntry(m.variable[k]))
                                ELSE ValidUpto(m)[k - 1]
<1> DEFINE Solves(f, n) ==
             f = [k \in 0 .. n |->
                    IF k = 0 THEN <<>>
                    ELSE IF m.variable[k].valid
                    THEN Append(f[k - 1], VariableEntry(m.variable[k]))
                    ELSE f[k - 1]]
           S == {n \in Nat : \E f : Solves(f, n)}
<1>1. 0 \in S
  <2>1. Solves([k \in 0 .. 0 |-> <<>>], 0)
    OBVIOUS
  <2>2. \E f : Solves(f, 0)
    <3> HIDE DEF Solves
    <3> QED BY <2>1
  <2>3. QED BY <2>2
<1>2. ASSUME NEW n \in Nat, n \in S PROVE n + 1 \in S
  <2>1. PICK f : Solves(f, n)
    BY <1>2
  <2> DEFINE g == [k \in 0 .. n + 1 |->
                     IF k = n + 1
                     THEN IF m.variable[n + 1].valid
                          THEN Append(f[n], VariableEntry(m.variable[n + 1]))
                          ELSE f[n]
                     ELSE f[k]]
  <2>a. \A k \in 0 .. n :
          f[k] = IF k = 0 THEN <<>>
                      ELSE IF m.variable[k].valid
                      THEN Append(f[k - 1], VariableEntry(m.variable[k]))
                      ELSE f[k - 1]
    BY <2>1
  <2>2. ASSUME NEW k \in 0 .. n + 1
        PROVE  g[k] = IF k = 0 THEN <<>>
                      ELSE IF m.variable[k].valid
                      THEN Append(g[k - 1], VariableEntry(m.variable[k]))
                      ELSE g[k - 1]
    <3>1. CASE k = n + 1
      BY <3>1
    <3>2. CASE k \in 0 .. n
      <4>1. g[k] = f[k] /\ (k # 0 => g[k - 1] = f[k - 1])
        BY <3>2
      <4>2. QED BY <3>2, <4>1, <2>a
    <3>3. QED BY <3>1, <3>2
  <2>3. Solves(g, n + 1)
    BY <2>2
  <2>4. \E h : Solves(h, n + 1)
    <3> HIDE DEF g, Solves
    <3> QED BY <2>3
  <2>5. QED
    BY <2>4
<1>3. Len(m.variable) \in S
  <2> HIDE DEF S
  <2> QED BY <1>1, <1>2, NatSetInduction
<1>4. PICK f : Solves(f, Len(m.variable))
  BY <1>3
<1>5. Solves(ValidUpto(m), Len(m.variable))
  BY <1>4 DEF ValidUpto
<1>6. \A k \in 0 .. Len(m.variable) :
        ValidUpto(m)[k] = IF k = 0 THEN <<>>
                      ELSE IF m.variable[k].valid
                      THEN Append(ValidUpto(m)[k - 1], VariableEntry(m.variable[k]))
                      ELSE ValidUpto(m)[k - 1]
  BY <1>5
<1> HIDE DEF Solves
<1>7. QED
  BY <1>6

\* The entries made of the variable-range MTRRs are MTRR entries.
LEMMA ValidUptoType ==
  ASSUME NEW m \in MtrrChoices
  PROVE  \A k \in 0 .. Len(m.variable) : ValidUpto(m)[k] \in Seq(MtrrEntries)
<1> DEFINE n == Len(m.variable)
           S == {k \in Nat : k <= n => ValidUpto(m)[k] \in Seq(MtrrEntries)}
<1>0. n \in Nat
  BY MtrrAssumption
<1>1. \A k \in 1 .. n : VariableEntry(m.variable[k]) \in MtrrEntries
  <2> TAKE k \in 1 .. n
  <2> DEFINE V == [valid : BOOLEAN, type : MemoryTypes, base : Nat, pages : Nat \ {0}]
  <2>1. m.variable \in Seq(V)
    BY MtrrAssumption
  <2>2. m.variable[k] \in V
    <3> HIDE DEF V
    <3> QED BY <2>1
  <2>3. QED BY <2>2 DEF VariableEntry, MtrrEntries
<1> HIDE DEF n
<1>2. 0 \in S
  <2>1. ValidUpto(m)[0] = <<>>
    BY <1>0, ValidUptoIs DEF n
  <2>2. <<>> \in Seq(MtrrEntries)
    OBVIOUS
  <2>3. QED BY <2>1, <2>2
<1>3. ASSUME NEW k \in Nat, k \in S PROVE k + 1 \in S
  <2>1. SUFFICES ASSUME k + 1 <= n PROVE ValidUpto(m)[k + 1] \in Seq(MtrrEntries)
    OBVIOUS
  <2>2. k + 1 \in 1 .. n /\ (k + 1) - 1 = k /\ ValidUpto(m)[k] \in Seq(MtrrEntries)
    BY <1>3, <2>1, <1>0
  <2>3. ValidUpto(m)[k + 1] = IF m.variable[k + 1].valid
          THEN Append(ValidUpto(m)[k], VariableEntry(m.variable[k + 1]))
          ELSE ValidUpto(m)[k]
    BY <2>2, <1>0, ValidUptoIs DEF n
  <2>4. QED BY <2>2, <2>3, <1>1
<1>4. Nat \subseteq S
  <2> HIDE DEF S
  <2> QED BY <1>2, <1>3, NatSetInduction
<1>5. QED
  BY <1>0, <1>4 DEF n

LEMMA VariableEntriesType ==
  ASSUME NEW m \in MtrrChoices
  PROVE  VariableEntries(m) \in Seq(MtrrEntries)
<1>1. Len(m.variable) \in Nat
  BY MtrrAssumption
<1>2. VariableEntries(m) = ValidUpto(m)[Len(m.variable)]
  BY DEF VariableEntries, ValidUpto
<1>3. QED
  BY <1>1, <1>2, ValidUptoType

LEMMA StoredEntriesType ==
  ASSUME NEW m \in MtrrChoices
  PROVE  StoredEntries(m) \in Seq(MtrrEntries)
BY FixedEntriesType, VariableEntriesType DEF StoredEntries

\* Overwriting g_eptp_mtrr_entries leaves MTRR entries.
LEMMA OverwrittenType ==
  ASSUME NEW m \in MtrrChoices, stored \in Seq(MtrrEntries)
  PROVE  Overwritten(StoredEntries(m)) \in Seq(MtrrEntries)
<1> DEFINE new == StoredEntries(m)
           len == Len(new) + IF Len(stored) > Len(new) THEN Len(stored) - Len(new) ELSE 0
<1>1. new \in Seq(MtrrEntries)
  BY FixedEntriesType, VariableEntriesType DEF StoredEntries
<1> HIDE DEF new
<1>2. len \in Nat /\ (len = Len(new) \/ len = Len(stored)) /\ Len(new) <= len
  BY <1>1
<1>3. \A i \in 1 .. len : (IF i <= Len(new) THEN new[i] ELSE stored[i]) \in MtrrEntries
  BY <1>1, <1>2
<1>4. Overwritten(new) = [i \in 1 .. len |-> IF i <= Len(new) THEN new[i] ELSE stored[i]]
  BY DEF Overwritten
<1> HIDE DEF len
<1>5. Overwritten(new) \in [1 .. len -> MtrrEntries]
  BY <1>3, <1>4
<1>6. QED
  BY <1>2, <1>5 DEF new

TypeAfter(entries, page) ==
  LET After[k \in 0 .. Len(entries)] ==
        IF k = 0 THEN [type |-> NoType, stop |-> FALSE]
        ELSE IF After[k - 1].stop \/ ~Covers(entries[k], page) THEN After[k - 1]
        ELSE Combine(After[k - 1].type, entries[k])
  IN After

\* What the recursive definition in EptpGetMemoryType says.
LEMMA TypeAfterIs ==
  ASSUME NEW entries, Len(entries) \in Nat, NEW page
  PROVE  /\ TypeAfter(entries, page)[0] = [type |-> NoType, stop |-> FALSE]
         /\ \A k \in 1 .. Len(entries) :
              TypeAfter(entries, page)[k] =
                IF TypeAfter(entries, page)[k - 1].stop \/ ~Covers(entries[k], page)
                THEN TypeAfter(entries, page)[k - 1]
                ELSE Combine(TypeAfter(entries, page)[k - 1].type, entries[k])
<1> DEFINE Solves(f, n) ==
             f = [k \in 0 .. n |->
                    IF k = 0 THEN [type |-> NoType, stop |-> FALSE]
                    ELSE IF f[k - 1].stop \/ ~Covers(entries[k], page) THEN f[k - 1]
                    ELSE Combine(f[k - 1].type, entries[k])]
           S == {n \in Nat : \E f : Solves(f, n)}
<1>1. 0 \in S
  <2>1. Solves([k \in 0 .. 0 |-> [type |-> NoType, stop |-> FALSE]], 0)
    OBVIOUS
  <2>2. \E f : Solves(f, 0)
    <3> HIDE DEF Solves
    <3> QED BY <2>1
  <2>3. QED BY <2>2
<1>2. ASSUME NEW n \in Nat, n \in S PROVE n + 1 \in S
  <2>1. PICK f : Solves(f, n)
    BY <1>2
  <2> DEFINE g == [k \in 0 .. n + 1 |->
                     IF k = n + 1
                     THEN IF f[n].stop \/ ~Covers(entries[n + 1], page) THEN f[n]
                          ELSE Combine(f[n].type, entries[n + 1])
                     ELSE f[k]]
  <2>a. \A k \in 0 .. n :
          f[k] = IF k = 0 THEN [type |-> NoType, stop |-> FALSE]
                      ELSE IF f[k - 1].stop \/ ~Covers(entries[k], page) THEN f[k - 1]
                      ELSE Combine(f[k - 1].type, entries[k])
    BY <2>1
  <2>2. ASSUME NEW k \in 0 .. n + 1
        PROVE  g[k] = IF k = 0 THEN [type |-> NoType, stop |-> FALSE]
                      ELSE IF g[k - 1].stop \/ ~Covers(entries[k], page) THEN g[k - 1]
                      ELSE Combine(g[k - 1].type, entries[k])
    <3>1. CASE k = n + 1
      BY <3>1
    <3>2. CASE k \in 0 .. n
      <4>1. g[k] = f[k] /\ (k # 0 => g[k - 1] = f[k - 1])
        BY <3>2
      <4>2. QED BY <3>2, <4>1, <2>a
    <3>3. QED BY <3>1, <3>2
  <2>3. Solves(g, n + 1)
    BY <2>2
  <2>4. \E h : Solves(h, n + 1)
    <3> HIDE DEF g, Solves
    <3> QED BY <2>3
  <2>5. QED
    BY <2>4
<1>3. Len(entries) \in S
  <2> HIDE DEF S
  <2> QED BY <1>1, <1>2, NatSetInduction
<1>4. PICK f : Solves(f, Len(entries))
  BY <1>3
<1>5. Solves(TypeAfter(entries, page), Len(entries))
  BY <1>4 DEF TypeAfter
<1>6. \A k \in 0 .. Len(entries) :
        TypeAfter(entries, page)[k] = IF k = 0 THEN [type |-> NoType, stop |-> FALSE]
                      ELSE IF TypeAfter(entries, page)[k - 1].stop \/ ~Covers(entries[k], page)
                      THEN TypeAfter(entries, page)[k - 1]
                      ELSE Combine(TypeAfter(entries, page)[k - 1].type, entries[k])
  BY <1>5
<1> HIDE DEF Solves
<1>7. 0 \in 0 .. Len(entries) /\ \A k \in 1 .. Len(entries) : k \in 0 .. Len(entries) /\ k # 0
  OBVIOUS
<1>8. TypeAfter(entries, page)[0] = [type |-> NoType, stop |-> FALSE]
  BY <1>6, <1>7
<1>9. QED
  BY <1>6, <1>7, <1>8

\* EptpGetMemoryType returns a memory type.
LEMMA MemoryTypeType ==
  ASSUME NEW entries \in Seq(MtrrEntries), NEW default \in MemoryTypes, NEW page
  PROVE  EptpGetMemoryType(entries, default, page) \in MemoryTypes
<1> DEFINE n == Len(entries)
           R(k) == TypeAfter(entries, page)[k]
           S == {k \in Nat : k <= n => R(k).type \in MemoryTypes \union {NoType}}
<1>0. n \in Nat /\ \A k \in 1 .. n : entries[k] \in MtrrEntries
  OBVIOUS
<1>1. 0 \in S
  BY TypeAfterIs
<1>2. ASSUME NEW k \in Nat, k \in S PROVE k + 1 \in S
  <2>1. SUFFICES ASSUME k + 1 <= n PROVE R(k + 1).type \in MemoryTypes \union {NoType}
    OBVIOUS
  <2>2. k + 1 \in 1 .. n /\ (k + 1) - 1 = k /\ R(k).type \in MemoryTypes \union {NoType}
    BY <1>2, <2>1, <1>0
  <2>3. R(k + 1) = R(k) \/ R(k + 1) = Combine(R(k).type, entries[k + 1])
    BY <2>2, TypeAfterIs
  <2>4. entries[k + 1].type \in MemoryTypes
    BY <2>2, <1>0 DEF MtrrEntries
  <2> HIDE DEF R
  <2>5. Combine(R(k).type, entries[k + 1]).type \in MemoryTypes
    BY <2>4 DEF Combine, MemoryTypes
  <2>6. QED BY <2>2, <2>3, <2>5
<1>3. n \in S
  <2> HIDE DEF S
  <2> QED BY <1>0, <1>1, <1>2, NatSetInduction
<1>4. EptpGetMemoryType(entries, default, page)
        = IF R(n).type = NoType THEN default ELSE R(n).type
  BY DEF EptpGetMemoryType, TypeAfter
<1>5. QED
  BY <1>0, <1>3, <1>4
-----------------------------------------------------------------------------
(* The tree with its leaves.                                               *)

LeafEntries == [present : BOOLEAN, page : Pages, type : MemoryTypes \union {NoType}]

EntryIn(r, c, f, p) ==
  IF PathIn(r, c, p)[1] = NoTable THEN NoLeaf ELSE f[PathIn(r, c, p)[1]][Index(1, p)]

\* EptpGetEptPtEntry is that function of the current tree.
LEMMA EntryIsIn ==
  /\ \A p : EptGetEptPtEntry(p) = EntryIn(root, child, leaf, p)
  /\ \A p : EptGetEptPtEntry(p)' = EntryIn(root', child', leaf', p)
BY TreeIsIn, TreeIsInPrime DEF EptGetEptPtEntry, TableAt, EntryIn

\* Each table of the tree has one place in it; all others are empty.
Shape(r, c, f) ==
  /\ TreeType(r, c)
  /\ f \in [TableIds -> [Slots -> LeafEntries]]
  /\ Unique(r, c)
  /\ \A t \in TableIds : \A i \in Slots : c[t][i] \in TablesIn(r, c) \union {NoTable}
  /\ \A t \in TableIds \ TablesIn(r, c) : \A i \in Slots :
       c[t][i] = NoTable /\ f[t][i] = NoLeaf
  /\ \A t \in TableIds : \A i \in Slots : f[t][i].present \/ f[t][i] = NoLeaf

\* An entry that is not present is an entry.
LEMMA NoLeafType == NoLeaf \in LeafEntries /\ ~NoLeaf.present
<1>1. 0 \in Pages
  BY SpanType, SomeLevels DEF Pages
<1>2. QED
  BY <1>1 DEF NoLeaf, LeafEntries

\* The zeroed tables have the shape of no tree.
LEMMA EmptyShape ==
  ASSUME NEW c, NEW f,
         c = [t \in TableIds |-> [i \in Slots |-> NoTable]],
         f = [t \in TableIds |-> [i \in Slots |-> NoLeaf]]
  PROVE  Shape(NoTable, c, f)
<1>1. \A t \in TableIds : \A i \in Slots : c[t][i] = NoTable /\ f[t][i] = NoLeaf
  OBVIOUS
<1>2. TreeType(NoTable, c) /\ f \in [TableIds -> [Slots -> LeafEntries]]
  BY NoLeafType DEF TreeType
<1>3. Unique(NoTable, c)
  BY <1>1 DEF Unique
<1>4. QED
  BY <1>1, <1>2, <1>3 DEF Shape

\* Without a root no page has an entry.
LEMMA NoTreeEntry ==
  ASSUME NEW c, NEW f, NEW p \in Pages
  PROVE  EntryIn(NoTable, c, f, p) = NoLeaf
BY NoTree DEF EntryIn

\* EptInitialization allocates the root.
LEMMA RootShape ==
  ASSUME NEW c, NEW f, Shape(NoTable, c, f), NEW t \in TableIds
  PROVE  /\ Shape(t, c, f)
         /\ TablesIn(t, c) = {t}
         /\ \A p \in Pages : EntryIn(t, c, f, p) = NoLeaf
<1>1. \A u \in TableIds : \A i \in Slots : c[u][i] = NoTable /\ f[u][i] = NoLeaf
  BY NoTree DEF Shape
<1>2. TreeType(t, c)
  BY DEF Shape, TreeType
<1>3. TablesIn(t, c) = {t} /\ \A p \in Pages : PathIn(t, c, p)[1] = NoTable
  BY <1>1, <1>2, LoneRoot, NoTableIsNone
<1>4. Unique(t, c)
  BY <1>1 DEF Unique
<1>5. QED
  BY <1>1, <1>2, <1>3, <1>4 DEF Shape, EntryIn

\* EptpConstructTables adds a table on the way to page p.
LEMMA IsGrown ==
  ASSUME NEW r, NEW c, NEW f, Shape(r, c, f),
         NEW p \in Pages, NEW l \in 2 .. Levels, NEW w, NEW s, NEW t, NEW d,
         w = PathIn(r, c, p)[l], w # NoTable, s = Index(l, p), c[w][s] = NoTable,
         t \in TableIds \ TablesIn(r, c),
         d = [c EXCEPT ![w][s] = t]
  PROVE  Grown(r, c, d, w, s, t)
<1>1. l \in 1 .. Levels
  BY SomeLevels
<1>2. w \in TablesIn(r, c) /\ s \in Slots
  BY <1>1, PathInTables, IndexType
<1>3. w \in TableIds
  BY <1>2, ReachedType DEF Shape
<1>4. TreeType(r, d)
  BY <1>2, <1>3 DEF Shape, TreeType
<1>5. /\ d[w][s] = t
      /\ \A u \in TableIds : \A i \in Slots : ~(u = w /\ i = s) => d[u][i] = c[u][i]
  BY <1>2, <1>3 DEF Shape, TreeType
<1>6. QED
  BY <1>2, <1>4, <1>5 DEF Grown, Shape

\* Where the call of EptpConstructTables for page p has come to: slot s of
\* table w, of level l; and what it stores there.
Place(r, c, p, l, w, s) == w = PathIn(r, c, p)[l] /\ w # NoTable /\ s = Index(l, p)
Fills(f, g, w, s, e) == e \in LeafEntries /\ e.present /\ g = [f EXCEPT ![w][s] = e]

\* The tree keeps its shape and each page its entry, and the path of page p
\* now leads to the new table.
LEMMA GrownShape ==
  ASSUME NEW r, NEW c, NEW f, Shape(r, c, f), r # NoTable,
         NEW p \in Pages, NEW l \in 2 .. Levels, NEW w, NEW s, NEW t, NEW d,
         Place(r, c, p, l, w, s), Grown(r, c, d, w, s, t)
  PROVE  /\ Shape(r, d, f)
         /\ TablesIn(r, d) = TablesIn(r, c) \union {t}
         /\ PathIn(r, d, p)[l - 1] = t
         /\ \A q \in Pages : EntryIn(r, d, f, q) = EntryIn(r, c, f, q)
<1>0. w = PathIn(r, c, p)[l] /\ w # NoTable /\ s = Index(l, p)
  BY DEF Place
<1>1. l \in 1 .. Levels /\ 1 \in 1 .. Levels /\ Levels \in 1 .. Levels
  BY SomeLevels
<1>2. w \in ReachedIn(r, c)[l] /\ s \in Slots
  BY <1>0, <1>1, PathIsReached, IndexType
<1>3. r \in TablesIn(r, c) /\ w \in TablesIn(r, c) /\ t \notin TablesIn(r, c) /\ t \in TableIds
  BY <1>1, ReachedIs DEF TablesIn, Grown
<1>4. TreeType(r, d)
  BY DEF Grown
<1>5. /\ d[w][s] = t
      /\ \A u \in TableIds : \A i \in Slots : ~(u = w /\ i = s) => d[u][i] = c[u][i]
  BY DEF Grown
<1>7. TablesIn(r, d) = TablesIn(r, c) \union {t}
  BY <1>0, <1>2, GrownTables
<1>8. \A u \in TableIds : \A i \in Slots : c[u][i] # t
  BY <1>3, NoTableIsNone DEF Shape
<1>9. Unique(r, d)
  BY <1>3, <1>8, GrownUnique DEF Shape
<1>10. Shape(r, d, f)
  <2>1. \A u \in TableIds : \A i \in Slots : d[u][i] \in TablesIn(r, d) \union {NoTable}
    BY <1>5, <1>7 DEF Shape
  <2>2. \A u \in TableIds \ TablesIn(r, d) : \A i \in Slots :
          d[u][i] = NoTable /\ f[u][i] = NoLeaf
    BY <1>3, <1>5, <1>7 DEF Shape
  <2>3. QED BY <1>4, <1>9, <2>1, <2>2 DEF Shape
<1>11. PathIn(r, d, p)[l - 1] = t
  <2>1. PathIn(r, d, p)[l] = w
    BY <1>0, <1>1, GrownPath
  <2>2. PathIn(r, d, p)[l - 1] = d[PathIn(r, d, p)[l]][Index(l, p)]
    BY <1>0, <2>1, NextOnPath
  <2>3. QED BY <1>0, <2>1, <2>2, <1>5
<1>12. ASSUME NEW q \in Pages PROVE EntryIn(r, d, f, q) = EntryIn(r, c, f, q)
  <2>1. CASE PathIn(r, d, q)[1] = PathIn(r, c, q)[1]
    BY <2>1 DEF EntryIn
  <2>2. CASE PathIn(r, c, q)[1] = NoTable /\ PathIn(r, d, q)[1] = t
    <3>1. f[t][Index(1, q)] = NoLeaf
      BY <1>1, <1>3, IndexType DEF Shape
    <3>2. QED BY <2>2, <3>1 DEF EntryIn
  <2>3. QED BY <1>0, <2>1, <2>2, <1>1, GrownPath
<1>13. QED
  BY <1>7, <1>10, <1>11, <1>12

\* EptpInitTableEntry fills in the entry of page p, and of no other page.
LEMMA FilledShape ==
  ASSUME NEW r, NEW c, NEW f, Shape(r, c, f),
         NEW p \in Pages, NEW w, NEW s, NEW e, NEW g,
         Place(r, c, p, 1, w, s), Fills(f, g, w, s, e)
  PROVE  /\ Shape(r, c, g)
         /\ EntryIn(r, c, g, p) = e
         /\ \A q \in Pages : q # p => EntryIn(r, c, g, q) = EntryIn(r, c, f, q)
<1>0. /\ w = PathIn(r, c, p)[1] /\ w # NoTable /\ s = Index(1, p)
      /\ e \in LeafEntries /\ e.present /\ g = [f EXCEPT ![w][s] = e]
  BY DEF Place, Fills
<1>1. 1 \in 1 .. Levels
  BY SomeLevels
<1>2. w \in TablesIn(r, c) /\ w \in TableIds /\ s \in Slots
  BY <1>0, <1>1, PathInTables, IndexType, ReachedType DEF Shape
<1>3. /\ g \in [TableIds -> [Slots -> LeafEntries]]
      /\ g[w][s] = e
      /\ \A u \in TableIds : \A i \in Slots : ~(u = w /\ i = s) => g[u][i] = f[u][i]
  BY <1>0, <1>2 DEF Shape
<1>4. Shape(r, c, g)
  BY <1>0, <1>2, <1>3 DEF Shape
<1>5. EntryIn(r, c, g, p) = e
  BY <1>0, <1>3 DEF EntryIn
<1>6. ASSUME NEW q \in Pages, q # p PROVE EntryIn(r, c, g, q) = EntryIn(r, c, f, q)
  <2>1. CASE PathIn(r, c, q)[1] = NoTable
    BY <1>0, <2>1 DEF EntryIn
  <2>2. CASE PathIn(r, c, q)[1] # NoTable
    <3>1. PathIn(r, c, q)[1] \in TableIds /\ Index(1, q) \in Slots
      BY <1>0, <1>1, <2>2, PathInTables, IndexType, ReachedType DEF Shape
    <3>2. ~(PathIn(r, c, q)[1] = w /\ Index(1, q) = s)
      BY <1>0, <1>6, SamePath DEF Shape
    <3>3. QED BY <1>0, <3>1, <3>2, <1>3 DEF EntryIn
  <2>3. QED BY <1>0, <2>1, <2>2
<1>7. QED
  BY <1>0, <1>4, <1>5, <1>6

\* An entry that is not present is all zero.
LEMMA UnmappedIsNoLeaf ==
  ASSUME NEW r, NEW c, NEW f, Shape(r, c, f), NEW p \in Pages,
         ~EntryIn(r, c, f, p).present
  PROVE  EntryIn(r, c, f, p) = NoLeaf
<1>1. CASE PathIn(r, c, p)[1] = NoTable
  BY <1>1 DEF EntryIn
<1>2. CASE PathIn(r, c, p)[1] # NoTable
  <2>1. PathIn(r, c, p)[1] \in TableIds /\ Index(1, p) \in Slots
    BY <1>2, SomeLevels, PathInTables, IndexType, ReachedType DEF Shape
  <2>2. QED BY <1>2, <2>1 DEF EntryIn, Shape
<1>3. QED
  BY <1>1, <1>2
-----------------------------------------------------------------------------
(* The inductive invariant.                                                *)

Mapped(r, c, f, p) == EntryIn(r, c, f, p).present
Memory == {ApicPage} \union {RamPages[i] : i \in 1 .. Len(RamPages)}

\* The tree is one, and what is allocated is in it or is waiting to be.
TreeInv ==
  /\ Shape(root, child, leaf)
  /\ allocated = TablesIn(root, child) \union UnusedPreallocated(preCount)
  /\ UnusedPreallocated(preCount) \intersect TablesIn(root, child) = {}
  /\ \A i, j \in 1 .. Len(pre) : pre[i] = pre[j] => i = j

\* What there is at each stage of EptInitialization and after it.
StageInv ==
  /\ pc \in {"mtrrs", "pml4", "failed", "freed"} => root = NoTable
  /\ pc \in {"map", "array", "fill", "ready"} => root # NoTable
  /\ pc \notin {"fill", "ready"} => pre = <<>> /\ ~array
  /\ pc \notin {"ready", "failed", "freed"} => preCount = 0
  /\ pc = "fill" => Len(pre) < NumPreallocated
  /\ pc = "ready" => Len(pre) = NumPreallocated

\* The call of EptpConstructTables has come down the path of a page that has
\* no entry yet.
WalkInv ==
  /\ walk.level = 0 => walk = NoWalk
  /\ walk.level # 0 =>
       /\ pc \in {"map", "ready"}
       /\ walk.pool <=> pc = "map"
       /\ walk.table = PathIn(root, child, walk.page)[walk.level]
       /\ walk.table # NoTable
       /\ ~Mapped(root, child, leaf, walk.page)
       /\ pc = "map" => walk.page = Head(todo)
       /\ pc = "ready" => walk.page \in DevicePages

\* The pages of memory are mapped or still to be.
PagesInv ==
  /\ \A i, j \in 1 .. Len(todo) : todo[i] = todo[j] => i = j
  /\ pc \in {"mtrrs", "pml4"} => todo = Append(RamPages, ApicPage)
  /\ pc = "map" =>
       /\ todo # <<>>
       /\ \A i \in 1 .. Len(todo) : ~Mapped(root, child, leaf, todo[i])
       /\ \A p \in Memory : Mapped(root, child, leaf, p) \/ \E i \in 1 .. Len(todo) : todo[i] = p
  /\ pc \in {"array", "fill", "ready"} => \A p \in Memory : Mapped(root, child, leaf, p)

EptInv == TypeOK /\ TreeInv /\ StageInv /\ WalkInv /\ PagesInv
-----------------------------------------------------------------------------
(* What steps have in common.                                              *)

\* The variables of the tree, one by one.
LEMMA TreeSame ==
  ASSUME UNCHANGED tree
  PROVE  root' = root /\ child' = child /\ leaf' = leaf
BY DEF tree

\* The pool gives a table that is not in use.
LEMMA PoolGives ==
  ASSUME NEW t, TakeFromPool(t)
  PROVE  t \in TableIds /\ t \notin allocated /\ allocated' = allocated \union {t}
<1>1. FreeTables \in SUBSET Nat /\ FreeTables # {}
  BY TreeAssumption DEF FreeTables, TableIds, TakeFromPool
<1>2. \E u \in FreeTables : \A other \in FreeTables : u <= other
  BY <1>1, LeastElement
<1>3. NextFree \in FreeTables
  BY <1>2 DEF NextFree
<1>4. QED
  BY <1>3 DEF TakeFromPool, FreeTables

\* The fields of the call under way have their types.
LEMMA WalkFields ==
  ASSUME TypeOK
  PROVE  /\ walk.level \in 0 .. Levels /\ walk.table \in TableIds \union {NoTable}
         /\ walk.page \in Pages /\ walk.pool \in BOOLEAN
BY DEF TypeOK

\* No call is at level 0.
LEMMA NoWalkType ==
  /\ NoWalk \in [level : 0 .. Levels, table : TableIds \union {NoTable},
                 page : Pages, pool : BOOLEAN]
  /\ NoWalk.level = 0
<1>1. 0 \in Pages /\ 0 \in 0 .. Levels
  BY SpanType, SomeLevels DEF Pages
<1>2. QED
  BY <1>1 DEF NoWalk

\* A walk under way is NoWalk or has come to a table of the tree.
LEMMA WalkIdle ==
  ASSUME TypeOK, WalkInv
  PROVE  walk = NoWalk <=> walk.level = 0
BY NoWalkType DEF WalkInv

\* EptpDestructTables leaves nothing of what was allocated for the tree.
LEMMA Torn ==
  ASSUME TypeOK, NEW X, Destruct(X),
         allocated \subseteq TablesIn(root, child) \union X,
         preCount' \in Nat
  PROVE  /\ TreeInv' /\ root' = NoTable /\ allocated' = {}
         /\ pre' = <<>> /\ array' = FALSE
         /\ child' \in [TableIds -> [Slots -> TableIds \union {NoTable}]]
         /\ leaf' \in [TableIds -> [Slots -> LeafEntries]]
<1>1. /\ root' = NoTable /\ pre' = <<>> /\ array' = FALSE
      /\ child' = [t \in TableIds |-> [i \in Slots |-> NoTable]]
      /\ leaf' = [t \in TableIds |-> [i \in Slots |-> NoLeaf]]
      /\ allocated' = {}
  BY TreeIsIn DEF Destruct
<1>2. Shape(root', child', leaf')
  BY <1>1, EmptyShape
<1>3. TablesIn(root', child') = {}
  BY <1>1, NoTree
<1>4. UnusedPreallocated(preCount)' = {}
  <2>1. Len(pre') = 0
    BY <1>1
  <2>2. \A i : i \notin (preCount' + 1) .. Len(pre')
    BY <2>1
  <2>3. QED BY <2>2 DEF UnusedPreallocated
<1>5. TreeInv'
  BY <1>1, <1>2, <1>3, <1>4 DEF TreeInv
<1>6. QED
  BY <1>1, <1>2, <1>5 DEF Shape, TreeType

\* After EptpDestructTables every variable has its type.
LEMMA TornType ==
  ASSUME TypeOK, root' = NoTable, allocated' = {}, pre' = <<>>, array' = FALSE,
         child' \in [TableIds -> [Slots -> TableIds \union {NoTable}]],
         leaf' \in [TableIds -> [Slots -> LeafEntries]],
         preCount' \in Nat, pc' \in Pcs, walk' = walk \/ walk' = NoWalk,
         UNCHANGED <<mtrrs, stored, todo, faults, starts>>
  PROVE  TypeOK'
<1>1. pre' \in Seq(TableIds) /\ Len(pre') <= NumPreallocated
  BY TreeAssumption
<1>2. walk' \in [level : 0 .. Levels, table : TableIds \union {NoTable},
                page : Pages, pool : BOOLEAN]
  BY NoWalkType DEF TypeOK
<1>3. array' \in BOOLEAN /\ allocated' \subseteq TableIds
  OBVIOUS
<1>4. QED
  BY <1>1, <1>2, <1>3 DEF TypeOK, LeafEntries

\* The inductive invariant holds at the start.
LEMMA InitInv == Init => EptInv
<1> SUFFICES ASSUME Init PROVE EptInv
  OBVIOUS
<1>1. Shape(root, child, leaf)
  BY EmptyShape DEF Init
<1>2. TablesIn(root, child) = {}
  BY NoTree DEF Init
<1>3. UnusedPreallocated(preCount) = {}
  BY DEF Init, UnusedPreallocated
<1>4. TreeInv
  BY <1>1, <1>2, <1>3 DEF TreeInv, Init
<1>5. todo \in Seq(Pages) /\ \A i, j \in 1 .. Len(todo) : todo[i] = todo[j] => i = j
  BY PagesAssumption DEF Init
<1>6. TypeOK
  <2>1. stored \in Seq([fixed : BOOLEAN, type : MemoryTypes, first : Nat, last : Nat])
    <3> DEFINE V == [fixed : BOOLEAN, type : MemoryTypes, first : Nat, last : Nat]
    <3>1. <<>> \in Seq(V)
      <4> HIDE DEF V
      <4> QED OBVIOUS
    <3>2. QED BY <3>1 DEF Init
  <2>2. pre \in Seq(TableIds) /\ Len(pre) <= NumPreallocated
    BY TreeAssumption DEF Init
  <2>3. walk \in [level : 0 .. Levels, table : TableIds \union {NoTable},
                 page : Pages, pool : BOOLEAN]
    BY NoWalkType DEF Init
  <2>4. /\ mtrrs \in MtrrChoices /\ pc \in Pcs /\ allocated \subseteq TableIds
        /\ preCount \in Nat /\ array \in BOOLEAN
    BY DEF Init, Pcs
  <2>6. faults \in 0 .. MaxFaults /\ starts \in 1 .. MaxStarts
    BY TreeAssumption DEF Init
  <2>5. QED BY <1>1, <1>5, <2>1, <2>2, <2>3, <2>4, <2>6 DEF TypeOK, Shape, TreeType, LeafEntries
<1>7. StageInv
  BY DEF StageInv, Init
<1>8. WalkInv
  BY NoWalkType DEF WalkInv, Init
<1>9. PagesInv
  BY <1>5 DEF PagesInv, Init
<1>10. QED
  BY <1>4, <1>6, <1>7, <1>8, <1>9 DEF EptInv
-----------------------------------------------------------------------------
(* Each step preserves the invariant.                                      *)

\* Parts of the invariant that a step leaves alone which changes neither the
\* tree nor what is preallocated.
LEMMA TreeInvSame ==
  ASSUME TreeInv, UNCHANGED <<tree, pre, preCount, allocated>>
  PROVE  TreeInv'
<1>1. UnusedPreallocated(preCount)' = UnusedPreallocated(preCount)
  BY DEF UnusedPreallocated
<1>2. QED
  BY <1>1 DEF TreeInv, tree

\* One lemma per action: the step preserves the inductive invariant.
LEMMA InitializeMtrrEntriesStep ==
  ASSUME EptInv, EptInitializeMtrrEntries
  PROVE  EptInv'
<1> USE DEF EptInitializeMtrrEntries, EptInv
<1>1. stored' \in Seq(MtrrEntries)
  BY OverwrittenType DEF TypeOK, MtrrEntries
<1>2. TypeOK'
  BY <1>1 DEF TypeOK, MtrrEntries, tree, preallocation, Pcs
<1>3. TreeInv'
  BY TreeInvSame DEF preallocation
<1>4. StageInv'
  BY DEF StageInv, tree, preallocation
<1>5. WalkInv'
  BY TreeSame DEF WalkInv
<1>6. PagesInv'
  BY TreeSame DEF PagesInv
<1>7. QED
  BY <1>2, <1>3, <1>4, <1>5, <1>6

LEMMA AllocatePml4Step ==
  ASSUME EptInv, AllocatePml4
  PROVE  EptInv'
<1> USE DEF EptInv
<1>0. /\ pc = "pml4" /\ root = NoTable /\ pre = <<>> /\ ~array /\ preCount = 0
      /\ UNCHANGED <<mtrrs, stored, todo, child, leaf, preallocation, walk, faults, starts>>
      /\ walk.level = 0
      /\ todo = Append(RamPages, ApicPage)
  BY DEF AllocatePml4, StageInv, WalkInv, PagesInv
<1>1. CASE pc' = "failed" /\ UNCHANGED <<allocated, root>>
  <2>1. UNCHANGED tree
    BY <1>0, <1>1 DEF tree
  <2>2. TypeOK'
    BY <1>0, <1>1 DEF TypeOK, preallocation, Pcs
  <2>3. TreeInv'
    BY <1>0, <1>1, <2>1, TreeInvSame DEF preallocation
  <2>4. StageInv' /\ WalkInv' /\ PagesInv'
    BY <1>0, <1>1 DEF StageInv, WalkInv, PagesInv, preallocation
  <2>5. QED BY <2>2, <2>3, <2>4
<1>2. ASSUME NEW t \in TableIds, TakeFromPool(t), root' = t, pc' = "map"
      PROVE  EptInv'
  <2>1. t \notin allocated /\ allocated' = allocated \union {t}
    BY <1>2, PoolGives
  <2>2. /\ Shape(t, child, leaf) /\ TablesIn(t, child) = {t}
        /\ \A p \in Pages : EntryIn(t, child, leaf, p) = NoLeaf
    BY <1>0, RootShape DEF TreeInv
  <2>3. Shape(root', child', leaf')  /\ TablesIn(root', child') = {t}
    BY <1>0, <1>2, <2>2
  <2>4. \A p \in Pages : ~Mapped(root', child', leaf', p)
    BY <1>0, <1>2, <2>2, NoLeafType DEF Mapped
  <2>5. UnusedPreallocated(preCount) = {} /\ UnusedPreallocated(preCount)' = {}
    BY <1>0 DEF UnusedPreallocated, preallocation
  <2>6. allocated' = {t}
    BY <1>0, <2>1, <2>5, NoTree DEF TreeInv
  <2>7. TreeInv'
    BY <1>0, <2>3, <2>5, <2>6 DEF TreeInv, preallocation
  <2>8. TypeOK'
    BY <1>0, <1>2, <2>6 DEF TypeOK, preallocation, Pcs
  <2>9. StageInv'
    BY <1>0, <1>2, NoTableIsNone DEF StageInv, preallocation
  <2>10. WalkInv'
    BY <1>0 DEF WalkInv
  <2>11. PagesInv'
    <3>1. todo' = Append(RamPages, ApicPage) /\ RamPages \in Seq(Pages)
      BY <1>0, PagesAssumption
    <3>2. todo' # <<>> /\ \A i \in 1 .. Len(todo') : todo'[i] \in Pages
      BY <3>1, PagesAssumption
    <3>3. \A p \in Memory : \E i \in 1 .. Len(todo') : todo'[i] = p
      <4> TAKE p \in Memory
      <4>1. CASE p = ApicPage
        <5>1. Len(RamPages) + 1 \in 1 .. Len(todo') /\ todo'[Len(RamPages) + 1] = p
          BY <3>1, <4>1
        <5>2. QED BY <5>1
      <4>2. ASSUME NEW i \in 1 .. Len(RamPages), p = RamPages[i]
            PROVE  \E j \in 1 .. Len(todo') : todo'[j] = p
        <5>1. i \in 1 .. Len(todo') /\ todo'[i] = p
          BY <3>1, <4>2
        <5>2. QED BY <5>1
      <4>3. QED BY <4>1, <4>2 DEF Memory
    <3>4. \A i, j \in 1 .. Len(todo') : todo'[i] = todo'[j] => i = j
      BY <1>0 DEF PagesInv
    <3>5. QED BY <1>2, <2>4, <3>2, <3>3, <3>4 DEF PagesInv
  <2>12. QED BY <2>7, <2>8, <2>9, <2>10, <2>11
<1>3. QED
  BY <1>1, <1>2 DEF AllocatePml4

LEMMA MapNextPageStep ==
  ASSUME EptInv, MapNextPage
  PROVE  EptInv'
<1> USE DEF EptInv
<1>0. /\ pc = "map" /\ todo # <<>> /\ todo \in Seq(Pages) /\ root # NoTable
      /\ walk' = [level |-> Levels, table |-> root, page |-> Head(todo), pool |-> TRUE]
      /\ UNCHANGED <<mtrrs, stored, pc, todo, allocated, tree, preallocation, faults, starts>>
  BY DEF MapNextPage, PagesInv, TypeOK, StageInv
<1>1. Head(todo) = todo[1] /\ 1 \in 1 .. Len(todo) /\ Head(todo) \in Pages
  BY <1>0
<1>2. /\ walk'.level = Levels /\ walk'.table = root /\ walk'.page = Head(todo)
      /\ walk'.pool = TRUE
  BY <1>0
<1>3. root \in TableIds \union {NoTable}
  BY DEF TypeOK
<1>4. TypeOK'
  <2>1. walk' \in [level : 0 .. Levels, table : TableIds \union {NoTable},
                   page : Pages, pool : BOOLEAN]
    BY <1>0, <1>1, <1>3, SomeLevels
  <2>2. QED BY <1>0, <2>1 DEF TypeOK, tree, preallocation
<1>5. TreeInv'
  BY <1>0, TreeInvSame DEF preallocation
<1>6. StageInv'
  BY <1>0 DEF StageInv, tree, preallocation
<1>7. WalkInv'
  <2>2. PathIn(root, child, Head(todo))[Levels] = root
    BY PathIs
  <2>3. ~Mapped(root, child, leaf, Head(todo))
    BY <1>0, <1>1 DEF PagesInv
  <2>4. root' = root /\ child' = child /\ leaf' = leaf
    BY <1>0, TreeSame
  <2>6. QED
    BY <1>0, <1>2, <2>2, <2>3, <2>4, SomeLevels DEF WalkInv
<1>8. PagesInv'
  BY <1>0, TreeSame DEF PagesInv
<1>9. QED
  BY <1>4, <1>5, <1>6, <1>7, <1>8

LEMMA AllocateArrayStep ==
  ASSUME EptInv, AllocateArray
  PROVE  EptInv'
<1> USE DEF EptInv
<1>0. /\ pc = "array" /\ root # NoTable /\ pre = <<>> /\ preCount = 0
      /\ walk.level = 0 /\ walk = NoWalk
      /\ UNCHANGED <<mtrrs, stored, todo, preCount, walk, faults, starts>>
  BY DEF AllocateArray, StageInv, WalkInv
<1>1. CASE /\ array' = TRUE
           /\ pc' = IF NumPreallocated = 0 THEN "ready" ELSE "fill"
           /\ UNCHANGED <<allocated, tree, pre>>
  <2>1. TypeOK'
    BY <1>0, <1>1 DEF TypeOK, tree, Pcs
  <2>2. TreeInv'
    BY <1>0, <1>1, TreeInvSame
  <2>3. StageInv'
    BY <1>0, <1>1, TreeAssumption DEF StageInv, tree
  <2>4. WalkInv'
    BY <1>0 DEF WalkInv
  <2>5. PagesInv'
    BY <1>0, <1>1 DEF PagesInv, tree
  <2>6. QED BY <2>1, <2>2, <2>3, <2>4, <2>5
<1>2. CASE pc' = "failed" /\ Destruct({})
  <2>1. UnusedPreallocated(preCount) = {}
    BY <1>0 DEF UnusedPreallocated
  <2>2. allocated \subseteq TablesIn(root, child) \union {} /\ preCount' \in Nat
    BY <1>0, <2>1 DEF TreeInv
  <2>3. /\ TreeInv' /\ root' = NoTable /\ allocated' = {}
        /\ pre' = <<>> /\ array' = FALSE
        /\ child' \in [TableIds -> [Slots -> TableIds \union {NoTable}]]
        /\ leaf' \in [TableIds -> [Slots -> LeafEntries]]
    BY <1>2, <2>2, Torn
  <2>4. TypeOK'
    BY <1>0, <1>2, <2>2, <2>3, TornType DEF Pcs
  <2>5. StageInv' /\ WalkInv' /\ PagesInv'
    BY <1>0, <1>2, <2>3 DEF StageInv, WalkInv, PagesInv
  <2>6. QED BY <2>3, <2>4, <2>5
<1>3. QED
  BY <1>1, <1>2 DEF AllocateArray

LEMMA FillPreallocatedStep ==
  ASSUME EptInv, FillPreallocated
  PROVE  EptInv'
<1> USE DEF EptInv
<1>0. /\ pc = "fill" /\ root # NoTable /\ preCount = 0
      /\ walk.level = 0 /\ walk = NoWalk
      /\ pre \in Seq(TableIds) /\ Len(pre) < NumPreallocated
      /\ UNCHANGED <<mtrrs, stored, todo, preCount, walk, faults, starts>>
  BY DEF FillPreallocated, StageInv, WalkInv, TypeOK
<1>a. UnusedPreallocated(preCount) = {pre[i] : i \in 1 .. Len(pre)}
  BY <1>0 DEF UnusedPreallocated
<1>1. ASSUME NEW t \in TableIds, TakeFromPool(t), pre' = Append(pre, t),
             pc' = IF Len(pre) + 1 = NumPreallocated THEN "ready" ELSE "fill",
             UNCHANGED <<tree, array>>
      PROVE  EptInv'
  <2>1. t \notin allocated /\ allocated' = allocated \union {t}
    BY <1>1, PoolGives
  <2>2. /\ pre' \in Seq(TableIds) /\ Len(pre') = Len(pre) + 1
        /\ \A i \in 1 .. Len(pre) : pre'[i] = pre[i]
        /\ pre'[Len(pre) + 1] = t
    BY <1>0, <1>1
  <2>3. UnusedPreallocated(preCount)' = UnusedPreallocated(preCount) \union {t}
    <3>1. UnusedPreallocated(preCount)' = {pre'[i] : i \in 1 .. Len(pre')}
      BY <1>0 DEF UnusedPreallocated
    <3>2. \A i \in 1 .. Len(pre') : pre'[i] = t \/ (i \in 1 .. Len(pre) /\ pre'[i] = pre[i])
      BY <1>0, <2>2
    <3>3. Len(pre) + 1 \in 1 .. Len(pre') /\ 1 .. Len(pre) \subseteq 1 .. Len(pre')
      BY <1>0, <2>2
    <3>4. QED BY <1>a, <2>2, <3>1, <3>2, <3>3
  <2>4. t \notin UnusedPreallocated(preCount) /\ t \notin TablesIn(root, child)
    BY <2>1 DEF TreeInv
  <2>5. \A i, j \in 1 .. Len(pre') : pre'[i] = pre'[j] => i = j
    <3>1. \A i \in 1 .. Len(pre) : pre[i] # t
      BY <1>a, <2>4
    <3>2. \A i \in 1 .. Len(pre') : i = Len(pre) + 1 \/ i \in 1 .. Len(pre)
      BY <1>0, <2>2
    <3>3. QED BY <3>1, <3>2, <2>2 DEF TreeInv
  <2>6. TreeInv'
    BY <1>1, <2>1, <2>3, <2>4, <2>5 DEF TreeInv, tree
  <2>7. TypeOK'
    BY <1>0, <1>1, <2>1, <2>2, TreeAssumption DEF TypeOK, tree, Pcs
  <2>8. StageInv'
    BY <1>0, <1>1, <2>2, TreeAssumption DEF StageInv, tree
  <2>9. WalkInv' /\ PagesInv'
    BY <1>0, <1>1 DEF WalkInv, PagesInv, tree
  <2>10. QED BY <2>6, <2>7, <2>8, <2>9
<1>2. CASE pc' = "failed" /\ Destruct(UnusedPreallocated(0))
  <2>2. allocated \subseteq TablesIn(root, child) \union UnusedPreallocated(0) /\ preCount' \in Nat
    BY <1>0 DEF TreeInv
  <2>3. /\ TreeInv' /\ root' = NoTable /\ allocated' = {}
        /\ pre' = <<>> /\ array' = FALSE
        /\ child' \in [TableIds -> [Slots -> TableIds \union {NoTable}]]
        /\ leaf' \in [TableIds -> [Slots -> LeafEntries]]
    BY <1>2, <2>2, Torn
  <2>4. TypeOK'
    BY <1>0, <1>2, <2>2, <2>3, TornType DEF Pcs
  <2>5. StageInv' /\ WalkInv' /\ PagesInv'
    BY <1>0, <1>2, <2>3 DEF StageInv, WalkInv, PagesInv
  <2>6. QED BY <2>3, <2>4, <2>5
<1>3. QED
  BY <1>1, <1>2 DEF FillPreallocated

LEMMA DescendStep ==
  ASSUME EptInv, Descend
  PROVE  EptInv'
<1> USE DEF EptInv
<1> DEFINE next == child[walk.table][Index(walk.level, walk.page)]
<1>0. /\ walk.level \in 2 .. Levels /\ next # NoTable
      /\ walk' = [walk EXCEPT !.level = @ - 1, !.table = next]
      /\ UNCHANGED <<mtrrs, stored, pc, todo, allocated, tree, preallocation, faults, starts>>
      /\ root' = root /\ child' = child /\ leaf' = leaf
  BY WalkFields DEF Descend, tree
<1>1. /\ walk.table = PathIn(root, child, walk.page)[walk.level]
      /\ walk.table # NoTable /\ walk.level # 0
  BY <1>0 DEF WalkInv
<1>2. PathIn(root, child, walk.page)[walk.level - 1] = next
  BY <1>0, <1>1, NextOnPath
<1>3. next \in TableIds
  <2>1. walk.table \in TableIds /\ Index(walk.level, walk.page) \in Slots
    BY <1>0, <1>1, WalkFields, IndexType, SomeLevels
  <2>2. QED BY <1>0, <2>1 DEF TypeOK
<1> HIDE DEF next
<1>4. /\ walk'.level = walk.level - 1 /\ walk'.table = next
      /\ walk'.page = walk.page /\ walk'.pool = walk.pool
      /\ walk' \in [level : 0 .. Levels, table : TableIds \union {NoTable},
                    page : Pages, pool : BOOLEAN]
  <2>1. walk.level - 1 \in 0 .. Levels
    BY <1>0, SomeLevels
  <2>2. walk' = [level |-> walk.level - 1, table |-> next,
                 page |-> walk.page, pool |-> walk.pool]
    BY <1>0 DEF TypeOK
  <2>3. QED BY <1>3, <2>1, <2>2, WalkFields
<1>5. TypeOK'
  BY <1>0, <1>4 DEF TypeOK, tree, preallocation
<1>6. TreeInv'
  BY <1>0, TreeInvSame DEF preallocation
<1>7. StageInv'
  BY <1>0 DEF StageInv, tree, preallocation
<1>8. WalkInv'
  BY <1>0, <1>1, <1>2, <1>3, <1>4, NoTableIsNone DEF WalkInv
<1>9. PagesInv'
  BY <1>0 DEF PagesInv
<1>10. QED
  BY <1>5, <1>6, <1>7, <1>8, <1>9

LEMMA AllocationFailsStep ==
  ASSUME EptInv, AllocationFails
  PROVE  EptInv'
<1> USE DEF EptInv
<1>0. /\ walk.level # 0 /\ walk' = NoWalk /\ walk'.level = 0
      /\ walk.pool \/ preCount >= NumPreallocated
      /\ UNCHANGED <<mtrrs, stored, todo, faults, starts>>
      /\ pc \in {"map", "ready"} /\ (walk.pool <=> pc = "map")
  BY NoWalkType, WalkFields DEF AllocationFails, WalkInv
<1>1. CASE pc = "map" /\ pc' = "failed" /\ Destruct({}) /\ UNCHANGED preCount
  <2>1. UnusedPreallocated(preCount) = {}
    BY <1>1 DEF UnusedPreallocated, StageInv
  <2>2. allocated \subseteq TablesIn(root, child) \union {} /\ preCount' \in Nat
    BY <1>1, <2>1 DEF TreeInv, TypeOK
  <2>3. /\ TreeInv' /\ root' = NoTable /\ allocated' = {}
        /\ pre' = <<>> /\ array' = FALSE
        /\ child' \in [TableIds -> [Slots -> TableIds \union {NoTable}]]
        /\ leaf' \in [TableIds -> [Slots -> LeafEntries]]
    BY <1>1, <2>2, Torn
  <2>4. TypeOK'
    BY <1>0, <1>1, <2>2, <2>3, TornType DEF Pcs
  <2>5. StageInv' /\ WalkInv' /\ PagesInv'
    BY <1>0, <1>1, <2>3 DEF StageInv, WalkInv, PagesInv
  <2>6. QED BY <2>3, <2>4, <2>5
<1>2. CASE pc # "map" /\ preCount' = preCount + 1
           /\ UNCHANGED <<pc, allocated, tree, pre, array>>
  <2>1. pc = "ready" /\ preCount >= NumPreallocated /\ Len(pre) = NumPreallocated
        /\ preCount \in Nat
    BY <1>0, <1>2 DEF StageInv, TypeOK
  <2>2. UnusedPreallocated(preCount) = {} /\ UnusedPreallocated(preCount)' = {}
    <3>1. \A i : i \notin (preCount + 1) .. Len(pre) /\ i \notin (preCount' + 1) .. Len(pre')
      BY <1>2, <2>1, TreeAssumption
    <3>2. QED BY <3>1 DEF UnusedPreallocated
  <2>3. TreeInv'
    BY <1>2, <2>2 DEF TreeInv, tree
  <2>4. TypeOK'
    BY <1>0, <1>2, NoWalkType DEF TypeOK, tree
  <2>5. StageInv'
    BY <1>2, <2>1 DEF StageInv, tree
  <2>6. WalkInv' /\ PagesInv'
    BY <1>0, <1>2, <2>1 DEF WalkInv, PagesInv, tree
  <2>7. QED BY <2>3, <2>4, <2>5, <2>6
<1>3. QED
  BY <1>1, <1>2 DEF AllocationFails

LEMMA HandleMissStep ==
  ASSUME EptInv, NEW page \in Touched, HandleMiss(page)
  PROVE  EptInv'
<1> USE DEF EptInv
<1>0. /\ pc = "ready" /\ root # NoTable /\ faults < MaxFaults
      /\ ~Mapped(root, child, leaf, page)
      /\ walk' = [level |-> Levels, table |-> root, page |-> page, pool |-> FALSE]
      /\ faults' = faults + 1
      /\ UNCHANGED <<mtrrs, stored, pc, todo, allocated, tree, preallocation, starts>>
      /\ root' = root /\ child' = child /\ leaf' = leaf
  BY EntryIsIn DEF HandleMiss, StageInv, Mapped, tree
<1>1. page \in DevicePages /\ page \in Pages
  BY <1>0, PagesAssumption DEF Touched, PagesInv, Memory
<1>2. /\ walk'.level = Levels /\ walk'.table = root /\ walk'.page = page
      /\ walk'.pool = FALSE
      /\ walk' \in [level : 0 .. Levels, table : TableIds \union {NoTable},
                    page : Pages, pool : BOOLEAN]
  BY <1>0, <1>1, SomeLevels DEF TypeOK
<1>3. TypeOK'
  <2>1. faults' \in 0 .. MaxFaults
    BY <1>0, TreeAssumption DEF TypeOK
  <2>2. QED BY <1>0, <1>2, <2>1 DEF TypeOK, tree, preallocation
<1>4. TreeInv'
  BY <1>0, TreeInvSame DEF preallocation
<1>5. StageInv'
  BY <1>0 DEF StageInv, preallocation
<1>6. WalkInv'
  BY <1>0, <1>1, <1>2, PathIs, SomeLevels DEF WalkInv
<1>7. PagesInv'
  BY <1>0 DEF PagesInv
<1>8. QED
  BY <1>3, <1>4, <1>5, <1>6, <1>7

LEMMA EptTerminationStep ==
  ASSUME EptInv, EptTermination
  PROVE  EptInv'
<1> USE DEF EptInv
<1>0. /\ pc = "ready" /\ pc' = "freed" /\ walk.level = 0 /\ walk = NoWalk
      /\ Destruct(UnusedPreallocated(preCount))
      /\ UNCHANGED <<mtrrs, stored, todo, preCount, walk, faults, starts>>
  BY WalkIdle DEF EptTermination
<1>1. /\ allocated \subseteq TablesIn(root, child) \union UnusedPreallocated(preCount)
      /\ preCount' \in Nat
  BY <1>0 DEF TreeInv, TypeOK
<1>2. /\ TreeInv' /\ root' = NoTable /\ allocated' = {}
      /\ pre' = <<>> /\ array' = FALSE
      /\ child' \in [TableIds -> [Slots -> TableIds \union {NoTable}]]
      /\ leaf' \in [TableIds -> [Slots -> LeafEntries]]
  BY <1>0, <1>1, Torn
<1>3. TypeOK'
  BY <1>0, <1>1, <1>2, TornType DEF Pcs
<1>4. StageInv' /\ WalkInv' /\ PagesInv'
  BY <1>0, <1>2 DEF StageInv, WalkInv, PagesInv
<1>5. QED
  BY <1>2, <1>3, <1>4

LEMMA StartAgainStep ==
  ASSUME EptInv, StartAgain
  PROVE  EptInv'
<1> USE DEF EptInv
<1>0. /\ pc \in {"freed", "failed"} /\ pc' = "mtrrs" /\ starts < MaxStarts
      /\ mtrrs' \in MtrrChoices /\ todo' = Append(RamPages, ApicPage)
      /\ preCount' = 0 /\ faults' = 0 /\ starts' = starts + 1
      /\ UNCHANGED <<stored, allocated, tree, pre, array, walk>>
      /\ root' = root /\ child' = child /\ leaf' = leaf
      /\ walk.level = 0 /\ walk = NoWalk /\ root = NoTable /\ pre = <<>> /\ ~array
  BY DEF StartAgain, tree, WalkInv, StageInv
<1>1. /\ todo' \in Seq(Pages)
      /\ \A i, j \in 1 .. Len(todo') : todo'[i] = todo'[j] => i = j
  BY <1>0, PagesAssumption
<1>2. TypeOK'
  <2>1. faults' \in 0 .. MaxFaults /\ starts' \in 1 .. MaxStarts
    BY <1>0, TreeAssumption DEF TypeOK
  <2>2. QED BY <1>0, <1>1, <2>1 DEF TypeOK, Pcs
<1>3. TreeInv'
  <2>1. UnusedPreallocated(preCount) = {} /\ UnusedPreallocated(preCount)' = {}
    <3>1. preCount \in Nat /\ Len(pre) = 0 /\ Len(pre') = 0
      BY <1>0 DEF TypeOK
    <3>2. \A i : i \notin (preCount + 1) .. Len(pre) /\ i \notin (preCount' + 1) .. Len(pre')
      BY <1>0, <3>1
    <3>3. QED BY <3>2 DEF UnusedPreallocated
  <2>2. QED BY <1>0, <2>1 DEF TreeInv
<1>4. StageInv' /\ WalkInv'
  BY <1>0 DEF StageInv, WalkInv
<1>5. PagesInv'
  BY <1>0, <1>1 DEF PagesInv
<1>6. QED
  BY <1>2, <1>3, <1>4, <1>5

\* Wherever a table comes from, it is new, and what waits stays apart.
LEMMA AllocateStep ==
  ASSUME TypeOK, TreeInv, StageInv, WalkInv, walk.level # 0,
         NEW t \in TableIds, EptpAllocateEptEntry(t), pre' = pre
  PROVE  /\ t \notin TablesIn(root, child)
         /\ allocated' = TablesIn(root, child) \union {t} \union UnusedPreallocated(preCount)'
         /\ t \notin UnusedPreallocated(preCount)'
         /\ UnusedPreallocated(preCount)' \intersect TablesIn(root, child) = {}
         /\ preCount' \in Nat /\ (pc # "ready" => preCount' = preCount)
<1>0. pre \in Seq(TableIds) /\ preCount \in Nat /\ (walk.pool <=> pc = "map")
      /\ pc \in {"map", "ready"} /\ (pc = "ready" => Len(pre) = NumPreallocated)
  BY DEF TypeOK, StageInv, WalkInv
<1>1. ASSUME TakeFromPool(t), UnusedPreallocated(preCount)' = UnusedPreallocated(preCount)
      PROVE  /\ t \notin TablesIn(root, child)
             /\ allocated' = TablesIn(root, child) \union {t} \union UnusedPreallocated(preCount)'
             /\ t \notin UnusedPreallocated(preCount)'
             /\ UnusedPreallocated(preCount)' \intersect TablesIn(root, child) = {}
  <2>1. t \notin allocated /\ allocated' = allocated \union {t}
    BY <1>1, PoolGives
  <2>2. QED BY <1>1, <2>1 DEF TreeInv
<1>2. CASE walk.pool
  <2>1. TakeFromPool(t) /\ preCount' = preCount
    BY <1>2 DEF EptpAllocateEptEntry
  <2>2. UnusedPreallocated(preCount)' = UnusedPreallocated(preCount)
    BY <2>1 DEF UnusedPreallocated
  <2>3. QED BY <1>0, <1>1, <2>1, <2>2
<1>3. CASE ~walk.pool
  <2>0. pc = "ready" /\ Len(pre) = NumPreallocated /\ preCount' = preCount + 1
    BY <1>0, <1>3 DEF EptpAllocateEptEntry, TakePreallocated
  <2>1. CASE preCount < NumPreallocated
    <3>1. t = pre[preCount + 1] /\ allocated' = allocated
          /\ preCount + 1 \in 1 .. Len(pre)
      BY <1>0, <1>3, <2>0, <2>1, TreeAssumption DEF EptpAllocateEptEntry, TakePreallocated
    <3>2. /\ UnusedPreallocated(preCount) = {pre[i] : i \in (preCount + 1) .. Len(pre)}
          /\ UnusedPreallocated(preCount)' = {pre[i] : i \in (preCount + 2) .. Len(pre)}
      BY <1>0, <2>0 DEF UnusedPreallocated
    <3>3. \A i \in (preCount + 1) .. Len(pre) :
            i = preCount + 1 \/ i \in (preCount + 2) .. Len(pre)
      BY <1>0
    <3>4. \A i \in (preCount + 2) .. Len(pre) :
            i # preCount + 1 /\ i \in (preCount + 1) .. Len(pre) /\ i \in 1 .. Len(pre)
      BY <1>0
    <3>5. t \in UnusedPreallocated(preCount)
      BY <1>0, <3>1, <3>2
    <3>6. UnusedPreallocated(preCount) = {t} \union UnusedPreallocated(preCount)'
      BY <3>1, <3>2, <3>3, <3>4, <3>5
    <3>7. t \notin UnusedPreallocated(preCount)'
      BY <3>1, <3>2, <3>4 DEF TreeInv
    <3>8. QED BY <1>0, <2>0, <3>1, <3>5, <3>6, <3>7 DEF TreeInv
  <2>2. CASE ~(preCount < NumPreallocated)
    <3>1. TakeFromPool(t)
      BY <1>3, <2>2 DEF EptpAllocateEptEntry, TakePreallocated
    <3>2. UnusedPreallocated(preCount)' = UnusedPreallocated(preCount)
      <4>1. \A i : i \notin (preCount + 1) .. Len(pre) /\ i \notin (preCount' + 1) .. Len(pre')
        BY <1>0, <2>0, <2>2, TreeAssumption
      <4>2. QED BY <4>1 DEF UnusedPreallocated
    <3>3. QED BY <1>0, <1>1, <2>0, <3>1, <3>2
  <2>3. QED BY <2>1, <2>2
<1>4. QED
  BY <1>2, <1>3, <1>0

\* What AddTable does to the tree.
LEMMA AddTableTree ==
  ASSUME EptInv, AddTable
  PROVE  \E t \in TableIds :
           /\ EptpAllocateEptEntry(t)
           /\ walk'.level = walk.level - 1 /\ walk'.table = t
           /\ walk'.page = walk.page /\ walk'.pool = walk.pool
           /\ walk' \in [level : 0 .. Levels, table : TableIds \union {NoTable},
                         page : Pages, pool : BOOLEAN]
           /\ walk.level \in 2 .. Levels
           /\ t \notin TablesIn(root, child)
           /\ root' = root /\ leaf' = leaf /\ root # NoTable
           /\ Shape(root', child', leaf')
           /\ TablesIn(root', child') = TablesIn(root, child) \union {t}
           /\ PathIn(root', child', walk'.page)[walk'.level] = t
           /\ \A q \in Pages : EntryIn(root', child', leaf', q) = EntryIn(root, child, leaf, q)
<1> USE DEF EptInv
<1> DEFINE w == walk.table
           s == Index(walk.level, walk.page)
<1>0. /\ walk.level \in 2 .. Levels /\ child[w][s] = NoTable
      /\ UNCHANGED <<mtrrs, stored, pc, todo, root, leaf, pre, array, faults, starts>>
      /\ walk.level # 0 /\ root # NoTable
      /\ w = PathIn(root, child, walk.page)[walk.level] /\ w # NoTable
      /\ Shape(root, child, leaf) /\ walk.page \in Pages
  BY WalkFields DEF AddTable, WalkInv, StageInv, TreeInv
<1>1. PICK t \in TableIds :
        /\ EptpAllocateEptEntry(t)
        /\ child' = [child EXCEPT ![w][s] = t]
        /\ walk' = [walk EXCEPT !.level = @ - 1, !.table = t]
  BY DEF AddTable
<1>2. t \notin TablesIn(root, child)
  BY <1>0, <1>1, AllocateStep
<1> HIDE DEF w, s
<1>3. Grown(root, child, child', w, s, t)
  BY <1>0, <1>1, <1>2, IsGrown DEF s
<1>4. /\ Shape(root, child', leaf)
      /\ TablesIn(root, child') = TablesIn(root, child) \union {t}
      /\ PathIn(root, child', walk.page)[walk.level - 1] = t
      /\ \A q \in Pages : EntryIn(root, child', leaf, q) = EntryIn(root, child, leaf, q)
  <2>1. PICK p \in Pages : p = walk.page
    BY <1>0
  <2>2. PICK l \in 2 .. Levels : l = walk.level
    BY <1>0
  <2>3. w = PathIn(root, child, p)[l] /\ w # NoTable /\ s = Index(l, p)
    BY <1>0, <2>1, <2>2 DEF s
  <2>4. /\ Shape(root, child', leaf)
        /\ TablesIn(root, child') = TablesIn(root, child) \union {t}
        /\ PathIn(root, child', p)[l - 1] = t
        /\ \A q \in Pages : EntryIn(root, child', leaf, q) = EntryIn(root, child, leaf, q)
    <3>1. PICK r, c, f, d, u : r = root /\ c = child /\ f = leaf /\ d = child' /\ u = w
      OBVIOUS
    <3>2. /\ Shape(r, c, f) /\ r # NoTable /\ Grown(r, c, d, u, s, t)
          /\ Place(r, c, p, l, u, s)
      BY <1>0, <1>3, <2>3, <3>1 DEF Place
    <3>3. /\ Shape(r, d, f)
          /\ TablesIn(r, d) = TablesIn(r, c) \union {t}
          /\ PathIn(r, d, p)[l - 1] = t
          /\ \A q \in Pages : EntryIn(r, d, f, q) = EntryIn(r, c, f, q)
      BY ONLY <3>2, p \in Pages, l \in 2 .. Levels, GrownShape
    <3>4. QED BY <3>1, <3>3
  <2>5. QED BY <2>1, <2>2, <2>4
<1>5. /\ walk'.level = walk.level - 1 /\ walk'.table = t
      /\ walk'.page = walk.page /\ walk'.pool = walk.pool
      /\ walk' \in [level : 0 .. Levels, table : TableIds \union {NoTable},
                    page : Pages, pool : BOOLEAN]
  <2>1. walk.level - 1 \in 0 .. Levels
    BY <1>0, SomeLevels
  <2>2. walk' = [level |-> walk.level - 1, table |-> t,
                 page |-> walk.page, pool |-> walk.pool]
    BY <1>1 DEF TypeOK
  <2>3. QED BY <2>1, <2>2, WalkFields
<1>6. QED
  BY <1>0, <1>1, <1>2, <1>4, <1>5

LEMMA AddTableStep ==
  ASSUME EptInv, AddTable
  PROVE  EptInv'
<1> USE DEF EptInv
<1>1. PICK t \in TableIds :
        /\ EptpAllocateEptEntry(t)
        /\ walk'.level = walk.level - 1 /\ walk'.table = t
        /\ walk'.page = walk.page /\ walk'.pool = walk.pool
        /\ walk' \in [level : 0 .. Levels, table : TableIds \union {NoTable},
                      page : Pages, pool : BOOLEAN]
        /\ walk.level \in 2 .. Levels
        /\ t \notin TablesIn(root, child)
        /\ root' = root /\ leaf' = leaf /\ root # NoTable
        /\ Shape(root', child', leaf')
        /\ TablesIn(root', child') = TablesIn(root, child) \union {t}
        /\ PathIn(root', child', walk'.page)[walk'.level] = t
        /\ \A q \in Pages : EntryIn(root', child', leaf', q) = EntryIn(root, child, leaf, q)
  BY AddTableTree
<1>2. /\ UNCHANGED <<mtrrs, stored, pc, todo, root, leaf, pre, array, faults, starts>>
      /\ walk.level # 0
  BY <1>1 DEF AddTable
<1>3. /\ allocated' = TablesIn(root, child) \union {t} \union UnusedPreallocated(preCount)'
      /\ t \notin UnusedPreallocated(preCount)'
      /\ UnusedPreallocated(preCount)' \intersect TablesIn(root, child) = {}
      /\ preCount' \in Nat /\ (pc # "ready" => preCount' = preCount)
  BY <1>1, <1>2, AllocateStep
<1>4. TreeInv'
  BY <1>1, <1>2, <1>3 DEF TreeInv
<1>5. TypeOK'
  <2>1. allocated' \subseteq TableIds
    <3>1. TablesIn(root', child') \subseteq TableIds
      BY <1>1, ReachedType DEF Shape
    <3>2. UnusedPreallocated(preCount)' \subseteq TableIds
      <4>1. \A i \in (preCount' + 1) .. Len(pre') : pre'[i] \in TableIds
        <5>1. pre' \in Seq(TableIds)
          BY <1>2 DEF TypeOK
        <5>2. \A i \in (preCount' + 1) .. Len(pre') : i \in 1 .. Len(pre')
          <6>1. PICK n \in Nat, k \in Nat : n = preCount' /\ k = Len(pre')
            BY <1>3, <5>1
          <6>2. \A i \in (n + 1) .. k : i \in 1 .. k
            BY ONLY n \in Nat, k \in Nat
          <6>3. QED BY <6>1, <6>2
        <5>3. QED BY <5>1, <5>2
      <4>2. QED BY <4>1 DEF UnusedPreallocated
    <3>3. QED BY <1>1, <1>3, <3>1, <3>2
  <2>2. child' \in [TableIds -> [Slots -> TableIds \union {NoTable}]]
    BY <1>1 DEF Shape, TreeType
  <2>3. QED BY <1>1, <1>2, <1>3, <2>1, <2>2 DEF TypeOK
<1>6. StageInv'
  BY <1>1, <1>2, <1>3 DEF StageInv
<1>7. \A q \in Pages : Mapped(root', child', leaf', q) <=> Mapped(root, child, leaf, q)
  BY <1>1 DEF Mapped
<1>8. WalkInv'
  BY <1>1, <1>2, <1>7, NoTableIsNone, WalkFields DEF WalkInv
<1>9. PagesInv'
  <2>1. \A i \in 1 .. Len(todo) : todo[i] \in Pages
    BY DEF TypeOK
  <2>2. Memory \subseteq Pages
    BY PagesAssumption DEF Memory
  <2>3. QED BY <1>2, <1>7, <2>1, <2>2 DEF PagesInv
<1>10. QED
  BY <1>4, <1>5, <1>6, <1>8, <1>9

\* What SetLeaf does to the tree.
LEMMA SetLeafTree ==
  ASSUME EptInv, SetLeaf
  PROVE  LET e == [present |-> TRUE, page |-> walk.page,
                   type |-> EptpGetMemoryType(stored, mtrrs.default, walk.page)] IN
         /\ Shape(root', child', leaf')
         /\ EntryIn(root', child', leaf', walk.page) = e
         /\ \A q \in Pages : q # walk.page =>
              EntryIn(root', child', leaf', q) = EntryIn(root, child, leaf, q)
<1> USE DEF EptInv
<1> DEFINE e == [present |-> TRUE, page |-> walk.page,
                 type |-> EptpGetMemoryType(stored, mtrrs.default, walk.page)]
<1>1. EptpGetMemoryType(stored, mtrrs.default, walk.page) \in MemoryTypes
  <2>1. stored \in Seq(MtrrEntries) /\ mtrrs.default \in MemoryTypes
    BY MtrrAssumption DEF TypeOK, MtrrEntries
  <2>2. QED BY <2>1, MemoryTypeType
<1>2. e \in LeafEntries /\ e.present
  BY <1>1, WalkFields DEF LeafEntries
<1>3. /\ walk.level = 1 /\ root' = root /\ child' = child
      /\ leaf' = [leaf EXCEPT ![walk.table][Index(1, walk.page)] = e]
  BY DEF SetLeaf
<1>4. /\ walk.table = PathIn(root, child, walk.page)[1] /\ walk.table # NoTable
      /\ walk.page \in Pages /\ Shape(root, child, leaf)
  BY <1>3, WalkFields DEF WalkInv, TreeInv
<1> HIDE DEF e
<1>5. /\ Shape(root, child, leaf')
      /\ EntryIn(root, child, leaf', walk.page) = e
      /\ \A q \in Pages : q # walk.page =>
           EntryIn(root, child, leaf', q) = EntryIn(root, child, leaf, q)
  <2>1. PICK p \in Pages : p = walk.page
    BY <1>4
  <2>2. PICK w : w = walk.table
    OBVIOUS
  <2>3. /\ w = PathIn(root, child, p)[1] /\ w # NoTable
        /\ leaf' = [leaf EXCEPT ![w][Index(1, p)] = e]
    BY <1>3, <1>4, <2>1, <2>2
  <2>4. /\ Shape(root, child, leaf')
        /\ EntryIn(root, child, leaf', p) = e
        /\ \A q \in Pages : q # p =>
             EntryIn(root, child, leaf', q) = EntryIn(root, child, leaf, q)
    <3>1. PICK r, c, f, g : r = root /\ c = child /\ f = leaf /\ g = leaf'
      OBVIOUS
    <3>2. /\ Shape(r, c, f) /\ Fills(f, g, w, Index(1, p), e)
          /\ Place(r, c, p, 1, w, Index(1, p))
      BY <1>2, <1>4, <2>3, <3>1 DEF Fills, Place
    <3>3. /\ Shape(r, c, g)
          /\ EntryIn(r, c, g, p) = e
          /\ \A q \in Pages : q # p => EntryIn(r, c, g, q) = EntryIn(r, c, f, q)
      BY ONLY <3>2, p \in Pages, FilledShape
    <3>4. QED BY <3>1, <3>3
  <2>5. QED BY <2>1, <2>4
<1>6. QED
  BY <1>3, <1>5 DEF e

LEMMA SetLeafStep ==
  ASSUME EptInv, SetLeaf
  PROVE  EptInv'
<1> USE DEF EptInv
<1>1. PICK p \in Pages : p = walk.page
  BY WalkFields
<1>2. /\ Shape(root', child', leaf')
      /\ Mapped(root', child', leaf', p)
      /\ \A q \in Pages : q # p =>
           (Mapped(root', child', leaf', q) <=> Mapped(root, child, leaf, q))
  BY <1>1, SetLeafTree DEF Mapped
<1>3. /\ walk.level = 1 /\ root' = root /\ child' = child /\ walk' = NoWalk
      /\ walk'.level = 0
      /\ UNCHANGED <<mtrrs, stored, allocated, root, child, preallocation, faults, starts>>
      /\ pc \in {"map", "ready"}
  BY NoWalkType DEF SetLeaf, WalkInv
<1>4. TreeInv'
  <2>1. UnusedPreallocated(preCount)' = UnusedPreallocated(preCount)
    BY <1>3 DEF UnusedPreallocated, preallocation
  <2>2. QED BY <1>2, <1>3, <2>1 DEF TreeInv, preallocation
<1>5. Memory \subseteq Pages /\ \A i \in 1 .. Len(todo) : todo[i] \in Pages
  BY PagesAssumption DEF Memory, TypeOK
<1>6. WalkInv'
  BY <1>3 DEF WalkInv
<1>7. CASE pc = "map"
  <2>1. /\ todo' = Tail(todo) /\ todo # <<>> /\ todo \in Seq(Pages) /\ todo[1] = p
        /\ pc' = IF Len(todo) = 1 THEN "array" ELSE "map"
    BY <1>1, <1>3, <1>7 DEF SetLeaf, PagesInv, WalkInv, TypeOK
  <2>2. /\ todo' \in Seq(Pages) /\ Len(todo') = Len(todo) - 1 /\ Len(todo) \in Nat
        /\ \A i \in 1 .. Len(todo') : todo'[i] = todo[i + 1]
    BY <2>1
  <2>3. TypeOK'
    BY <1>2, <1>3, <1>7, <2>1, <2>2, NoWalkType DEF TypeOK, preallocation, Shape, LeafEntries, Pcs
  <2>4. StageInv'
    BY <1>3, <1>7, <2>1 DEF StageInv, preallocation
  <2>5. \A i, j \in 1 .. Len(todo) : todo[i] = todo[j] => i = j
    BY DEF PagesInv
  <2>6. \A i, j \in 1 .. Len(todo') : todo'[i] = todo'[j] => i = j
    <3> TAKE i, j \in 1 .. Len(todo')
    <3>1. i + 1 \in 1 .. Len(todo) /\ j + 1 \in 1 .. Len(todo)
      BY <2>2
    <3>2. QED BY <2>2, <2>5, <3>1
  <2>7. \A q \in Memory : Mapped(root', child', leaf', q) \/ \E i \in 1 .. Len(todo') : todo'[i] = q
    <3> TAKE q \in Memory
    <3>1. CASE Mapped(root, child, leaf, q) \/ q = p
      BY <3>1, <1>2, <1>5
    <3>2. ASSUME NEW i \in 1 .. Len(todo), todo[i] = q, q # p
          PROVE  \E j \in 1 .. Len(todo') : todo'[j] = q
      <4>1. i # 1
        BY <2>1, <3>2
      <4>2. i - 1 \in 1 .. Len(todo') /\ (i - 1) + 1 = i
        BY <2>2, <4>1
      <4>3. QED BY <2>2, <3>2, <4>2
    <3>3. QED BY <3>1, <3>2, <1>7 DEF PagesInv
  <2>8. \A i \in 1 .. Len(todo') : ~Mapped(root', child', leaf', todo'[i])
    <3> TAKE i \in 1 .. Len(todo')
    <3>1. PICK k \in 1 .. Len(todo) : k = i + 1 /\ todo'[i] = todo[k]
      BY <2>2
    <3>2. 1 \in 1 .. Len(todo) /\ k # 1
      BY <2>2, <3>1
    <3>3. todo[k] # p /\ todo[k] \in Pages
      BY <1>5, <2>1, <2>5, <3>2
    <3>4. ~Mapped(root, child, leaf, todo[k])
      BY <1>7 DEF PagesInv
    <3>5. QED BY <1>2, <3>1, <3>3, <3>4
  <2>9. PagesInv'
    <3>1. CASE Len(todo) = 1
      <4>1. Len(todo') = 0 /\ pc' = "array"
        BY <2>1, <2>2, <3>1
      <4>2. \A q \in Memory : Mapped(root', child', leaf', q)
        BY <2>7, <4>1
      <4>3. QED BY <2>6, <4>1, <4>2 DEF PagesInv
    <3>2. CASE Len(todo) # 1
      <4>1. pc' = "map" /\ todo' # <<>>
        <5>1. Len(todo) # 0
          BY <2>1
        <5>2. Len(todo') # 0
          BY <2>2, <3>2, <5>1
        <5>3. QED BY <2>1, <3>2, <5>2
      <4>2. QED BY <2>6, <2>7, <2>8, <4>1 DEF PagesInv
    <3>3. QED BY <3>1, <3>2
  <2>10. QED BY <1>4, <1>6, <2>3, <2>4, <2>9
<1>8. CASE pc = "ready"
  <2>1. todo' = todo /\ pc' = pc
    BY <1>8 DEF SetLeaf
  <2>2. TypeOK'
    BY <1>2, <1>3, <2>1, NoWalkType DEF TypeOK, preallocation, Shape, LeafEntries
  <2>3. StageInv'
    BY <1>3, <1>8, <2>1 DEF StageInv, preallocation
  <2>4. PagesInv'
    BY <1>2, <1>5, <1>8, <2>1 DEF PagesInv
  <2>5. QED BY <1>4, <1>6, <2>2, <2>3, <2>4
<1>9. QED
  BY <1>3, <1>7, <1>8
-----------------------------------------------------------------------------
(* The theorems.                                                           *)

\* The inductive invariant holds in every state: whatever the number of
\* levels and entries, whatever memory there is, wherever an allocation fails.
THEOREM EptInvariant == Spec => []EptInv
<1>1. ASSUME EptInv, [Next]_vars PROVE EptInv'
  <2>1. CASE EptInitializeMtrrEntries
    BY <1>1, <2>1, InitializeMtrrEntriesStep
  <2>2. CASE AllocatePml4
    BY <1>1, <2>2, AllocatePml4Step
  <2>3. CASE MapNextPage
    BY <1>1, <2>3, MapNextPageStep
  <2>4. CASE AllocateArray
    BY <1>1, <2>4, AllocateArrayStep
  <2>5. CASE FillPreallocated
    BY <1>1, <2>5, FillPreallocatedStep
  <2>6. CASE Descend
    BY <1>1, <2>6, DescendStep
  <2>7. CASE AddTable
    BY <1>1, <2>7, AddTableStep
  <2>8. CASE AllocationFails
    BY <1>1, <2>8, AllocationFailsStep
  <2>9. CASE SetLeaf
    BY <1>1, <2>9, SetLeafStep
  <2>10. CASE \E page \in Touched : HandleMiss(page)
    BY <1>1, <2>10, HandleMissStep
  <2>11. CASE EptTermination
    BY <1>1, <2>11, EptTerminationStep
  <2>12. CASE StartAgain
    BY <1>1, <2>12, StartAgainStep
  <2>13. CASE UNCHANGED vars
    <3>1. UNCHANGED <<mtrrs, stored, pc, todo, allocated, root, child, leaf, pre, preCount,
                      array, walk, faults, starts>>
      BY <2>13 DEF vars
    <3>2. TypeOK'
      BY <1>1, <3>1 DEF EptInv, TypeOK
    <3>3. TreeInv'
      BY <1>1, <3>1 DEF EptInv, TreeInv, UnusedPreallocated
    <3>4. StageInv' /\ WalkInv' /\ PagesInv'
      BY <1>1, <3>1 DEF EptInv, StageInv, WalkInv, PagesInv
    <3>5. QED BY <3>2, <3>3, <3>4 DEF EptInv
  <2>14. QED
    BY <1>1, <2>1, <2>2, <2>3, <2>4, <2>5, <2>6, <2>7, <2>8, <2>9, <2>10,
       <2>11, <2>12, <2>13 DEF Next
<1>2. QED
  BY <1>1, InitInv, PTL DEF Spec

\* Every variable has its type, and preallocated_entries is never overrun.
THEOREM TypeCorrect == Spec => []TypeOK
<1>1. EptInv => TypeOK
  BY DEF EptInv
<1>2. QED
  BY <1>1, EptInvariant, PTL

\* Whatever the order in which pages get their entries, the tables form a
\* tree, so that EptpDestructTables frees each of them once.
THEOREM EveryTableOnceHolds == Spec => []EveryTableOnce
<1>1. ASSUME EptInv PROVE EveryTableOnce
  <2> DEFINE T == TablesIn(root, child)
             Parents(t) == {s \in T \X Slots : child[s[1]][s[2]] = t}
  <2>1. /\ Shape(root, child, leaf) /\ Unique(root, child)
        /\ TreeType(root, child) /\ T \subseteq TableIds
    BY <1>1, ReachedType DEF EptInv, TreeInv, Shape
  <2>2. ASSUME root \in T PROVE Parents(root) = {}
    <3>1. root # NoTable
      BY <2>1, <2>2, NoTableIsNone
    <3>2. \A u \in T : \A i \in Slots : child[u][i] # root
      BY <2>1, <3>1 DEF Unique
    <3>3. QED BY <3>2
  <2>3. ASSUME NEW t \in T, t # root PROVE \E s : Parents(t) = {s}
    <3>1. PICK l \in 1 .. Levels : t \in ReachedIn(root, child)[l]
      BY DEF TablesIn
    <3>2. l \in 1 .. Levels - 1
      BY <2>3, <3>1, ReachedIs, SomeLevels
    <3>3. t \in Below(child, ReachedIn(root, child)[l + 1]) /\ l + 1 \in 1 .. Levels
      BY <3>1, <3>2, ReachedIs, SomeLevels
    <3>4. PICK u \in ReachedIn(root, child)[l + 1], i \in Slots : child[u][i] = t
      BY <3>3 DEF Below
    <3>5. u \in T
      BY <3>3, <3>4 DEF TablesIn
    <3>6. t # NoTable
      BY <2>1, NoTableIsNone
    <3>7. \A s \in T \X Slots : child[s[1]][s[2]] = t <=> s = <<u, i>>
      <4> TAKE s \in T \X Slots
      <4>1. s[1] \in TableIds /\ s[2] \in Slots /\ s = <<s[1], s[2]>> /\ u \in TableIds
        BY <2>1, <3>5
      <4>2. child[s[1]][s[2]] = t => s[1] = u /\ s[2] = i
        BY <2>1, <3>4, <3>6, <4>1 DEF Unique
      <4>3. QED BY <3>4, <4>1, <4>2
    <3>8. Parents(t) = {<<u, i>>}
      BY <3>5, <3>7
    <3>9. QED BY <3>8
  <2>4. \A t \in T : Cardinality(Parents(t)) = (IF t = root THEN 0 ELSE 1)
    <3> HIDE DEF T, Parents
    <3> TAKE t \in T
    <3>1. CASE t = root
      BY <2>2, <3>1, FS_EmptySet
    <3>2. CASE t # root
      BY <2>3, <3>2, FS_Singleton
    <3>3. QED BY <3>1, <3>2
  <2>5. /\ UnusedPreallocated(preCount) \intersect TreeTables = {}
        /\ TreeTables \union UnusedPreallocated(preCount) \subseteq allocated
    BY <1>1, TreeIsIn DEF EptInv, TreeInv
  <2>6. TreeTables = T
    BY TreeIsIn
  <2>7. QED BY <2>4, <2>5, <2>6 DEF EveryTableOnce
<1>2. QED
  BY <1>1, EptInvariant, PTL

\* However EptInitialization fails, and after EptTermination, all tables have
\* been given back.
THEOREM NothingLeaksHolds == Spec => []NothingLeaks
<1>1. ASSUME EptInv, pc \in {"failed", "freed"} PROVE allocated = {} /\ ~array
  <2>1. root = NoTable /\ pre = <<>> /\ ~array /\ preCount \in Nat
    BY <1>1 DEF EptInv, StageInv, TypeOK
  <2>2. UnusedPreallocated(preCount) = {}
    <3>1. \A i : i \notin (preCount + 1) .. Len(pre)
      BY <2>1
    <3>2. QED BY <3>1 DEF UnusedPreallocated
  <2>3. TablesIn(root, child) = {}
    BY <2>1, NoTree
  <2>4. QED BY <1>1, <2>1, <2>2, <2>3 DEF EptInv, TreeInv
<1>2. EptInv => NothingLeaks
  BY <1>1 DEF NothingLeaks
<1>3. QED
  BY <1>2, EptInvariant, PTL

\* The assertion at ept.cpp:670 never fails: EptInitialization has mapped all
\* of memory before the EPT is used, and nothing takes a mapping away.
THEOREM MissIsDeviceMemoryHolds == Spec => []MissIsDeviceMemory
<1>1. ASSUME EptInv, pc = "ready", walk.level > 0 PROVE walk.page \in DevicePages
  <2>1. walk.level # 0
    BY <1>1 DEF EptInv, TypeOK
  <2>2. QED BY <1>1, <2>1 DEF EptInv, WalkInv
<1>2. EptInv => MissIsDeviceMemory
  BY <1>1 DEF MissIsDeviceMemory
<1>3. QED
  BY <1>2, EptInvariant, PTL

\* The assertion at ept.cpp:552 never fails: the entry is empty when
\* EptpConstructTables fills it in.
THEOREM LeafIsFreshHolds == Spec => []LeafIsFresh
<1>1. ASSUME EptInv, walk.level = 1 PROVE ~leaf[walk.table][Index(1, walk.page)].present
  <2>1. /\ walk.table = PathIn(root, child, walk.page)[1] /\ walk.table # NoTable
        /\ ~Mapped(root, child, leaf, walk.page)
    BY <1>1 DEF EptInv, WalkInv
  <2>2. QED BY <2>1 DEF Mapped, EntryIn
<1>2. EptInv => LeafIsFresh
  BY <1>1 DEF LeafIsFresh
<1>3. QED
  BY <1>2, EptInvariant, PTL
-----------------------------------------------------------------------------
(* EptTables implements EptMap.                                            *)

Translation == [p \in Pages |-> EptGetEptPtEntry(p)]
Types == [p \in Pages |-> EptpGetMemoryType(stored, mtrrs.default, p)]

\* The abstract translation, in terms of the tree and its leaves.
LEMMA TranslationIs ==
  /\ \A q \in Pages : Translation[q] = EntryIn(root, child, leaf, q)
  /\ \A q \in Pages : Translation'[q] = EntryIn(root', child', leaf', q)
BY EntryIsIn DEF Translation

\* A step that changes no page's entry leaves the translation alone.
LEMMA TranslationSame ==
  ASSUME \A q \in Pages : EntryIn(root', child', leaf', q) = EntryIn(root, child, leaf, q)
  PROVE  Translation' = Translation
BY TranslationIs DEF Translation

\* Without a root no page is mapped.
LEMMA EmptyTranslation ==
  /\ root = NoTable => Translation = Map!Empty
  /\ root' = NoTable => Translation' = Map!Empty
<1>1. root = NoTable => \A q \in Pages : Translation[q] = NoLeaf
  BY TranslationIs, NoTreeEntry
<1>2. root' = NoTable => \A q \in Pages : Translation'[q] = NoLeaf
  BY TranslationIs, NoTreeEntry
<1>3. QED
  BY <1>1, <1>2 DEF Translation, Map!Empty

\* EptpDestructTables takes all mappings away and leaves the types.
LEMMA DestructIsTearDown ==
  ASSUME NEW X, Destruct(X), UNCHANGED <<mtrrs, stored>>
  PROVE  Map!TearDown
<1>1. root' = NoTable /\ Types' = Types
  BY DEF Destruct, Types
<1>2. QED
  BY <1>1, EmptyTranslation DEF Map!TearDown, Translation, Types

\* Such a step is none of EptMap's.
LEMMA StutterIs ==
  ASSUME Translation' = Translation, UNCHANGED <<mtrrs, stored>>
  PROVE  UNCHANGED Map!mapVars
BY DEF Map!mapVars, Translation, Types

\* Each step of EptTables is one of EptMap's or none.
LEMMA MapStep ==
  ASSUME EptInv, [Next]_vars
  PROVE  [Map!SettleTypes \/ (\E p \in Pages : Map!Map(p)) \/ Map!TearDown]_(Map!mapVars)
<1>1. ASSUME UNCHANGED tree, UNCHANGED <<mtrrs, stored>> PROVE UNCHANGED Map!mapVars
  BY <1>1, TreeSame, TranslationSame, StutterIs
<1>2. ASSUME UNCHANGED tree, root = NoTable PROVE Map!SettleTypes
  <2>1. Translation = Map!Empty /\ Translation' = Translation
    BY <1>2, TreeSame, TranslationSame, EmptyTranslation
  <2>2. QED BY <2>1 DEF Map!SettleTypes, Translation
<1>3. CASE EptInitializeMtrrEntries \/ StartAgain
  BY <1>2, <1>3 DEF EptInitializeMtrrEntries, StartAgain, EptInv, StageInv
<1>4. CASE AllocatePml4
  <2>1. /\ UNCHANGED <<mtrrs, stored>> /\ child' = child /\ leaf' = leaf /\ root = NoTable
        /\ root' = root \/ root' \in TableIds
    BY <1>4 DEF AllocatePml4, EptInv, StageInv
  <2>2. CASE root' = root
    BY <1>1, <2>1, <2>2 DEF tree
  <2>3. CASE root' \in TableIds
    <3>1. \A q \in Pages : EntryIn(root', child, leaf, q) = NoLeaf
      <4>1. Shape(NoTable, child, leaf)
        BY <2>1 DEF EptInv, TreeInv
      <4>2. QED BY <2>3, <4>1, RootShape
    <3>2. \A q \in Pages : EntryIn(root, child, leaf, q) = NoLeaf
      BY <2>1, NoTreeEntry
    <3>3. QED BY <2>1, <3>1, <3>2, TranslationSame, StutterIs
  <2>4. QED BY <2>1, <2>2, <2>3
<1>5. CASE MapNextPage \/ Descend \/ (\E page \in Touched : HandleMiss(page))
  BY <1>1, <1>5 DEF MapNextPage, Descend, HandleMiss
<1>6. CASE AllocateArray \/ FillPreallocated
  BY <1>1, <1>6, DestructIsTearDown DEF AllocateArray, FillPreallocated
<1>7. CASE AllocationFails
  BY <1>1, <1>7, DestructIsTearDown DEF AllocationFails
<1>8. CASE EptTermination
  BY <1>8, DestructIsTearDown DEF EptTermination
<1>9. CASE AddTable
  <2>1. UNCHANGED <<mtrrs, stored>>
    BY <1>9 DEF AddTable
  <2>2. QED BY <1>9, <2>1, AddTableTree, TranslationSame, StutterIs
<1>10. CASE SetLeaf
  <2>1. PICK p \in Pages : p = walk.page
    BY WalkFields DEF EptInv
  <2>2. UNCHANGED <<mtrrs, stored>> /\ Types' = Types
    BY <1>10 DEF SetLeaf, Types
  <2>3. /\ EntryIn(root', child', leaf', p) =
             [present |-> TRUE, page |-> p, type |-> Types[p]]
        /\ \A q \in Pages : q # p =>
             EntryIn(root', child', leaf', q) = EntryIn(root, child, leaf, q)
    BY <1>10, <2>1, SetLeafTree DEF Types
  <2>4. Translation[p] = NoLeaf
    <3>1. walk.level # 0
      BY <1>10 DEF SetLeaf
    <3>2. ~EntryIn(root, child, leaf, p).present
      BY <2>1, <3>1 DEF EptInv, WalkInv, Mapped
    <3>3. EntryIn(root, child, leaf, p) = NoLeaf
      BY <3>2, UnmappedIsNoLeaf DEF EptInv, TreeInv
    <3>4. QED BY <3>3, TranslationIs
  <2>5. Translation' = [Translation EXCEPT ![p] =
                          [present |-> TRUE, page |-> p, type |-> Types[p]]]
    <3> DEFINE e == [present |-> TRUE, page |-> p, type |-> Types[p]]
    <3>1. \A q \in Pages : Translation'[q] = IF q = p THEN e ELSE Translation[q]
      BY <2>3, TranslationIs
    <3>2. /\ Translation = [q \in Pages |-> Translation[q]]
          /\ Translation' = [q \in Pages |-> Translation'[q]]
      BY DEF Translation
    <3> HIDE DEF e
    <3>3. PICK f, g : f = Translation /\ g = Translation'
      OBVIOUS
    <3>4. /\ f = [q \in Pages |-> f[q]] /\ g = [q \in Pages |-> g[q]]
          /\ \A q \in Pages : g[q] = IF q = p THEN e ELSE f[q]
      BY <3>1, <3>2, <3>3
    <3>5. g = [f EXCEPT ![p] = e]
      BY ONLY <3>4, p \in Pages
    <3>6. QED BY <3>3, <3>5 DEF e
  <2>6. Map!Map(p)
    BY <2>2, <2>4, <2>5 DEF Map!Map, Translation, Types
  <2>7. QED BY <2>6
<1>11. CASE UNCHANGED vars
  BY <1>1, <1>11 DEF vars, tree
<1>12. QED
  BY <1>3, <1>4, <1>5, <1>6, <1>7, <1>8, <1>9, <1>10, <1>11 DEF Next

\* The EPT is a map from pages to entries: a page is mapped once, to itself
\* and with its memory type, and no table or entry that is added for another
\* page changes that until the whole EPT is freed.
THEOREM ImplementsEptMapHolds == Spec => ImplementsEptMap
<1>1. Init => Map!MapInit
  <2>1. Init => root = NoTable
    BY DEF Init
  <2>2. QED BY <2>1, EmptyTranslation DEF Map!MapInit, Translation
<1>2. EptInv /\ [Next]_vars =>
        [Map!SettleTypes \/ (\E p \in Pages : Map!Map(p)) \/ Map!TearDown]_(Map!mapVars)
  BY MapStep
<1>3. QED
  BY <1>1, <1>2, EptInvariant, PTL DEF Spec, ImplementsEptMap, Map!MapSpec
-----------------------------------------------------------------------------
(* The types EptpGetMemoryType finds are those of the MTRRs.               *)

\* No write-through range comes before a write-back one that overlaps it.
\* With such a pair the code finds the wrong type (ept.cpp:384), as
\* MCThroughBeforeBack shows.
ThroughBehindBack ==
  \A m \in MtrrChoices : \A i, j \in 1 .. Len(m.variable) :
    LET a == m.variable[i]
        b == m.variable[j]
    IN  /\ i < j /\ a.valid /\ b.valid
        /\ a.type = "WT" /\ b.type = "WB"
        => a.base + a.pages <= b.base \/ b.base + b.pages <= a.base

\* What a turn of the loop makes of the result of the turns before it.
Turn(result, entry, page) ==
  IF result.stop \/ ~Covers(entry, page) THEN result ELSE Combine(result.type, entry)

\* The result of the whole loop.
Found(entries, page) == TypeAfter(entries, page)[Len(entries)]

\* With no entries the loop finds nothing.
LEMMA FoundEmpty ==
  ASSUME NEW page
  PROVE  Found(<<>>, page) = [type |-> NoType, stop |-> FALSE]
BY TypeAfterIs DEF Found

\* An entry more is a turn more.
LEMMA FoundAppend ==
  ASSUME NEW entries \in Seq(MtrrEntries), NEW entry \in MtrrEntries, NEW page
  PROVE  Found(Append(entries, entry), page) = Turn(Found(entries, page), entry, page)
<1> DEFINE more == Append(entries, entry)
           n == Len(entries)
           S == {k \in Nat : k <= n => TypeAfter(more, page)[k] = TypeAfter(entries, page)[k]}
<1>0. /\ n \in Nat /\ Len(more) = n + 1 /\ more[n + 1] = entry
      /\ \A k \in 1 .. n : more[k] = entries[k]
  OBVIOUS
<1> HIDE DEF more, n
<1>1. 0 \in S
  BY <1>0, TypeAfterIs DEF n
<1>2. ASSUME NEW k \in Nat, k \in S PROVE k + 1 \in S
  <2>1. SUFFICES ASSUME k + 1 <= n
                 PROVE  TypeAfter(more, page)[k + 1] = TypeAfter(entries, page)[k + 1]
    OBVIOUS
  <2>2. PICK i \in 1 .. n : i = k + 1 /\ i - 1 = k
    BY <2>1, <1>0
  <2>3. more[i] = entries[i] /\ TypeAfter(more, page)[i - 1] = TypeAfter(entries, page)[i - 1]
        /\ i \in 1 .. Len(more)
    BY <1>0, <1>2, <2>1, <2>2
  <2>4. TypeAfter(more, page)[i] = Turn(TypeAfter(more, page)[i - 1], more[i], page)
    BY <1>0, <2>3, TypeAfterIs DEF Turn
  <2>5. TypeAfter(entries, page)[i] = Turn(TypeAfter(entries, page)[i - 1], entries[i], page)
    BY <1>0, <2>2, TypeAfterIs DEF Turn, n
  <2>6. QED BY <2>2, <2>3, <2>4, <2>5
<1>3. n \in S
  <2> HIDE DEF S
  <2> QED BY <1>0, <1>1, <1>2, NatSetInduction
<1>4. TypeAfter(more, page)[n] = TypeAfter(entries, page)[n]
  BY <1>0, <1>3
<1>5. TypeAfter(more, page)[n + 1] = Turn(TypeAfter(more, page)[n], more[n + 1], page)
  <2>1. PICK i \in 1 .. Len(more) : i = n + 1 /\ i - 1 = n
    BY <1>0
  <2>2. TypeAfter(more, page)[i] = Turn(TypeAfter(more, page)[i - 1], more[i], page)
    BY <1>0, TypeAfterIs DEF Turn
  <2>3. QED BY <2>1, <2>2
<1>6. QED
  BY <1>0, <1>4, <1>5 DEF Found, more, n

\* The fixed ranges that cover a page.
FixedCovering(page) ==
  {i \in 1 .. Len(FixedSizes) : FixedBase[i] <= page /\ page < FixedBase[i + 1]}

\* The first fixed range that covers the page decides.
LEMMA FixedFound ==
  ASSUME NEW m \in MtrrChoices, NEW page \in Nat
  PROVE  IF m.fixedOn /\ FixedCovering(page) # {}
         THEN /\ Found(FixedEntries(m), page).stop
              /\ \E i \in FixedCovering(page) : Found(FixedEntries(m), page).type = m.fixed[i]
         ELSE Found(FixedEntries(m), page) = [type |-> NoType, stop |-> FALSE]
<1> DEFINE F == FixedEntries(m)
           R(k) == TypeAfter(F, page)[k]
           Upto(k) == {i \in FixedCovering(page) : i <= k}
           Good(k) == IF Upto(k) # {}
                      THEN R(k).stop /\ \E i \in Upto(k) : R(k).type = m.fixed[i]
                      ELSE R(k) = [type |-> NoType, stop |-> FALSE]
           S == {k \in Nat : k <= Len(FixedSizes) => Good(k)}
<1>1. CASE ~m.fixedOn
  BY <1>1, FoundEmpty DEF FixedEntries
<1>2. CASE m.fixedOn
  <2>0. Len(FixedSizes) \in Nat /\ F \in Seq(MtrrEntries) /\ Len(F) = Len(FixedSizes)
    BY <1>2, FixedSizesAssumption, FixedEntriesType DEF FixedEntries
  <2>1. ASSUME NEW i \in 1 .. Len(FixedSizes)
        PROVE  /\ Covers(F[i], page) <=> i \in FixedCovering(page)
               /\ F[i].fixed = TRUE /\ F[i].type = m.fixed[i]
    <3>1. F[i] = [fixed |-> TRUE, type |-> m.fixed[i],
                  first |-> FixedBase[i], last |-> FixedBase[i + 1] - 1]
      BY <1>2, <2>0 DEF FixedEntries
    <3>2. FixedBase[i] \in Nat /\ FixedBase[i + 1] \in Nat
      BY <2>0, FixedBaseType
    <3>3. QED BY <3>1, <3>2 DEF Covers, FixedCovering
  <2>2. \A k \in 1 .. Len(FixedSizes) : R(k) = Turn(R(k - 1), F[k], page)
    BY <2>0, TypeAfterIs DEF Turn
  <2>3. R(0) = [type |-> NoType, stop |-> FALSE]
    BY <2>0, TypeAfterIs
  <2> HIDE DEF F, R
  <2>4. 0 \in S
    BY <2>3 DEF FixedCovering
  <2>5. ASSUME NEW k \in Nat, k \in S PROVE k + 1 \in S
    <3>1. SUFFICES ASSUME k + 1 <= Len(FixedSizes) PROVE Good(k + 1)
      OBVIOUS
    <3>2. PICK n \in 1 .. Len(FixedSizes) : n = k + 1 /\ n - 1 = k
      BY <2>0, <3>1
    <3>3. R(n) = Turn(R(k), F[n], page) /\ Good(k)
      BY <2>0, <2>2, <2>5, <3>1, <3>2
    <3>4. Upto(n) = Upto(k) \union (IF n \in FixedCovering(page) THEN {n} ELSE {})
      BY <3>2 DEF FixedCovering
    <3>5. CASE Upto(k) # {}
      BY <3>2, <3>3, <3>4, <3>5 DEF Turn
    <3>6. CASE Upto(k) = {} /\ n \notin FixedCovering(page)
      BY <2>1, <3>2, <3>3, <3>4, <3>6 DEF Turn
    <3>7. CASE Upto(k) = {} /\ n \in FixedCovering(page)
      <4>1. R(k) = [type |-> NoType, stop |-> FALSE] /\ Covers(F[n], page)
        BY <2>1, <3>3, <3>7
      <4>2. R(n) = [type |-> m.fixed[n], stop |-> TRUE]
        <5>1. R(n) = Combine(R(k).type, F[n])
          BY <3>3, <4>1 DEF Turn
        <5>2. F[n].fixed = TRUE /\ F[n].type = m.fixed[n]
          BY <2>1
        <5>3. QED BY <5>1, <5>2 DEF Combine
      <4>3. QED BY <3>2, <3>4, <3>7, <4>2
    <3>8. QED BY <3>5, <3>6, <3>7
  <2>6. Len(FixedSizes) \in S
    <3> HIDE DEF S
    <3> QED BY <2>0, <2>4, <2>5, NatSetInduction
  <2>7. Good(Len(FixedSizes)) /\ Upto(Len(FixedSizes)) = FixedCovering(page)
    BY <2>0, <2>6 DEF FixedCovering
  <2>8. QED BY <1>2, <2>0, <2>7 DEF Found, F, R
<1>3. QED
  BY <1>1, <1>2, MtrrAssumption

\* A variable range is a record of its fields.
LEMMA VariableRange ==
  ASSUME NEW m \in MtrrChoices, NEW k \in 1 .. Len(m.variable)
  PROVE  /\ m.variable[k].valid \in BOOLEAN /\ m.variable[k].type \in MemoryTypes
         /\ m.variable[k].base \in Nat /\ m.variable[k].pages \in Nat \ {0}
         /\ VariableEntry(m.variable[k]) \in MtrrEntries
         /\ VariableEntry(m.variable[k]).fixed = FALSE
         /\ VariableEntry(m.variable[k]).type = m.variable[k].type
<1> DEFINE V == [valid : BOOLEAN, type : MemoryTypes, base : Nat, pages : Nat \ {0}]
<1>1. m.variable \in Seq(V)
  BY MtrrAssumption
<1>2. m.variable[k] \in V
  <2> HIDE DEF V
  <2> QED BY <1>1
<1>3. QED
  BY <1>2 DEF VariableEntry, MtrrEntries

\* What is found when k variable ranges have been stored.
FoundUpto(m, k, page) == Found(FixedEntries(m) \o ValidUpto(m)[k], page)

\* A valid range more is a turn more.
LEMMA FoundUptoIs ==
  ASSUME NEW m \in MtrrChoices, NEW page
  PROVE  /\ FoundUpto(m, 0, page) = Found(FixedEntries(m), page)
         /\ \A k \in 1 .. Len(m.variable) :
              FoundUpto(m, k, page) =
                IF m.variable[k].valid
                THEN Turn(FoundUpto(m, k - 1, page), VariableEntry(m.variable[k]), page)
                ELSE FoundUpto(m, k - 1, page)
         /\ FoundUpto(m, Len(m.variable), page) = Found(StoredEntries(m), page)
<1>0. Len(m.variable) \in Nat /\ FixedEntries(m) \in Seq(MtrrEntries)
  BY MtrrAssumption, FixedEntriesType
<1>1. FixedEntries(m) \o ValidUpto(m)[0] = FixedEntries(m)
  BY <1>0, ValidUptoIs
<1>2. ASSUME NEW k \in 1 .. Len(m.variable)
      PROVE  FoundUpto(m, k, page) =
               IF m.variable[k].valid
               THEN Turn(FoundUpto(m, k - 1, page), VariableEntry(m.variable[k]), page)
               ELSE FoundUpto(m, k - 1, page)
  <2>1. CASE m.variable[k].valid
    <3> DEFINE F == FixedEntries(m)
               v == ValidUpto(m)[k - 1]
               e == VariableEntry(m.variable[k])
    <3>1. ValidUpto(m)[k] = Append(v, e)
      BY <1>0, <2>1, ValidUptoIs
    <3>2. F \in Seq(MtrrEntries) /\ v \in Seq(MtrrEntries) /\ e \in MtrrEntries
      <4>1. k - 1 \in 0 .. Len(m.variable)
        BY <1>0
      <4>2. QED BY <1>0, <4>1, ValidUptoType, VariableRange
    <3>3. FoundUpto(m, k, page) = Found(F \o Append(v, e), page)
          /\ FoundUpto(m, k - 1, page) = Found(F \o v, page)
      BY <3>1 DEF FoundUpto
    <3> HIDE DEF F, v, e
    <3>4. F \o Append(v, e) = Append(F \o v, e) /\ F \o v \in Seq(MtrrEntries)
      BY <3>2
    <3>5. Found(Append(F \o v, e), page) = Turn(Found(F \o v, page), e, page)
      BY <3>2, <3>4, FoundAppend
    <3>6. QED BY <2>1, <3>3, <3>4, <3>5 DEF e
  <2>2. CASE ~m.variable[k].valid
    BY <1>0, <2>2, ValidUptoIs DEF FoundUpto
  <2>3. QED BY <2>1, <2>2
<1>3. StoredEntries(m) = FixedEntries(m) \o ValidUpto(m)[Len(m.variable)]
  BY DEF StoredEntries, VariableEntries, ValidUpto
<1>4. QED
  BY <1>1, <1>2, <1>3 DEF FoundUpto

\* A fixed range that covers the page has the last word.
LEMMA StopsAtFixed ==
  ASSUME NEW m \in MtrrChoices, NEW page, Found(FixedEntries(m), page).stop
  PROVE  Found(StoredEntries(m), page) = Found(FixedEntries(m), page)
<1> DEFINE r == Found(FixedEntries(m), page)
           n == Len(m.variable)
           S == {k \in Nat : k <= n => FoundUpto(m, k, page) = r}
<1>0. n \in Nat
  BY MtrrAssumption
<1>1. 0 \in S
  BY FoundUptoIs
<1>2. ASSUME NEW k \in Nat, k \in S PROVE k + 1 \in S
  <2>1. SUFFICES ASSUME k + 1 <= n PROVE FoundUpto(m, k + 1, page) = r
    OBVIOUS
  <2>2. PICK i \in 1 .. n : i = k + 1 /\ i - 1 = k
    BY <1>0, <2>1
  <2>3. FoundUpto(m, i - 1, page) = r
    BY <1>0, <1>2, <2>1, <2>2
  <2>4. FoundUpto(m, i, page) = r
    BY <2>3, FoundUptoIs DEF Turn
  <2>5. QED BY <2>2, <2>4
<1>3. n \in S
  <2> HIDE DEF S, n
  <2> QED BY <1>0, <1>1, <1>2, NatSetInduction
<1>4. QED
  BY <1>0, <1>3, FoundUptoIs

\* How the result of the loop depends on the types of the ranges met so far
\* that cover the page.
Fits(types, result) ==
  /\ result.stop <=> "UC" \in types
  /\ types = {} => result.type = NoType
  /\ types # {} => result.type \in types
  /\ "UC" \in types => result.type = "UC"
  /\ "WT" \in types /\ types \subseteq {"WT", "WB"} => result.type = "WT"

\* One turn, on a range that covers the page.
LEMMA FitsTurn ==
  ASSUME NEW types, NEW result, NEW entry, NEW page, NEW x,
         Fits(types, result), Covers(entry, page),
         entry.fixed = FALSE, entry.type = x, x \in MemoryTypes,
         ~("WT" \in types /\ x = "WB")
  PROVE  Fits(types \union {x}, Turn(result, entry, page))
<1>1. CASE "UC" \in types
  BY <1>1 DEF Fits, Turn
<1>2. CASE "UC" \notin types
  <2>1. Turn(result, entry, page) = Combine(result.type, entry)
    BY <1>2 DEF Fits, Turn
  <2>2. CASE x = "UC"
    <3>1. Combine(result.type, entry) = [type |-> "UC", stop |-> TRUE]
      BY <2>2 DEF Combine
    <3>2. QED BY <2>1, <2>2, <3>1 DEF Fits
  <2>3. CASE x # "UC"
    <3>1. Combine(result.type, entry) = [type |-> x, stop |-> FALSE]
      BY <2>3 DEF Combine
    <3>2. QED BY <1>2, <2>1, <2>3, <3>1 DEF Fits
  <2>4. QED BY <2>2, <2>3
<1>3. QED
  BY <1>1, <1>2

\* The first k variable ranges that cover the page, and their types.
Hits(m, k, page) ==
  {i \in 1 .. k : /\ m.variable[i].valid
                  /\ m.variable[i].base <= page
                  /\ page < m.variable[i].base + m.variable[i].pages}
TypesUpto(m, k, page) == {m.variable[i].type : i \in Hits(m, k, page)}

\* Where no fixed range decides, the variable ranges do.
LEMMA VariableFound ==
  ASSUME ThroughBehindBack, NEW m \in MtrrChoices, NEW page \in Nat,
         Found(FixedEntries(m), page) = [type |-> NoType, stop |-> FALSE]
  PROVE  Fits(CoveringTypes(m, page), Found(StoredEntries(m), page))
<1> DEFINE n == Len(m.variable)
           S == {k \in Nat : k <= n => Fits(TypesUpto(m, k, page), FoundUpto(m, k, page))}
<1>0. n \in Nat
  BY MtrrAssumption
<1>1. 0 \in S
  <2>1. TypesUpto(m, 0, page) = {}
    BY DEF TypesUpto, Hits
  <2>2. FoundUpto(m, 0, page) = [type |-> NoType, stop |-> FALSE]
    BY FoundUptoIs
  <2>3. QED BY <2>1, <2>2 DEF Fits
<1>2. ASSUME NEW k \in Nat, k \in S PROVE k + 1 \in S
  <2>1. SUFFICES ASSUME k + 1 <= n
                 PROVE  Fits(TypesUpto(m, k + 1, page), FoundUpto(m, k + 1, page))
    OBVIOUS
  <2>2. PICK i \in 1 .. n : i = k + 1 /\ i - 1 = k
    BY <1>0, <2>1
  <2> DEFINE a == m.variable[i]
             e == VariableEntry(a)
             hit == a.valid /\ a.base <= page /\ page < a.base + a.pages
  <2>3. Fits(TypesUpto(m, k, page), FoundUpto(m, k, page))
    BY <1>0, <1>2, <2>1
  <2>4. /\ a.valid \in BOOLEAN /\ a.type \in MemoryTypes
        /\ a.base \in Nat /\ a.pages \in Nat \ {0}
        /\ e.fixed = FALSE /\ e.type = a.type
    BY VariableRange
  <2>5. a.valid => (Covers(e, page) <=> hit)
    BY <2>4 DEF Covers, VariableEntry
  <2>6. FoundUpto(m, i, page) =
          IF a.valid THEN Turn(FoundUpto(m, k, page), e, page) ELSE FoundUpto(m, k, page)
    BY <2>2, FoundUptoIs
  <2>7. Hits(m, i, page) = Hits(m, k, page) \union (IF hit THEN {i} ELSE {})
    BY <2>2 DEF Hits
  <2>8. TypesUpto(m, i, page) = TypesUpto(m, k, page) \union (IF hit THEN {a.type} ELSE {})
    BY <2>7 DEF TypesUpto
  <2>9. CASE hit
    <3>1. ~("WT" \in TypesUpto(m, k, page) /\ a.type = "WB")
      <4>1. SUFFICES ASSUME a.type = "WB", NEW j \in Hits(m, k, page), m.variable[j].type = "WT"
                     PROVE  FALSE
        BY DEF TypesUpto
      <4>2. j \in 1 .. n /\ j < i
        BY <1>0, <2>2 DEF Hits
      <4>3. /\ m.variable[j].valid /\ m.variable[j].base <= page
            /\ page < m.variable[j].base + m.variable[j].pages
            /\ m.variable[j].base \in Nat /\ m.variable[j].pages \in Nat
        BY <4>2, VariableRange DEF Hits
      <4>4. \/ m.variable[j].base + m.variable[j].pages <= a.base
            \/ a.base + a.pages <= m.variable[j].base
        BY <2>9, <4>1, <4>2, <4>3 DEF ThroughBehindBack
      <4> HIDE DEF a
      <4>5. QED BY <2>4, <2>9, <4>3, <4>4
    <3>2. Covers(e, page)
      BY <2>5, <2>9
    <3> HIDE DEF e, a
    <3>3. Fits(TypesUpto(m, k, page) \union {a.type}, Turn(FoundUpto(m, k, page), e, page))
      BY <2>3, <2>4, <3>1, <3>2, FitsTurn
    <3>4. QED BY <2>2, <2>6, <2>8, <2>9, <3>3
  <2>10. CASE ~hit
    <3>1. FoundUpto(m, i, page) = FoundUpto(m, k, page)
      BY <2>5, <2>6, <2>10 DEF Turn
    <3>2. TypesUpto(m, i, page) = TypesUpto(m, k, page)
      BY <2>8, <2>10
    <3>3. QED BY <2>2, <2>3, <3>1, <3>2
  <2>11. QED BY <2>9, <2>10
<1>3. n \in S
  <2> HIDE DEF S, n
  <2> QED BY <1>0, <1>1, <1>2, NatSetInduction
<1>4. CoveringTypes(m, page) = TypesUpto(m, n, page)
  BY DEF CoveringTypes, TypesUpto, Hits
<1>5. QED
  BY <1>0, <1>3, <1>4, FoundUptoIs

\* What is stored for MTRRs gives each page a type these MTRRs give it.
LEMMA StoredTypeFits ==
  ASSUME ThroughBehindBack, NEW m \in MtrrChoices, NEW page \in Nat
  PROVE  EptpGetMemoryType(StoredEntries(m), m.default, page) \in ArchitecturalTypes(m, page)
<1> DEFINE r == Found(StoredEntries(m), page)
           types == CoveringTypes(m, page)
           found == EptpGetMemoryType(StoredEntries(m), m.default, page)
<1>1. found = IF r.type = NoType THEN m.default ELSE r.type
  BY DEF EptpGetMemoryType, Found, TypeAfter
<1>2. NoType \notin MemoryTypes /\ m.default \in MemoryTypes
      /\ \A i \in 1 .. Len(FixedSizes) : m.fixed[i] \in MemoryTypes
  BY MtrrAssumption DEF NoType, MemoryTypes
<1>3. CASE m.fixedOn /\ FixedCovering(page) # {}
  <2>1. PICK i \in FixedCovering(page) : r.type = m.fixed[i]
    BY <1>3, FixedFound, StopsAtFixed
  <2>2. found = m.fixed[i]
    BY <1>1, <1>2, <2>1 DEF FixedCovering
  <2>3. ArchitecturalTypes(m, page) = {m.fixed[j] : j \in FixedCovering(page)}
    BY <1>3 DEF ArchitecturalTypes, FixedCovering
  <2>4. QED BY <2>2, <2>3
<1>4. CASE ~(m.fixedOn /\ FixedCovering(page) # {})
  <2>1. Fits(types, r)
    BY <1>4, FixedFound, VariableFound
  <2>2. types \subseteq MemoryTypes
    <3>1. \A i \in 1 .. Len(m.variable) : m.variable[i].type \in MemoryTypes
      BY VariableRange
    <3>2. QED BY <3>1 DEF CoveringTypes
  <2>3. ArchitecturalTypes(m, page) =
          CASE types = {} -> {m.default}
            [] "UC" \in types -> {"UC"}
            [] types = {"WT", "WB"} -> {"WT"}
            [] types \in {{t} : t \in MemoryTypes \ {"UC"}} -> types
            [] OTHER -> MemoryTypes
    BY <1>4 DEF ArchitecturalTypes, FixedCovering
  <2> HIDE DEF types, r, found
  <2>4. CASE types = {}
    <3>1. found = m.default
      BY <1>1, <2>1, <2>4 DEF Fits
    <3>2. ArchitecturalTypes(m, page) = {m.default}
      BY <2>3, <2>4
    <3>3. QED BY <3>1, <3>2 DEF found
  <2>5. CASE types # {}
    <3>1. found = r.type /\ r.type \in types
      BY <1>1, <1>2, <2>1, <2>2, <2>5 DEF Fits
    <3>2. CASE "UC" \in types
      <4>1. ArchitecturalTypes(m, page) = {"UC"}
        BY <2>3, <3>2
      <4>2. found = "UC"
        BY <2>1, <3>1, <3>2 DEF Fits
      <4>3. QED BY <4>1, <4>2 DEF found
    <3>3. CASE types = {"WT", "WB"}
      <4>1. ArchitecturalTypes(m, page) = {"WT"}
        BY <2>3, <3>3
      <4>2. found = "WT"
        BY <2>1, <3>1, <3>3 DEF Fits
      <4>3. QED BY <4>1, <4>2 DEF found
    <3>4. CASE "UC" \notin types /\ types # {"WT", "WB"}
      <4>1. \/ ArchitecturalTypes(m, page) = types
            \/ ArchitecturalTypes(m, page) = MemoryTypes
        BY <2>3, <2>5, <3>4
      <4>2. QED BY <2>2, <3>1, <4>1 DEF found
    <3>5. QED BY <3>2, <3>3, <3>4
  <2>6. QED BY <2>4, <2>5
<1>5. QED
  BY <1>3, <1>4

\* The entries of the current MTRRs are the first ones stored, and a page that
\* is mapped has the type found in them.
StoredFirst ==
  LET new == StoredEntries(mtrrs) IN
  Len(new) <= Len(stored) /\ \A i \in 1 .. Len(new) : stored[i] = new[i]

TypedInv ==
  \A p \in Pages :
    \/ Translation[p] = NoLeaf
    \/ Translation[p] = [present |-> TRUE, page |-> p, type |-> Types[p]]

FollowInv == (pc # "mtrrs" => StoredFirst) /\ TypedInv

\* That the types are those found is a consequence of EptMap alone.
LEMMA TypedStep ==
  ASSUME TypedInv,
         [Map!SettleTypes \/ (\E p \in Pages : Map!Map(p)) \/ Map!TearDown]_(Map!mapVars)
  PROVE  TypedInv'
<1>1. CASE UNCHANGED Map!mapVars
  <2>1. Translation' = Translation /\ Types' = Types
    BY <1>1 DEF Map!mapVars, Translation, Types
  <2>2. QED BY <2>1 DEF TypedInv
<1>2. CASE Map!SettleTypes \/ Map!TearDown
  <2>1. Translation' = Map!Empty
    BY <1>2 DEF Map!SettleTypes, Map!TearDown, Translation
  <2>2. QED BY <2>1 DEF TypedInv, Map!Empty
<1>3. ASSUME NEW q \in Pages, Map!Map(q) PROVE TypedInv'
  <2> DEFINE e == [present |-> TRUE, page |-> q, type |-> Types[q]]
  <2>1. Translation' = [Translation EXCEPT ![q] = e] /\ Types' = Types
    BY <1>3 DEF Map!Map, Translation, Types
  <2>2. \A p \in Pages : p \in DOMAIN Translation
    BY DEF Translation
  <2> HIDE DEF e
  <2>3. \A p \in Pages : Translation'[p] = IF p = q THEN e ELSE Translation[p]
    BY <2>1, <2>2
  <2>4. QED BY <2>1, <2>3 DEF TypedInv, e
<1>4. QED
  BY <1>1, <1>2, <1>3

\* Only EptInitializeMtrrEntries and a new start touch what is stored.
LEMMA StoredStep ==
  ASSUME EptInv, [Next]_vars, pc # "mtrrs" => StoredFirst
  PROVE  (pc # "mtrrs" => StoredFirst)'
<1>1. CASE EptInitializeMtrrEntries
  <2>1. mtrrs' = mtrrs /\ stored' = Overwritten(StoredEntries(mtrrs))
    BY <1>1 DEF EptInitializeMtrrEntries
  <2>2. StoredEntries(mtrrs) \in Seq(MtrrEntries) /\ stored \in Seq(MtrrEntries)
    <3>1. mtrrs \in MtrrChoices
      BY DEF EptInv, TypeOK
    <3>2. stored \in Seq(MtrrEntries)
      BY DEF EptInv, TypeOK, MtrrEntries
    <3>3. QED BY <3>1, <3>2, StoredEntriesType
  <2>3. PICK new \in Seq(MtrrEntries), old \in Seq(MtrrEntries) :
          new = StoredEntries(mtrrs) /\ old = stored
    BY <2>2
  <2>4. PICK len : len = Len(new) + IF Len(old) > Len(new) THEN Len(old) - Len(new) ELSE 0
    OBVIOUS
  <2>5. Overwritten(new) = [i \in 1 .. len |-> IF i <= Len(new) THEN new[i] ELSE old[i]]
    BY <2>3, <2>4 DEF Overwritten
  <2>6. len \in Nat /\ Len(new) \in Nat /\ Len(new) <= len
    BY <2>4
  <2>7. Len(Overwritten(new)) = len /\ \A i \in 1 .. Len(new) : Overwritten(new)[i] = new[i]
    BY <2>5, <2>6
  <2>8. QED BY <2>1, <2>3, <2>6, <2>7 DEF StoredFirst
<1>2. CASE StartAgain
  BY <1>2 DEF StartAgain
<1>3. CASE ~EptInitializeMtrrEntries /\ ~StartAgain
  <2>1. UNCHANGED <<mtrrs, stored>> /\ (pc' # "mtrrs" => pc # "mtrrs")
    <3>1. CASE UNCHANGED vars
      BY <3>1 DEF vars
    <3>2. CASE AllocatePml4
      BY <3>2 DEF AllocatePml4
    <3>3. CASE MapNextPage \/ AllocateArray \/ FillPreallocated
      BY <3>3 DEF MapNextPage, AllocateArray, FillPreallocated
    <3>4. CASE Descend \/ AddTable
      BY <3>4 DEF Descend, AddTable
    <3>5. CASE AllocationFails
      <4>1. walk.level # 0
        BY <3>5, WalkFields DEF AllocationFails, EptInv
      <4>2. pc # "mtrrs"
        BY <4>1 DEF EptInv, WalkInv
      <4>3. QED BY <3>5, <4>2 DEF AllocationFails
    <3>6. CASE SetLeaf
      <4>1. pc # "mtrrs"
        BY <3>6 DEF SetLeaf, EptInv, WalkInv
      <4>2. QED BY <3>6, <4>1 DEF SetLeaf
    <3>7. CASE (\E page \in Touched : HandleMiss(page)) \/ EptTermination
      BY <3>7 DEF HandleMiss, EptTermination
    <3>8. QED
      BY <1>3, <3>1, <3>2, <3>3, <3>4, <3>5, <3>6, <3>7 DEF Next
  <2>2. QED BY <2>1 DEF StoredFirst
<1>4. QED
  BY <1>1, <1>2, <1>3

\* FollowInv holds in every state.
LEMMA FollowInvariant == Spec => []FollowInv
<1>1. Init => FollowInv
  <2> SUFFICES ASSUME Init PROVE FollowInv
    OBVIOUS
  <2>1. pc = "mtrrs" /\ Translation = Map!Empty
    BY EmptyTranslation DEF Init
  <2>2. QED BY <2>1 DEF FollowInv, TypedInv, Map!Empty
<1>2. EptInv /\ FollowInv /\ [Next]_vars => FollowInv'
  <2> SUFFICES ASSUME EptInv, FollowInv, [Next]_vars PROVE FollowInv'
    OBVIOUS
  <2>1. TypedInv'
    BY MapStep, TypedStep DEF FollowInv
  <2>2. (pc # "mtrrs" => StoredFirst)'
    BY StoredStep DEF FollowInv
  <2>3. QED BY <2>1, <2>2 DEF FollowInv
<1>3. QED
  BY <1>1, <1>2, EptInvariant, PTL DEF Spec

\* If no write-through range stands before a write-back one that overlaps it,
\* each mapped page has the memory type that the processor's MTRRs give it,
\* whatever the fixed and variable ranges, their order and number, and also
\* after a new start under others that are not fewer.
THEOREM TypesFollowMtrrsHolds == ThroughBehindBack => (Spec => []TypesFollowMtrrs)
<1> SUFFICES ASSUME ThroughBehindBack PROVE Spec => []TypesFollowMtrrs
  OBVIOUS
<1>1. EptInv /\ FollowInv => TypesFollowMtrrs
  <2> SUFFICES ASSUME EptInv, FollowInv, pc # "mtrrs", NoStaleEntry,
                      NEW p \in Pages, EptGetEptPtEntry(p).present
               PROVE  EptGetEptPtEntry(p).type \in ArchitecturalTypes(mtrrs, p)
    BY DEF TypesFollowMtrrs
  <2>1. mtrrs \in MtrrChoices /\ stored \in Seq(MtrrEntries)
        /\ StoredEntries(mtrrs) \in Seq(MtrrEntries)
    <3>1. mtrrs \in MtrrChoices
      BY DEF EptInv, TypeOK
    <3>2. stored \in Seq(MtrrEntries)
      BY DEF EptInv, TypeOK, MtrrEntries
    <3>3. QED BY <3>1, <3>2, StoredEntriesType
  <2>2. stored = StoredEntries(mtrrs)
    <3>1. PICK new \in Seq(MtrrEntries), old \in Seq(MtrrEntries) :
            new = StoredEntries(mtrrs) /\ old = stored
      BY <2>1
    <3>2. Len(new) = Len(old) /\ \A i \in 1 .. Len(new) : old[i] = new[i]
      BY <3>1 DEF FollowInv, StoredFirst, NoStaleEntry
    <3>3. new = old
      BY <3>2
    <3>4. QED BY <3>1, <3>3
  <2>3. EptGetEptPtEntry(p) = Translation[p] /\ Translation[p] # NoLeaf
    BY NoLeafType DEF Translation
  <2>4. EptGetEptPtEntry(p).type = EptpGetMemoryType(stored, mtrrs.default, p)
    <3>1. Translation[p] = [present |-> TRUE, page |-> p, type |-> Types[p]]
      BY <2>3 DEF FollowInv, TypedInv
    <3>2. EptGetEptPtEntry(p).type = Types[p]
      BY <2>3, <3>1
    <3>3. QED BY <3>2 DEF Types
  <2>5. p \in Nat
    BY PageIsNat
  <2>6. QED BY <2>1, <2>2, <2>4, <2>5, StoredTypeFits
<1>2. QED
  BY <1>1, EptInvariant, FollowInvariant, PTL
=============================================================================
