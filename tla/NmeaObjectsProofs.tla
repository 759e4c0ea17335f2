-------------------------- MODULE NmeaObjectsProofs --------------------------
(***************************************************************************)
(* Proofs about sentence objects and tag blocks: what setters, append_data *)
(* and parsing constructors make of one another, in whatever order and     *)
(* however often they are called.                                          *)
(*                                                                         *)
(* Of any layout that is WellFormed (LayoutsAssumption says that each of   *)
(* the table is): how lists of entries close up, what an object may hold   *)
(* (Sound), what reading makes of a line, what is written of a sound       *)
(* object, and what is read of that.  Of tag blocks: which members a       *)
(* constructor finds, and that what to_string writes is read member by     *)
(* member.  Then the invariant of the life of an object, with one lemma    *)
(* for each action, and the four properties of NmeaObjects.                *)
(***************************************************************************)
EXTENDS NmeaObjects, RecursionFacts, FiniteSetTheorems

-----------------------------------------------------------------------------
(***************************************************************************)
(* Ranks in a set of numbers, and the entries of a list.                   *)
(***************************************************************************)

\* How many of a set are at most m.
LEMMA RankIs ==
  ASSUME NEW n \in Nat, NEW T \in SUBSET Nat, \A d \in T : 1 <= d /\ d <= n, NEW m \in Nat
  PROVE  /\ Rank(T, m) \in Nat /\ Rank(T, m) <= m
         /\ n <= m => Rank(T, m) = Cardinality(T)
         /\ IsFiniteSet(T) /\ Cardinality(T) \in Nat /\ Rank(T, m) <= Cardinality(T)
         /\ Rank(T, 0) = 0
         /\ m + 1 \in T => Rank(T, m + 1) = Rank(T, m) + 1
         /\ m + 1 \notin T => Rank(T, m + 1) = Rank(T, m)
<1> DEFINE Below(k) == {d \in T : d <= k}
<1>1. \A d \in T : d \in Nat /\ d >= 1 /\ d <= n
  OBVIOUS
<1>2. /\ \A d : d \in Below(m) <=> d \in T /\ d <= m
      /\ \A d : d \in Below(m + 1) <=> d \in T /\ d <= m + 1
      /\ \A d : d \in Below(0) <=> d \in T /\ d <= 0
  OBVIOUS
<1>7. /\ Rank(T, m) = Cardinality(Below(m)) /\ Rank(T, 0) = Cardinality(Below(0))
      /\ Rank(T, m + 1) = Cardinality(Below(m + 1))
  BY DEF Rank
<1>8. IsFiniteSet(T) /\ Cardinality(T) \in Nat
  <2>1. T \subseteq 1..n /\ IsFiniteSet(1..n)
    BY FS_Interval
  <2> QED BY <2>1, FS_Subset, FS_CardinalityType
<1> HIDE DEF Below
<1>0. \A d \in Below(m) : d \in 1..m /\ d \in T
  <2> TAKE d \in Below(m)
  <2>1. d \in T /\ d <= m
    BY <1>2
  <2>2. d \in Nat /\ d >= 1
    BY <2>1, <1>1
  <2> QED BY <2>1, <2>2
<1>3. n <= m => Below(m) = T
  <2>1. n <= m => \A d \in T : d <= m
    BY <1>1
  <2>2. n <= m => \A d : d \in Below(m) <=> d \in T
    BY <2>1, <1>2
  <2> QED BY <2>2
<1>4. Below(0) = {}
  <2>1. \A d \in T : ~(d <= 0)
    BY <1>1
  <2>2. \A d : d \notin Below(0)
    BY <2>1, <1>2
  <2> QED BY <2>2
<1>5. m + 1 \in T => Below(m + 1) = Below(m) \cup {m + 1} /\ m + 1 \notin Below(m)
  <2>1. \A d \in T : d <= m + 1 <=> d <= m \/ d = m + 1
    BY <1>1
  <2>2. ~(m + 1 <= m)
    OBVIOUS
  <2>3. m + 1 \in T => \A d : d \in Below(m + 1) <=> d \in Below(m) \cup {m + 1}
    BY <2>1, <1>2
  <2> QED BY <2>2, <2>3, <1>2
<1>6. m + 1 \notin T => Below(m + 1) = Below(m)
  <2>1. m + 1 \notin T => \A d \in T : d <= m + 1 <=> d <= m
    BY <1>1
  <2>2. m + 1 \notin T => \A d : d \in Below(m + 1) <=> d \in Below(m)
    BY <2>1, <1>2
  <2> QED BY <2>2
<1>9. IsFiniteSet(Below(m)) /\ Cardinality(Below(m)) \in Nat /\ Cardinality(Below(m)) <= Cardinality(T)
  BY <1>0, <1>8, FS_Subset, FS_CardinalityType
<1>10. Cardinality(Below(m)) <= m
  <2>1. IsFiniteSet(1..m) /\ Cardinality(1..m) = m
    BY FS_Interval
  <2> QED BY <2>1, <1>0, FS_Subset
<1>11. Rank(T, 0) = 0
  BY <1>4, <1>7, FS_EmptySet
<1>12. m + 1 \in T => Rank(T, m + 1) = Rank(T, m) + 1
  BY <1>5, <1>7, <1>9, FS_AddElement
<1>13. m + 1 \notin T => Rank(T, m + 1) = Rank(T, m)
  BY <1>6, <1>7
<1>14. n <= m => Rank(T, m) = Cardinality(T)
  BY <1>3, <1>7
<1>15. Rank(T, m) = Cardinality(Below(m))
  BY <1>7
<1> QED BY <1>8, <1>9, <1>10, <1>11, <1>12, <1>13, <1>14, <1>15

\* The rank grows from one element to the next.
LEMMA RankGrows ==
  ASSUME NEW n \in Nat, NEW T \in SUBSET Nat, \A d \in T : 1 <= d /\ d <= n, NEW a \in Nat, NEW b \in T, a < b
  PROVE  Rank(T, a) < Rank(T, b)
<1> DEFINE K == {k \in Nat : Rank(T, a) <= Rank(T, a + k)}
<1>1. Rank(T, a) \in Nat /\ \A k \in Nat : Rank(T, a + k) \in Nat /\ Rank(T, a + (k + 1)) \in Nat
  <2>1. ASSUME NEW j \in Nat PROVE Rank(T, j) \in Nat
    BY RankIs
  <2>2. \A k \in Nat : a + k \in Nat /\ a + (k + 1) \in Nat
    OBVIOUS
  <2> QED BY <2>1, <2>2
<1>2. 0 \in K
  BY <1>1
<1>3. ASSUME NEW k \in Nat, k \in K PROVE k + 1 \in K
  <2>1. (a + k) + 1 = a + (k + 1) /\ a + k \in Nat
    OBVIOUS
  <2>2. Rank(T, a + k) <= Rank(T, (a + k) + 1)
    <3> DEFINE j == a + k
    <3>1. j \in Nat
      OBVIOUS
    <3> HIDE DEF j
    <3>2. Rank(T, j) \in Nat /\ (Rank(T, j + 1) = Rank(T, j) + 1 \/ Rank(T, j + 1) = Rank(T, j))
      BY <3>1, RankIs, SMTT(20)
    <3> QED BY <3>2 DEF j
  <2> QED BY <1>1, <1>3, <2>1, <2>2
<1>4. Nat \subseteq K
  <2> HIDE DEF K
  <2> QED BY <1>2, <1>3, Induction
<1>5. b \in Nat /\ b >= 1
  OBVIOUS
<1> DEFINE k == b - 1 - a
<1>6. k \in Nat /\ a + k = b - 1 /\ b - 1 \in Nat /\ (b - 1) + 1 = b
  BY <1>5
<1>7. Rank(T, a) <= Rank(T, b - 1)
  <2>1. k \in K
    BY <1>4, <1>6
  <2> QED BY <2>1, <1>6
<1>8. Rank(T, (b - 1) + 1) = Rank(T, b - 1) + 1 /\ Rank(T, b - 1) \in Nat
  BY <1>6, RankIs
<1> QED BY <1>1, <1>6, <1>7, <1>8

\* Some number is the k-th of a set, and only one.
LEMMA NthIs ==
  ASSUME NEW n \in Nat, NEW T \in SUBSET Nat, \A d \in T : 1 <= d /\ d <= n, NEW k \in 1..Cardinality(T)
  PROVE  /\ Nth(T, k) \in T
         /\ Rank(T, Nth(T, k)) = k
         /\ Nth(T, k) \in 1..n /\ k <= Nth(T, k)
<1>0. Cardinality(T) \in Nat /\ k \in Nat /\ k >= 1 /\ k <= Cardinality(T)
  BY RankIs
<1> DEFINE S == {m \in Nat : k <= Rank(T, m)}
<1>1. n \in S /\ S \in SUBSET Nat
  <2>1. Rank(T, n) = Cardinality(T)
    BY RankIs
  <2> QED BY <1>0, <2>1
<1>2. PICK e \in S : \A m \in S : e <= m
  <2> HIDE DEF S
  <2> QED BY <1>1, Least
<1>3. e \in Nat /\ k <= Rank(T, e) /\ Rank(T, e) \in Nat
  BY <1>2, RankIs
<1>4. e # 0
  BY <1>0, <1>3, RankIs
<1>5. e - 1 \in Nat /\ (e - 1) + 1 = e
  BY <1>3, <1>4
<1>6. Rank(T, e - 1) < k /\ Rank(T, e - 1) \in Nat
  <2>1. e - 1 \notin S
    BY <1>2, <1>5
  <2>2. Rank(T, e - 1) \in Nat
    BY <1>5, RankIs
  <2> QED BY <1>0, <1>5, <2>1, <2>2
<1>7. /\ e \in T => Rank(T, e) = Rank(T, e - 1) + 1
      /\ e \notin T => Rank(T, e) = Rank(T, e - 1)
  <2>1. /\ (e - 1) + 1 \in T => Rank(T, (e - 1) + 1) = Rank(T, e - 1) + 1
        /\ (e - 1) + 1 \notin T => Rank(T, (e - 1) + 1) = Rank(T, e - 1)
    BY <1>5, RankIs
  <2> QED BY <2>1, <1>5
<1>8. e \in T /\ Rank(T, e) = k
  BY <1>0, <1>3, <1>6, <1>7
<1>9. Nth(T, k) \in T /\ Rank(T, Nth(T, k)) = k
  BY <1>8 DEF Nth
<1>10. Nth(T, k) \in 1..n
  <2>1. \A d \in T : d \in 1..n
    OBVIOUS
  <2> QED BY <2>1, <1>9
<1>11. k <= Nth(T, k)
  <2>1. Nth(T, k) \in Nat
    BY <1>10
  <2> QED BY <2>1, <1>9, RankIs
<1> QED BY <1>9, <1>10, <1>11

\* The element of a rank is the element with that rank.
LEMMA NthOne ==
  ASSUME NEW n \in Nat, NEW T \in SUBSET Nat, \A d \in T : 1 <= d /\ d <= n, NEW e \in T
  PROVE  Rank(T, e) \in 1..Cardinality(T) /\ Nth(T, Rank(T, e)) = e
<1>1. e \in Nat /\ e >= 1
  OBVIOUS
<1>2. Rank(T, e) \in Nat /\ Rank(T, e) <= Cardinality(T) /\ Cardinality(T) \in Nat
  BY <1>1, RankIs
<1>3. Rank(T, e) >= 1
  BY <1>1, <1>2, RankGrows, RankIs
<1>4. Rank(T, e) \in 1..Cardinality(T)
  BY <1>2, <1>3
<1> DEFINE f == Nth(T, Rank(T, e))
<1>5. f \in T /\ Rank(T, f) = Rank(T, e) /\ f \in Nat
  <2>1. f \in T /\ Rank(T, f) = Rank(T, e) /\ f \in 1..n
    BY <1>4, NthIs
  <2> QED BY <2>1
<1> HIDE DEF f
<1>6. ~(f < e) /\ ~(e < f)
  <2>1. f < e => Rank(T, f) < Rank(T, e)
    BY <1>5, RankGrows
  <2>2. e < f => Rank(T, e) < Rank(T, f)
    BY <1>1, <1>5, RankGrows
  <2> QED BY <2>1, <2>2, <1>2, <1>5
<1>7. f = e
  BY <1>1, <1>5, <1>6
<1> QED BY <1>4, <1>7 DEF f

\* Of two numbers of a set the k-th comes before the later one.
LEMMA NthGrows ==
  ASSUME NEW n \in Nat, NEW T \in SUBSET Nat, \A d \in T : 1 <= d /\ d <= n, NEW k \in 1..Cardinality(T),
         NEW j \in 1..Cardinality(T), k < j
  PROVE  Nth(T, k) < Nth(T, j)
<1>1. /\ Nth(T, k) \in T /\ Nth(T, j) \in T /\ Nth(T, k) \in Nat /\ Nth(T, j) \in Nat
      /\ Rank(T, Nth(T, k)) = k /\ Rank(T, Nth(T, j)) = j /\ k \in Int /\ j \in Int
  BY NthIs, RankIs
<1>2. Nth(T, j) < Nth(T, k) => j < k
  BY <1>1, RankGrows
<1>3. Nth(T, j) # Nth(T, k)
  BY <1>1
<1> QED BY <1>1, <1>2, <1>3

\* In a set without gaps every element is at its own rank.
LEMMA NthOfAll ==
  ASSUME NEW m \in Nat, NEW k \in 1..m
  PROVE  Nth(1..m, k) = k /\ Cardinality(1..m) = m
<1>1. {d \in 1..m : d <= k} = 1..k
  OBVIOUS
<1>2. Cardinality(1..k) = k /\ Cardinality(1..m) = m
  BY FS_Interval
<1>3. Rank(1..m, k) = k
  BY <1>1, <1>2 DEF Rank
<1>4. 1..m \in SUBSET Nat /\ k \in 1..m /\ \A d \in 1..m : 1 <= d /\ d <= m
  OBVIOUS
<1> DEFINE T == 1..m
<1>5. T \in SUBSET Nat /\ k \in T /\ \A d \in T : 1 <= d /\ d <= m
  BY <1>4
<1> HIDE DEF T
<1>6. Nth(T, Rank(T, k)) = k
  BY <1>5, NthOne
<1> QED BY <1>2, <1>3, <1>6 DEF T

-----------------------------------------------------------------------------
\* What a layout that is well-formed provides, in the form the steps need it.
LEMMA Dims ==
  ASSUME NEW c, NEW l, WellFormed(c, l)
  PROVE  /\ Len(l.fields) \in Nat \ {0} /\ DOMAIN l.fields = 1..Len(l.fields)
         /\ l.head \in Nat /\ l.head <= Len(l.fields)
         /\ l.entry \in {1, 2, 4} /\ l.entry \in Nat
         /\ (Len(l.fields) - l.head) % l.entry = 0
         /\ l.head < Len(l.fields) => c \in Lists
         /\ l.append => l.entry = 1 /\ ~l.holes /\ ~l.skips
         /\ (l.skips <=> l.holes)
BY DEF WellFormed, SizesFit

\* Everything the well-formedness of a layout says of one of its fields.
LEMMA Fits ==
  ASSUME NEW c, NEW l, WellFormed(c, l), NEW i \in 1..Len(l.fields)
  PROVE  PartsFit(l, i) /\ ValuesFit(c, l, i) /\ ReadsBack(c, l, i) /\ EntriesFit(l, i)
BY DEF WellFormed

\* A quotient and a remainder are what they should be.
LEMMA Division ==
  ASSUME NEW k \in Nat \ {0}, NEW q \in Int, NEW r \in 0..(k - 1)
  PROVE  (k * q + r) % k = r /\ (k * q + r) \div k = q
<1> DEFINE n == k * q + r
           p == n \div k
           s == n % k
<1>1. n \in Int /\ p \in Int /\ s \in 0..(k - 1) /\ n = k * p + s
  OBVIOUS
<1> HIDE DEF p, s
<1>2. k * (p - q) = r - s
  BY <1>1
<1>3. p - q = 0
  <2>1. CASE p - q >= 1
    <3>1. k * (p - q) >= k
      BY <1>1, <2>1
    <3> QED
      BY <1>1, <1>2, <3>1
  <2>2. CASE p - q <= -1
    <3>1. k * (p - q) <= -k
      BY <1>1, <2>2
    <3> QED
      BY <1>1, <1>2, <3>1
  <2> QED
    BY <1>1, <2>1, <2>2
<1>4. p = q /\ s = r
  BY <1>1, <1>2, <1>3
<1> QED
  BY <1>4 DEF p, s

\* Quotient and remainder of a natural number.
LEMMA Divided ==
  ASSUME NEW n \in Nat, NEW k \in Nat \ {0}
  PROVE  /\ n \div k \in Nat /\ n % k \in 0..(k - 1) /\ n = k * (n \div k) + (n % k)
OBVIOUS

\* The number of the entry a field is in, from its place in the list.
LEMMA Quotient ==
  ASSUME NEW h \in Nat, NEW w \in Nat \ {0}, NEW q \in Nat, NEW d \in Nat, d < w
  PROVE  ((h + q * w + 1 + d) - h - 1) \div w = q
<1> DEFINE z == q * w
<1>1. z \in Nat /\ z = w * q
  OBVIOUS
<1>2. (z + d) \div w = q
  BY <1>1, Division
<1>3. (h + z + 1 + d) - h - 1 = z + d
  <2> HIDE DEF z
  <2> QED BY <1>1
<1>4. ((h + z + 1 + d) - h - 1) \div w = q
  BY <1>2, <1>3
<1> QED BY <1>4

\* Where the entry of a field begins.
LEMMA BeginIs ==
  ASSUME NEW l, l.head \in Nat, l.entry \in {1, 2, 4}, NEW e \in Nat, e >= 1
  PROVE  BeginOf(l, e) \in Nat /\ BeginOf(l, e) > l.head
<1> DEFINE z == (e - 1) * l.entry
<1>1. z \in Nat
  OBVIOUS
<1>2. BeginOf(l, e) = l.head + z + 1
  BY DEF BeginOf
<1> HIDE DEF z
<1> QED BY <1>1, <1>2

\* A field between the beginnings of two entries is in the first of them.
LEMMA EntryAt ==
  ASSUME NEW l, l.head \in Nat, l.entry \in {1, 2, 4}, NEW e \in Nat, e >= 1,
         NEW i \in Nat, BeginOf(l, e) <= i, i < BeginOf(l, e) + l.entry
  PROVE  i > l.head /\ EntryOf(l, i) = e /\ FirstOf(l, i) = BeginOf(l, e)
<1> DEFINE w == l.entry
           h == l.head
           q == e - 1
           b == BeginOf(l, e)
           d == i - b
<1>1. w \in Nat \ {0} /\ h \in Nat /\ q \in Nat /\ e = q + 1
  OBVIOUS
<1>2. b = h + q * w + 1 /\ b \in Nat /\ b > h
  BY BeginIs DEF BeginOf
<1>3. EntryOf(l, i) = ((i - h - 1) \div w) + 1
  BY DEF EntryOf
<1>4. b <= i /\ i < b + w
  OBVIOUS
<1> HIDE DEF w, h, q, b
<1>5. d \in Nat /\ d < w /\ i = b + d /\ i > h
  BY <1>1, <1>2, <1>4
<1> HIDE DEF d
<1>6. i = h + q * w + 1 + d
  BY <1>2, <1>5
<1>7. (i - h - 1) \div w = q
  BY <1>1, <1>5, <1>6, Quotient
<1>8. EntryOf(l, i) = e
  BY <1>1, <1>3, <1>7
<1> QED BY <1>5, <1>8 DEF h, FirstOf

\* Every field of the list is in one entry, together with the first of that entry.
LEMMA EntryIs ==
  ASSUME NEW l, l.head \in Nat, l.entry \in {1, 2, 4}, NEW i \in Nat, i > l.head
  PROVE  /\ EntryOf(l, i) \in Nat /\ EntryOf(l, i) >= 1
         /\ FirstOf(l, i) = BeginOf(l, EntryOf(l, i))
         /\ FirstOf(l, i) \in Nat /\ l.head < FirstOf(l, i) /\ FirstOf(l, i) <= i
         /\ i < FirstOf(l, i) + l.entry
         /\ FirstOf(l, FirstOf(l, i)) = FirstOf(l, i)
         /\ EntryOf(l, FirstOf(l, i)) = EntryOf(l, i)
<1> DEFINE w == l.entry
           h == l.head
           a == i - h - 1
           q == a \div w
           r == a % w
           e == q + 1
           b == BeginOf(l, e)
<1>1. w \in Nat \ {0} /\ h \in Nat /\ a \in Nat /\ i = h + 1 + a
  OBVIOUS
<1>2. EntryOf(l, i) = e /\ b = h + (e - 1) * w + 1
  BY DEF EntryOf, BeginOf
<1> HIDE DEF a, w, h
<1>3. q \in Nat /\ r \in 0..(w - 1) /\ a = w * q + r
  BY <1>1, Divided
<1> HIDE DEF q, r, b
<1>4. r \in Nat /\ r < w /\ w * q \in Nat /\ w * q = q * w /\ e \in Nat /\ e >= 1 /\ e - 1 = q
  BY <1>1, <1>3
<1>5. b = h + q * w + 1 /\ b \in Nat /\ h < b /\ b <= i /\ i < b + w
  BY <1>1, <1>2, <1>3, <1>4
<1> HIDE DEF e
<1>6. FirstOf(l, i) = b
  BY <1>2 DEF FirstOf, b
<1>7. EntryOf(l, b) = e /\ FirstOf(l, b) = b
  <2>1. l.head \in Nat /\ l.entry \in {1, 2, 4} /\ e \in Nat /\ e >= 1 /\ b \in Nat
    BY <1>4, <1>5
  <2>2. BeginOf(l, e) <= b /\ b < BeginOf(l, e) + l.entry
    BY <1>1, <1>5 DEF b, w
  <2>3. EntryOf(l, b) = e /\ FirstOf(l, b) = BeginOf(l, e)
    BY <2>1, <2>2, EntryAt
  <2> QED BY <2>3 DEF b
<1> QED BY <1>2, <1>4, <1>5, <1>6, <1>7 DEF b, h, w

\* The entries of a layout.
LEMMA MostIs ==
  ASSUME NEW c, NEW l, WellFormed(c, l)
  PROVE  /\ Most(l) \in Nat /\ Len(l.fields) = l.head + Most(l) * l.entry
         /\ \A i \in 1..Len(l.fields) : i > l.head => EntryOf(l, i) \in 1..Most(l)
         /\ \A e \in 1..Most(l) :
              BeginOf(l, e) \in 1..Len(l.fields) /\ BeginOf(l, e) + l.entry <= Len(l.fields) + 1
<1> DEFINE n == Len(l.fields)
           w == l.entry
           h == l.head
           m == Most(l)
<1>1. n \in Nat /\ h \in Nat /\ h <= n /\ w \in Nat \ {0} /\ (n - h) % w = 0
  BY Dims
<1>2. m = (n - h) \div w
  BY DEF Most
<1> HIDE DEF n, w, h, m
<1>3. n - h \in Nat
  BY <1>1
<1>4. m \in Nat /\ n - h = w * m + 0
  BY <1>1, <1>2, <1>3, Divided
<1>5. w * m \in Nat /\ w * m = m * w /\ n = h + m * w
  BY <1>1, <1>4
<1>6. ASSUME NEW i \in 1..n, i > h PROVE EntryOf(l, i) \in 1..m
  <2> DEFINE e == EntryOf(l, i)
             f == FirstOf(l, i)
  <2>0. i \in Nat /\ l.head \in Nat /\ l.entry \in {1, 2, 4}
    BY <1>1, Dims
  <2>1. e \in Nat /\ e >= 1 /\ f \in Nat /\ f <= i /\ f = h + (e - 1) * w + 1
    BY <2>0, <1>6, EntryIs DEF h, w, BeginOf
  <2> HIDE DEF e, f
  <2>2. (e - 1) * w + 1 <= m * w /\ e - 1 \in Nat
    BY <1>1, <1>5, <2>0, <2>1
  <2>3. ~(e - 1 >= m)
    <3> SUFFICES ASSUME e - 1 >= m PROVE FALSE
      OBVIOUS
    <3>1. (e - 1) * w >= m * w
      BY <1>1, <1>4, <2>2
    <3>2. (e - 1) * w \in Int /\ m * w \in Int
      BY <1>1, <1>4, <2>2
    <3> QED BY <2>2, <3>1, <3>2
  <2>4. e <= m
    BY <1>4, <2>1, <2>3
  <2> QED BY <1>4, <2>1, <2>4 DEF e
<1>7. ASSUME NEW e \in 1..m
      PROVE  BeginOf(l, e) \in 1..n /\ BeginOf(l, e) + w <= n + 1
  <2>1. e \in Nat /\ e >= 1 /\ e <= m /\ e - 1 \in Nat
    BY <1>4
  <2>2. (e - 1) * w <= m * w - w /\ (e - 1) * w \in Nat /\ m * w \in Nat
    <3>1. (e - 1) * w <= (m - 1) * w /\ (m - 1) * w = m * w - w
      BY <1>1, <1>4, <2>1
    <3> QED BY <3>1, <1>1, <1>4, <2>1
  <2>3. BeginOf(l, e) = h + (e - 1) * w + 1
    BY DEF BeginOf, h, w
  <2> QED BY <1>1, <1>5, <2>1, <2>2, <2>3
<1> QED BY <1>4, <1>5, <1>6, <1>7 DEF n, w, h, m

\* The first m entries are the first m times as many fields.
LEMMA EntryWithin ==
  ASSUME NEW l, l.head \in Nat, l.entry \in {1, 2, 4}, NEW i \in Nat, i > l.head, NEW m \in Nat
  PROVE  i <= l.head + m * l.entry <=> EntryOf(l, i) <= m
<1> DEFINE w == l.entry
           h == l.head
           e == EntryOf(l, i)
           f == FirstOf(l, i)
<1>1. w \in Nat \ {0} /\ h \in Nat
  OBVIOUS
<1>2. e \in Nat /\ e >= 1 /\ f \in Nat /\ f <= i /\ f = h + (e - 1) * w + 1 /\ i < f + w
  BY EntryIs DEF BeginOf
<1> HIDE DEF w, h, e, f
<1>3. (e - 1) * w \in Nat /\ m * w \in Nat /\ e * w = (e - 1) * w + w
  BY <1>1, <1>2
<1>4. ASSUME e <= m PROVE i <= h + m * w
  <2>1. e * w <= m * w
    BY <1>1, <1>2, <1>4
  <2> QED BY <2>1, <1>1, <1>2, <1>3
<1>5. ASSUME e > m PROVE i > h + m * w
  <2>1. (e - 1) * w >= m * w
    BY <1>1, <1>2, <1>5
  <2> QED BY <2>1, <1>1, <1>2, <1>3
<1>6. e <= m \/ e > m
  BY <1>2
<1>7. ~(i <= h + m * w /\ i > h + m * w)
  BY <1>1, <1>3
<1>8. ~(e <= m /\ e > m)
  BY <1>2
<1> QED BY <1>4, <1>5, <1>6, <1>7, <1>8 DEF w, h, e

\* The entries that are there.
LEMMA EntriesAre ==
  ASSUME NEW c, NEW l, WellFormed(c, l), NEW o
  PROVE  /\ Entries(l, o) \in SUBSET Nat /\ \A e \in Entries(l, o) : 1 <= e /\ e <= Most(l)
         /\ Cardinality(Entries(l, o)) \in Nat /\ Cardinality(Entries(l, o)) <= Most(l)
         /\ InUse(l, o) \in Nat /\ l.head <= InUse(l, o) /\ InUse(l, o) <= Len(l.fields)
<1> DEFINE S == Entries(l, o)
           C == Cardinality(S)
           m == Most(l)
           w == l.entry
           h == l.head
<1>1. w \in Nat /\ h \in Nat /\ m \in Nat /\ Len(l.fields) = h + m * w
  BY Dims, MostIs
<1>2. S \in SUBSET Nat /\ \A e \in S : 1 <= e /\ e <= m
  <2>1. \A e \in S : e \in 1..m
    BY DEF Entries
  <2> HIDE DEF S, m
  <2>2. \A e \in S : e \in Nat /\ 1 <= e /\ e <= m
    BY <1>1, <2>1
  <2> QED BY <2>2
<1>3. InUse(l, o) = h + C * w
  BY DEF InUse
<1> HIDE DEF S, m, w, h
<1>4. C \in Nat /\ C <= m
  <2>0. m \in Nat /\ m <= m
    BY <1>1
  <2>1. Cardinality(S) \in Nat /\ Rank(S, m) = Cardinality(S) /\ Rank(S, m) <= m
    BY <1>2, <2>0, RankIs
  <2> QED BY <2>1
<1> HIDE DEF C
<1>5. C * w \in Nat /\ C * w <= m * w
  BY <1>1, <1>4
<1> QED BY <1>1, <1>2, <1>3, <1>4, <1>5 DEF C, S, m, w, h

\* A field of the list is in use if its entry is; an entry is there if its first
\* field has a value.
LEMMA EntryHere ==
  ASSUME NEW c, NEW l, WellFormed(c, l), NEW o, NEW i \in 1..Len(l.fields), i > l.head
  PROVE  /\ i <= InUse(l, o) <=> EntryOf(l, i) <= Cardinality(Entries(l, o))
         /\ EntryOf(l, i) \in Entries(l, o) <=> o[FirstOf(l, i)] # ""
<1>1. i \in Nat /\ l.head \in Nat /\ l.entry \in {1, 2, 4} /\ Cardinality(Entries(l, o)) \in Nat
  BY Dims, EntriesAre
<1>2. i <= InUse(l, o) <=> EntryOf(l, i) <= Cardinality(Entries(l, o))
  BY <1>1, EntryWithin DEF InUse
<1>3. EntryOf(l, i) \in 1..Most(l) /\ FirstOf(l, i) = BeginOf(l, EntryOf(l, i))
  BY MostIs DEF FirstOf
<1> QED BY <1>2, <1>3 DEF Entries

\* The field that becomes a field, at the same place of its entry.
PlaceOf(l, i) == i - FirstOf(l, i)

Moves(l, o, i, j) ==
    /\ j \in 1..Len(l.fields) /\ j > l.head /\ i <= j
    /\ EntryOf(l, i) \in 1..Cardinality(Entries(l, o))
    /\ EntryOf(l, j) = Nth(Entries(l, o), EntryOf(l, i))
    /\ PlaceOf(l, j) = PlaceOf(l, i)
    /\ o[FirstOf(l, j)] # ""
    /\ Source(l, o, FirstOf(l, i)) = FirstOf(l, j)

\* Closing up takes the fields of an entry from one that is there, and from the
\* same places in it.
LEMMA SourceIs ==
  ASSUME NEW c, NEW l, WellFormed(c, l), NEW o, NEW i \in 1..Len(l.fields), i > l.head,
         i <= InUse(l, o), NEW j, j = Source(l, o, i)
  PROVE  Moves(l, o, i, j)
<1> DEFINE S == Entries(l, o)
           e == EntryOf(l, i)
           f == FirstOf(l, i)
           q == Nth(S, e)
           b == BeginOf(l, q)
           n == Len(l.fields)
           w == l.entry
<1>1. n \in Nat /\ i \in Nat /\ l.head \in Nat /\ w \in {1, 2, 4} /\ w \in Nat
  BY Dims
<1>2. /\ e \in Nat /\ e >= 1 /\ f = BeginOf(l, e) /\ f \in Nat /\ l.head < f
      /\ f <= i /\ i < f + w /\ FirstOf(l, f) = f /\ EntryOf(l, f) = e
  BY <1>1, EntryIs
<1>3. S \in SUBSET Nat /\ (\A d \in S : 1 <= d /\ d <= Most(l)) /\ Cardinality(S) \in Nat /\ Most(l) \in Nat
  BY EntriesAre, MostIs
<1>4. e \in 1..Cardinality(S)
  <2>1. e <= Cardinality(S)
    BY EntryHere
  <2> HIDE DEF S, e
  <2> QED BY <1>2, <1>3, <2>1
<1> HIDE DEF S, e, q
<1>5. q \in S /\ q \in Nat /\ e <= q
  BY <1>3, <1>4, NthIs DEF q
<1>6. q >= 1 /\ q <= Most(l) /\ q \in 1..Most(l) /\ o[b] # ""
  <2>1. q \in 1..Most(l) /\ o[b] # ""
    BY <1>5 DEF S, Entries
  <2> QED BY <2>1, <1>3, <1>5
<1>7. b \in Nat /\ b > l.head /\ b + w <= n + 1
  <2>1. b \in 1..n /\ b + w <= n + 1
    BY <1>6, MostIs
  <2>2. b > l.head
    BY <1>1, <1>5, <1>6, BeginIs
  <2> QED BY <1>1, <2>1, <2>2
<1>8. j = b + (i - f) /\ ~(f <= l.head)
  <2>1. ~(i <= l.head)
    BY <1>1
  <2> QED BY <1>1, <1>2, <2>1 DEF Source, S, q, e
<1>9. f <= b
  <2>1. f = l.head + (e - 1) * w + 1 /\ b = l.head + (q - 1) * w + 1
    BY <1>2 DEF BeginOf
  <2>2. (e - 1) * w <= (q - 1) * w /\ (e - 1) * w \in Nat /\ (q - 1) * w \in Nat
    <3>1. e \in Nat /\ e >= 1 /\ q \in Nat /\ e <= q /\ w \in Nat
      BY <1>1, <1>2, <1>5
    <3> HIDE DEF w
    <3>2. e - 1 \in Nat /\ q - 1 \in Nat /\ e - 1 <= q - 1
      BY <3>1
    <3> QED BY <3>1, <3>2
  <2> HIDE DEF b, f, w
  <2> QED BY <1>1, <2>1, <2>2
<1> HIDE DEF b, f, w, n
<1>10. j \in Nat /\ b <= j /\ j < b + w /\ j >= 1 /\ j <= n /\ i <= j /\ j > l.head
  BY <1>1, <1>2, <1>7, <1>8, <1>9, SMTT(20)
<1>11. EntryOf(l, j) = q /\ FirstOf(l, j) = b
  <2>1. BeginOf(l, q) <= j /\ j < BeginOf(l, q) + l.entry
    BY <1>10 DEF b, w
  <2>2. l.entry \in {1, 2, 4}
    BY <1>1 DEF w
  <2> QED BY <1>1, <1>5, <1>6, <1>10, <2>1, <2>2, EntryAt DEF b
<1>12. j - b = i - f
  BY <1>1, <1>2, <1>7, <1>8
<1>13. Source(l, o, f) = b
  <2>1. Source(l, o, f) = b + (f - f)
    BY <1>2, <1>8 DEF Source, S, q, e, b
  <2> QED BY <2>1, <1>2, <1>7
<1>14. j \in 1..n
  BY <1>10, <1>1
<1>15. PlaceOf(l, j) = PlaceOf(l, i)
  BY <1>11, <1>12 DEF PlaceOf, f
<1> QED BY <1>4, <1>6, <1>10, <1>11, <1>13, <1>14, <1>15 DEF Moves, S, e, f, q, n

\* The first field of an entry is a field of the list.
LEMMA FirstHere ==
  ASSUME NEW c, NEW l, WellFormed(c, l), NEW i \in 1..Len(l.fields), i > l.head
  PROVE  /\ FirstOf(l, i) \in 1..Len(l.fields) /\ FirstOf(l, i) > l.head /\ FirstOf(l, i) <= i
         /\ FirstOf(l, FirstOf(l, i)) = FirstOf(l, i)
         /\ EntryOf(l, FirstOf(l, i)) = EntryOf(l, i)
         /\ i < FirstOf(l, i) + l.entry
<1>1. i \in Nat /\ i <= Len(l.fields) /\ Len(l.fields) \in Nat /\ l.head \in Nat /\ l.entry \in {1, 2, 4}
  BY Dims
<1>2. /\ FirstOf(l, i) \in Nat /\ l.head < FirstOf(l, i) /\ FirstOf(l, i) <= i
      /\ FirstOf(l, FirstOf(l, i)) = FirstOf(l, i)
      /\ EntryOf(l, FirstOf(l, i)) = EntryOf(l, i)
      /\ i < FirstOf(l, i) + l.entry
  BY <1>1, EntryIs
<1> QED BY <1>1, <1>2

\* The entries close up: what is there comes first, in the order it had.
LEMMA ClosedUpIs ==
  ASSUME NEW c, NEW l, WellFormed(c, l), NEW o, NEW k, k = ClosedUp(l, o)
  PROVE  /\ DOMAIN k = 1..Len(l.fields)
         /\ \A i \in 1..Len(l.fields) :
              /\ i <= l.head => k[i] = o[i]
              /\ i <= InUse(l, o) => k[i] = o[Source(l, o, i)]
              /\ ~(i <= InUse(l, o)) => k[i] = ""
              /\ i > l.head => (k[FirstOf(l, i)] # "" <=> i <= InUse(l, o))
         /\ Entries(l, k) = 1..Cardinality(Entries(l, o))
         /\ InUse(l, k) = InUse(l, o)
         /\ \A i \in 1..Len(l.fields) : i <= InUse(l, o) => Source(l, k, i) = i
<1> DEFINE n == Len(l.fields)
           u == InUse(l, o)
           C == Cardinality(Entries(l, o))
<1>1. n \in Nat /\ DOMAIN l.fields = 1..n /\ l.head \in Nat /\ l.entry \in {1, 2, 4}
  BY Dims
<1>2. DOMAIN k = 1..n /\ \A i \in 1..n : k[i] = IF i <= u THEN o[Source(l, o, i)] ELSE ""
  BY <1>1 DEF ClosedUp
<1>3. u \in Nat /\ l.head <= u /\ u <= n /\ C \in Nat /\ C <= Most(l) /\ Most(l) \in Nat
  BY EntriesAre, MostIs
<1> HIDE DEF n, u, C
<1>4. ASSUME NEW i \in 1..n, i <= l.head PROVE k[i] = o[i]
  <2>1. i <= u
    BY <1>1, <1>3, <1>4
  <2> QED BY <1>2, <1>4, <2>1 DEF Source
<1>5. ASSUME NEW i \in 1..n, i > l.head PROVE k[FirstOf(l, i)] # "" <=> i <= u
  <2> DEFINE f == FirstOf(l, i)
  <2>1. f \in 1..n /\ f > l.head /\ EntryOf(l, f) = EntryOf(l, i)
    BY <1>5, FirstHere DEF n
  <2>2. f <= u <=> i <= u
    BY <1>5, <2>1, EntryHere DEF n, u
  <2>3. ASSUME i <= u PROVE k[f] # ""
    <3> DEFINE j == Source(l, o, i)
    <3>1. o[FirstOf(l, j)] # "" /\ Source(l, o, f) = FirstOf(l, j)
      BY <1>5, <2>3, SourceIs DEF Moves, n, u
    <3> HIDE DEF f, j
    <3>2. k[f] = o[Source(l, o, f)]
      BY <1>2, <2>1, <2>2, <2>3
    <3> QED BY <3>1, <3>2
  <2>4. ASSUME ~(i <= u) PROVE k[f] = ""
    <3> HIDE DEF f
    <3> QED BY <1>2, <2>1, <2>2, <2>4
  <2> QED BY <2>3, <2>4
<1>6. Entries(l, k) = 1..C
  <2>1. ASSUME NEW e \in 1..Most(l) PROVE k[BeginOf(l, e)] # "" <=> e <= C
    <3> DEFINE b == BeginOf(l, e)
    <3>1. b \in 1..n
      BY MostIs DEF n
    <3>2. e \in Nat /\ e >= 1 /\ b \in Nat
      BY <1>3, <3>1, <1>1
    <3>3. b > l.head
      BY <1>1, <3>2, BeginIs
    <3>4. b < b + l.entry
      BY <1>1, <3>2
    <3>5. EntryOf(l, b) = e /\ FirstOf(l, b) = b
      BY <1>1, <3>2, <3>4, EntryAt
    <3>6. b <= u <=> e <= C
      BY <3>1, <3>3, <3>5, EntryHere DEF n, u, C
    <3>7. k[FirstOf(l, b)] # "" <=> b <= u
      BY <1>5, <3>1, <3>3
    <3> QED BY <3>5, <3>6, <3>7
  <2>2. \A e : e \in Entries(l, k) <=> e \in 1..Most(l) /\ k[BeginOf(l, e)] # ""
    BY DEF Entries
  <2>3. \A e : e \in 1..C <=> e \in 1..Most(l) /\ e <= C
    BY <1>3
  <2>4. \A e : e \in Entries(l, k) <=> e \in 1..C
    BY <2>1, <2>2, <2>3
  <2> QED BY <2>4
<1>7. InUse(l, k) = u
  <2>1. Cardinality(1..C) = C
    BY <1>3, FS_Interval
  <2> QED BY <1>6, <2>1 DEF InUse, u, C
<1>8. ASSUME NEW i \in 1..n, i <= u PROVE Source(l, k, i) = i
  <2>1. CASE i <= l.head
    BY <2>1 DEF Source
  <2>2. CASE ~(i <= l.head)
    <3> DEFINE e == EntryOf(l, i)
               f == FirstOf(l, i)
    <3>1. i \in Nat /\ i > l.head
      BY <1>1, <2>2
    <3>2. e \in 1..C
      BY <1>8, <3>1, SourceIs DEF Moves, n, u, C
    <3>3. f = BeginOf(l, e) /\ f \in Nat
      BY <1>1, <3>1, EntryIs
    <3>4. Nth(Entries(l, k), e) = e
      <4> HIDE DEF e
      <4> QED BY <1>3, <1>6, <3>2, NthOfAll
    <3>5. Source(l, k, i) = f + (i - f)
      BY <2>2, <3>3, <3>4 DEF Source
    <3> QED BY <3>1, <3>3, <3>5
  <2> QED BY <2>1, <2>2
<1> QED BY <1>2, <1>4, <1>5, <1>6, <1>7, <1>8 DEF n, u, C

\* Closing up leaves the fields before the list alone.
LEMMA ClosedHead ==
  ASSUME NEW c, NEW l, WellFormed(c, l), NEW o, NEW k, k = ClosedUp(l, o),
         NEW i \in 1..Len(l.fields), i <= l.head
  PROVE  k[i] = o[i]
<1> DEFINE n == Len(l.fields)
           u == InUse(l, o)
           h == l.head
<1>1. n \in Nat /\ DOMAIN l.fields = 1..n /\ h \in Nat
  BY Dims
<1>2. u \in Nat /\ h <= u
  BY EntriesAre
<1>3. i \in 1..n /\ i <= h
  OBVIOUS
<1> HIDE DEF n, u, h
<1>4. i <= u
  BY <1>1, <1>2, <1>3
<1>5. Source(l, o, i) = i
  BY <1>3 DEF Source, h
<1>6. k[i] = IF i <= u THEN o[Source(l, o, i)] ELSE ""
  BY <1>1, <1>3 DEF ClosedUp, u
<1> QED BY <1>4, <1>5, <1>6

\* Closing up loses no entry.
LEMMA ClosedUse ==
  ASSUME NEW c, NEW l, WellFormed(c, l), NEW o, NEW k, k = ClosedUp(l, o)
  PROVE  InUse(l, k) = InUse(l, o)
BY ClosedUpIs, ZenonT(40)

\* What is closed up stays as it is.
LEMMA ClosedTwice ==
  ASSUME NEW c, NEW l, WellFormed(c, l), NEW o, NEW k, k = ClosedUp(l, o)
  PROVE  \A i \in 1..Len(l.fields) : ClosedUp(l, k)[i] = k[i]
<1> TAKE i \in 1..Len(l.fields)
<1> DEFINE q == ClosedUp(l, k)
<1>1. \A j \in 1..Len(l.fields) :
        /\ j <= InUse(l, k) => q[j] = k[Source(l, k, j)]
        /\ ~(j <= InUse(l, k)) => q[j] = ""
  BY ClosedUpIs, ZenonT(40)
<1>2. InUse(l, k) = InUse(l, o) /\ (i <= InUse(l, o) => Source(l, k, i) = i)
      /\ (~(i <= InUse(l, o)) => k[i] = "")
  BY ClosedUpIs
<1> QED BY <1>1, <1>2

-----------------------------------------------------------------------------
(***************************************************************************)
(* What is true of the members of an object, whatever has made it: a value *)
(* is one the member may hold, units and what is not read have none, the   *)
(* checks would let it pass but for what they refuse of the code's own,    *)
(* signs agree with hemispheres, values that make one member are all       *)
(* there, an entry that is not there has nothing, appended ones come first.*)
(***************************************************************************)
HoldsHere(l, o, i) ==
    \/ o[i] \in Holds(l, i)
    \/ o[i] = "" /\ (l.fields[i].part = "unread" \/ (i > l.head /\ o[FirstOf(l, i)] = ""))
UnsetHere(l, o, i) == l.fields[i].part \in {"unit", "unread"} => o[i] = ""
PassesHere(c, l, o, i) ==
    l.fields[i].part # "unit" => o[i] \in l.fields[i].only \/ Excused(c, l, i, o[i])
NeededHere(l, o, i) == l.fields[i].needed /\ o[i - 1] # "" => o[i] # ""
SideHere(l, o, i) ==
    LET f == l.fields[i]
    IN  f.part = "hemisphere" /\ o[i] # "" /\ o[i - 1] # ""
          => /\ o[i] \in {f.sides[1], f.sides[2]}
             /\ o[i - 1] \in {"1", "-1"} => (o[i - 1] = "-1" <=> o[i] = f.sides[2])
SignHere(l, o, i) == o[i] = "-1" => SignFollows(l, i) /\ o[i + 1] # ""
JointHere(l, o, i) ==
    l.fields[i].part = "joint" /\ o[i] # "" => \A j \in Group(l, Leader(l, i)) : o[j] # ""
WholeHere(l, o, i) == i > l.head /\ o[FirstOf(l, i)] = "" => o[i] = ""
InOrderHere(l, o, i) ==
    l.append /\ i > l.head /\ o[i] # "" => \A j \in (l.head + 1)..i : o[j] # ""

ValidHere(c, l, o, i) ==
    /\ HoldsHere(l, o, i)
    /\ UnsetHere(l, o, i)
    /\ PassesHere(c, l, o, i)
    /\ NeededHere(l, o, i)
    /\ SideHere(l, o, i)
    /\ SignHere(l, o, i)
    /\ JointHere(l, o, i)
    /\ WholeHere(l, o, i)
SoundHere(c, l, o, i) == ValidHere(c, l, o, i) /\ InOrderHere(l, o, i)

AllValid(c, l, o) == \A i \in 1..Len(l.fields) : ValidHere(c, l, o, i)
Sound(c, l, o) ==
    /\ o = [i \in 1..Len(l.fields) |-> o[i]]
    /\ \A i \in 1..Len(l.fields) : SoundHere(c, l, o, i)

\* What the proofs need of the parts of a layout.
LEMMA LeaderIs ==
  ASSUME NEW c, NEW l, WellFormed(c, l), NEW i \in 1..Len(l.fields)
  PROVE  l.fields[i].with \in 0..(i - 1) /\ Leader(l, i) = i - l.fields[i].with /\ Leader(l, i) \in 1..i
<1>1. Len(l.fields) \in Nat
  BY Dims
<1>2. l.fields[i].with \in 0..(i - 1)
  BY Fits DEF PartsFit
<1>3. ASSUME NEW w \in 0..(i - 1) PROVE i - w \in 1..i
  BY <1>1
<1> QED BY <1>2, <1>3 DEF Leader

\* What the part of a field says of the fields next to it.
LEMMA PartFacts ==
  ASSUME NEW c, NEW l, WellFormed(c, l), NEW i \in 1..Len(l.fields)
  PROVE  /\ l.fields[i].part \in {"member", "joint", "hemisphere", "unit", "unread"}
         /\ l.fields[i].part \in {"unit", "unread"} => l.fields[i].with = 0 /\ i <= l.head /\ ~l.fields[i].needed
         /\ l.fields[i].part \in {"unit", "unread"} => Initial(l)[i] = ""
         /\ l.fields[i].part = "hemisphere" => 1 < i /\ i <= l.head /\ l.fields[i].with = 1 /\ SignFollows(l, i - 1)
         /\ SignFollows(l, i) => l.fields[i].part = "member" /\ l.fields[i].with = 0 /\ i + 1 \in 1..Len(l.fields)
         /\ l.fields[i].needed => /\ 1 < i /\ i <= l.head /\ l.fields[i].part = "member" /\ l.fields[i].with = 1
                        /\ i - 1 \in 1..Len(l.fields)
                        /\ l.fields[i - 1].part = "member" /\ l.fields[i - 1].with = 0
         /\ i > l.head => l.fields[i].part = "member" /\ ~l.fields[i].needed /\ ~l.fields[i].old /\ FirstOf(l, i) = i - l.fields[i].with
         /\ l.fields[i].part = "joint" => i <= l.head /\ \A j \in Group(l, Leader(l, i)) : l.fields[j].part = "joint"
<1> DEFINE f == l.fields[i]
<1>1. PartsFit(l, i) /\ EntriesFit(l, i)
  BY Fits
<1>2. Len(l.fields) \in Nat /\ l.head \in Nat /\ l.head <= Len(l.fields)
  BY Dims
<1>3. /\ f.part \in {"member", "joint", "hemisphere", "unit", "unread"}
      /\ f.with \in 0..(i - 1)
      /\ f.part \in {"unit", "unread"} => f.with = 0 /\ i <= l.head /\ ~f.needed
      /\ f.part \in {"unit", "unread"} => Initial(l)[i] = ""
      /\ f.part = "joint" => i <= l.head /\ \A j \in Group(l, Leader(l, i)) : l.fields[j].part = "joint"
  BY <1>1 DEF PartsFit
<1>4. /\ f.part = "hemisphere" => 1 < i /\ i <= l.head /\ f.with = 1
      /\ SignFollows(l, i) => f.part = "member" /\ f.with = 0
      /\ f.needed => /\ 1 < i /\ i <= l.head /\ f.part = "member" /\ f.with = 1
                     /\ l.fields[i - 1].part = "member" /\ l.fields[i - 1].with = 0
  BY <1>1 DEF PartsFit
<1>5. i > l.head => f.part = "member" /\ ~f.needed /\ ~f.old /\ FirstOf(l, i) = i - f.with
  BY <1>1 DEF EntriesFit
<1>6. f.part = "hemisphere" => SignFollows(l, i - 1)
  <2>1. f.part = "hemisphere" => i - 1 < Len(l.fields) /\ (i - 1) + 1 = i
    BY <1>2, <1>4
  <2> QED BY <2>1 DEF SignFollows
<1>7. SignFollows(l, i) => i + 1 \in 1..Len(l.fields)
  BY <1>2 DEF SignFollows
<1>8. f.needed => i - 1 \in 1..Len(l.fields)
  BY <1>2, <1>4
<1> QED BY <1>3, <1>4, <1>5, <1>6, <1>7, <1>8

\* Members of a group.
LEMMA GroupIs ==
  ASSUME NEW c, NEW l, WellFormed(c, l), NEW i
  PROVE  \A j : j \in Group(l, i) <=> j \in 1..Len(l.fields) /\ Leader(l, j) = i
BY Dims DEF Group

\* Entries of a single field.
LEMMA Single ==
  ASSUME NEW c, NEW l, WellFormed(c, l), l.entry = 1, NEW i \in 1..Len(l.fields), i > l.head
  PROVE  FirstOf(l, i) = i /\ l.fields[i].with = 0 /\ EntryOf(l, i) = i - l.head
<1>1. Len(l.fields) \in Nat /\ l.head \in Nat /\ i \in Nat
  BY Dims
<1>2. FirstOf(l, i) \in Nat /\ FirstOf(l, i) <= i /\ i < FirstOf(l, i) + 1
  BY <1>1, EntryIs
<1>3. FirstOf(l, i) = i
  BY <1>1, <1>2
<1>4. FirstOf(l, i) = i - l.fields[i].with /\ l.fields[i].with \in 0..(i - 1)
  BY PartFacts, LeaderIs
<1>5. ASSUME NEW w \in 0..(i - 1), i = i - w PROVE w = 0
  BY <1>1, <1>5
<1>6. l.fields[i].with = 0
  BY <1>3, <1>4, <1>5
<1>7. EntryOf(l, i) \in Nat /\ FirstOf(l, i) = l.head + (EntryOf(l, i) - 1) * 1 + 1
  BY <1>1, EntryIs DEF BeginOf
<1>8. ASSUME NEW e \in Nat, i = l.head + (e - 1) * 1 + 1 PROVE e = i - l.head
  BY <1>1, <1>8
<1> QED BY <1>3, <1>6, <1>7, <1>8

\* The default constructor makes a sound object.
LEMMA InitialSound ==
  ASSUME NEW c, NEW l, WellFormed(c, l)
  PROVE  Sound(c, l, Initial(l))
<1> DEFINE n == Len(l.fields)
           o == Initial(l)
<1>1. n \in Nat /\ DOMAIN l.fields = 1..n /\ l.head \in Nat
  BY Dims
<1>2. o = [i \in 1..n |-> o[i]]
  BY <1>1 DEF Initial
<1> SUFFICES ASSUME NEW i \in 1..n PROVE SoundHere(c, l, o, i)
  BY <1>2 DEF Sound
<1> DEFINE f == l.fields[i]
<1>3. PartsFit(l, i) /\ ValuesFit(c, l, i) /\ EntriesFit(l, i)
  BY Fits
<1>4. i > l.head => o[i] = ""
  BY <1>1, <1>3 DEF EntriesFit, Initial
<1>5. HoldsHere(l, o, i)
  <2>1. o[i] \in Holds(l, i) \/ (o[i] = "" /\ (i > l.head \/ f.part = "unread"))
    BY <1>3 DEF ValuesFit
  <2>2. i > l.head => o[FirstOf(l, i)] = ""
    <3>1. SUFFICES ASSUME i > l.head PROVE o[FirstOf(l, i)] = ""
      OBVIOUS
    <3> DEFINE k == FirstOf(l, i)
    <3>2. k \in 1..n /\ k > l.head
      BY <3>1, FirstHere
    <3>3. EntriesFit(l, k)
      BY <3>2, Fits
    <3> HIDE DEF k
    <3>4. o[k] = ""
      BY <1>1, <3>2, <3>3 DEF EntriesFit, Initial
    <3> QED BY <3>4 DEF k
  <2> QED BY <2>1, <2>2 DEF HoldsHere
<1>6. UnsetHere(l, o, i)
  BY <1>3 DEF PartsFit, UnsetHere
<1>7. PassesHere(c, l, o, i)
  BY <1>3 DEF ValuesFit, PassesHere
<1>8. NeededHere(l, o, i)
  BY <1>3 DEF PartsFit, NeededHere
<1>9. SideHere(l, o, i)
  <2>1. f.part = "hemisphere" => /\ 1 < i
                                 /\ o[i] \in {f.sides[1], ""}
                                 /\ f.sides[1] # f.sides[2]
    BY <1>3 DEF PartsFit
  <2>2. f.part = "hemisphere" => o[i - 1] # "-1"
    <3>1. SUFFICES ASSUME 1 < i PROVE o[i - 1] # "-1"
      BY <2>1
    <3>2. i - 1 \in 1..n
      BY <1>1, <3>1
    <3>3. ValuesFit(c, l, i - 1)
      BY <3>2, Fits
    <3> QED BY <3>3 DEF ValuesFit
  <2> QED BY <2>1, <2>2 DEF SideHere
<1>10. SignHere(l, o, i)
  BY <1>3 DEF ValuesFit, SignHere
<1>11. JointHere(l, o, i)
  BY <1>3 DEF PartsFit, JointHere
<1>12. WholeHere(l, o, i)
  BY <1>4 DEF WholeHere
<1>13. InOrderHere(l, o, i)
  BY <1>4 DEF InOrderHere
<1> QED BY <1>5, <1>6, <1>7, <1>8, <1>9, <1>10, <1>11, <1>12, <1>13 DEF SoundHere, ValidHere

\* What a setter gives to the members of a group, and where it may append.
GivenTo(l, i, g) ==
    /\ DOMAIN g = Group(l, i)
    /\ \A j \in Group(l, i) :
         /\ g[j] \in l.fields[j].args
         /\ l.fields[j].part = "hemisphere"
              => g[j] = l.fields[j].sides[IF g[i] = "-1" THEN 2 ELSE 1]
Appends(l, o, i) ==
    l.append /\ i > l.head => \A j \in (l.head + 1)..Len(l.fields) : j < i <=> o[j] # ""
AfterSet(o, g) == [j \in DOMAIN o |-> IF j \in DOMAIN g THEN g[j] ELSE o[j]]

\* A setter of a group keeps an object sound.
LEMMA SetSound ==
  ASSUME NEW c, NEW l, WellFormed(c, l), NEW o, Sound(c, l, o),
         NEW i \in 1..Len(l.fields), i \in Leaders(l), NEW g, GivenTo(l, i, g), Appends(l, o, i),
         NEW p, p = AfterSet(o, g)
  PROVE  Sound(c, l, p)
<1> DEFINE n == Len(l.fields)
           G == Group(l, i)
<1>1. n \in Nat /\ DOMAIN l.fields = 1..n /\ l.head \in Nat /\ l.head <= n
  BY Dims
<1>2. DOMAIN o = 1..n
  BY DEF Sound
<1>3. p = [j \in 1..n |-> p[j]] /\ \A j \in 1..n : p[j] = IF j \in G THEN g[j] ELSE o[j]
  BY <1>2 DEF AfterSet, GivenTo
<1>4. i \in 1..n /\ l.fields[i].part \in {"member", "joint"} /\ l.fields[i].with = 0 /\ Leader(l, i) = i
  <2>1. i \in 1..n /\ l.fields[i].part \in {"member", "joint"} /\ l.fields[i].with = 0
    BY DEF Leaders
  <2> QED BY <2>1 DEF Leader
<1>5. \A j : j \in G <=> j \in 1..n /\ Leader(l, j) = i
  BY GroupIs
<1>6. i \in G
  BY <1>4, <1>5
<1>7. \A j \in G : g[j] \in l.fields[j].args
  BY DEF GivenTo
<1>8. \A j \in 1..n : SoundHere(c, l, o, j)
  BY DEF Sound
<1>9. \A j \in G : l.fields[j].part = "hemisphere" => g[j] = l.fields[j].sides[IF g[i] = "-1" THEN 2 ELSE 1]
  BY DEF GivenTo
<1>10. l.append /\ i > l.head => \A j \in (l.head + 1)..n : j < i <=> o[j] # ""
  BY DEF Appends
<1> HIDE DEF n, G
<1> SUFFICES ASSUME NEW j \in 1..n PROVE SoundHere(c, l, p, j)
  BY <1>3 DEF Sound, n
<1> DEFINE f == l.fields[j]
<1>11. SoundHere(c, l, o, j)
  BY <1>8
<1>12. PartsFit(l, j) /\ ValuesFit(c, l, j) /\ EntriesFit(l, j)
  BY Fits DEF n
<1>13. /\ f.part \in {"unit", "unread"} => f.with = 0
       /\ Leader(l, j) = j - f.with /\ Leader(l, j) \in 1..j
       /\ f.part = "hemisphere" => 1 < j /\ f.with = 1 /\ SignFollows(l, j - 1)
       /\ SignFollows(l, j) => f.part = "member" /\ f.with = 0 /\ j + 1 \in 1..n
       /\ f.needed => /\ 1 < j /\ f.with = 1 /\ j - 1 \in 1..n /\ l.fields[j - 1].with = 0
       /\ j > l.head => f.part = "member" /\ FirstOf(l, j) = j - f.with
       /\ f.part = "joint" => \A k \in Group(l, Leader(l, j)) : l.fields[k].part = "joint"
  <2>1. f.part \in {"unit", "unread"} => f.with = 0
    BY PartFacts DEF n
  <2>2. Leader(l, j) = j - f.with /\ Leader(l, j) \in 1..j
    BY LeaderIs DEF n
  <2>3. f.part = "hemisphere" => 1 < j /\ f.with = 1 /\ SignFollows(l, j - 1)
    BY PartFacts DEF n
  <2>4. SignFollows(l, j) => f.part = "member" /\ f.with = 0 /\ j + 1 \in 1..n
    BY PartFacts DEF n
  <2>5. /\ f.needed => /\ 1 < j /\ f.with = 1 /\ j - 1 \in 1..n /\ l.fields[j - 1].with = 0
        /\ f.part = "joint" => \A k \in Group(l, Leader(l, j)) : l.fields[k].part = "joint"
    BY PartFacts DEF n
  <2>6. j > l.head => f.part = "member" /\ FirstOf(l, j) = j - f.with
    BY PartFacts DEF n
  <2> QED BY <2>1, <2>2, <2>3, <2>4, <2>5, <2>6
\* the first of the entry of a field is in the group with it
<1>14. ASSUME j > l.head
       PROVE  /\ FirstOf(l, j) \in 1..n /\ FirstOf(l, j) = Leader(l, j)
              /\ j \in G <=> FirstOf(l, j) \in G
              /\ FirstOf(l, j) \in G => g[FirstOf(l, j)] # ""
  <2> DEFINE k == FirstOf(l, j)
  <2>1. k \in 1..n /\ k > l.head /\ FirstOf(l, k) = k /\ k <= j
    BY <1>14, FirstHere DEF n
  <2>2. k = Leader(l, j)
    BY <1>13, <1>14
  <2> HIDE DEF k
  <2>3. FirstOf(l, k) = k - l.fields[k].with /\ l.fields[k].with \in 0..(k - 1) /\ Leader(l, k) = k - l.fields[k].with
    <3>1. FirstOf(l, k) = k - l.fields[k].with
      BY <2>1, PartFacts DEF n
    <3> QED BY <2>1, <3>1, LeaderIs DEF n
  <2>4. l.fields[k].with = 0
    <3>1. k \in Nat
      BY <1>1, <2>1
    <3>2. ASSUME NEW w \in 0..(k - 1), k = k - w PROVE w = 0
      BY <3>1, <3>2
    <3> QED BY <2>1, <2>3, <3>2
  <2>5. Leader(l, k) = k
    BY <2>1, <2>3
  <2>6. j \in G <=> k \in G
    BY <1>5, <2>1, <2>2, <2>5
  <2>7. EntriesFit(l, k)
    BY <2>1, Fits DEF n
  <2>8. "" \notin l.fields[k].args
    BY <2>1, <2>4, <2>7 DEF EntriesFit
  <2>9. k \in G => g[k] # ""
    BY <1>7, <2>8
  <2> QED BY <2>1, <2>2, <2>6, <2>9 DEF k
<1>15. CASE j \in G
  <2>1. p[j] = g[j] /\ g[j] \in f.args
    BY <1>3, <1>7, <1>15
  <2>2. Leader(l, j) = i
    BY <1>5, <1>15
  <2>3. f.part \notin {"unit", "unread"}
    <3>1. SUFFICES ASSUME f.part \in {"unit", "unread"} PROVE FALSE
      OBVIOUS
    <3>2. j = i
      BY <1>1, <1>13, <2>2, <3>1
    <3> QED BY <1>4, <3>1, <3>2
  <2>4. HoldsHere(l, p, j)
    BY <1>12, <2>1 DEF ValuesFit, HoldsHere
  <2>5. UnsetHere(l, p, j)
    BY <2>3 DEF UnsetHere
  <2>6. PassesHere(c, l, p, j)
    BY <1>12, <2>1 DEF ValuesFit, PassesHere
  <2>7. NeededHere(l, p, j)
    BY <1>12, <2>1 DEF PartsFit, NeededHere
  <2>8. SideHere(l, p, j)
    <3>1. SUFFICES ASSUME f.part = "hemisphere"
                   PROVE  /\ p[j] \in {f.sides[1], f.sides[2]}
                          /\ p[j - 1] \in {"1", "-1"} => (p[j - 1] = "-1" <=> p[j] = f.sides[2])
      BY DEF SideHere
    <3>2. j - 1 = i /\ f.sides[1] # f.sides[2]
      BY <1>12, <1>13, <2>2, <3>1 DEF PartsFit
    <3>3. p[i] = g[i]
      BY <1>3, <1>4, <1>6
    <3>4. g[j] = f.sides[IF g[i] = "-1" THEN 2 ELSE 1]
      BY <1>9, <1>15, <3>1
    <3>5. CASE g[i] = "-1"
      <4>1. g[j] = f.sides[2]
        BY <3>4, <3>5
      <4> QED BY <2>1, <3>2, <3>3, <3>5, <4>1
    <3>6. CASE g[i] # "-1"
      <4>1. g[j] = f.sides[1]
        BY <3>4, <3>6
      <4> QED BY <2>1, <3>2, <3>3, <3>6, <4>1
    <3> QED BY <3>5, <3>6
  <2>9. SignHere(l, p, j)
    <3>1. SUFFICES ASSUME p[j] = "-1" PROVE SignFollows(l, j) /\ p[j + 1] # ""
      BY DEF SignHere
    <3>2. SignFollows(l, j)
      BY <1>12, <2>1, <3>1 DEF ValuesFit
    <3>3. j + 1 \in 1..n /\ j = i
      BY <1>1, <1>13, <2>2, <3>2
    <3>4. l.fields[j + 1].part = "hemisphere"
      BY <3>2 DEF SignFollows
    <3>5. PartsFit(l, j + 1)
      BY <3>3, Fits DEF n
    <3>6. l.fields[j + 1].with = 1 /\ "" \notin l.fields[j + 1].args
      BY <3>4, <3>5 DEF PartsFit
    <3>7. Leader(l, j + 1) = i
      <4>1. (j + 1) - 1 = j
        BY <1>1
      <4> QED BY <3>3, <3>6, <4>1 DEF Leader
    <3>8. j + 1 \in G
      BY <1>5, <3>3, <3>7
    <3>9. p[j + 1] = g[j + 1] /\ g[j + 1] \in l.fields[j + 1].args
      BY <1>3, <1>7, <3>3, <3>8
    <3> QED BY <3>2, <3>6, <3>9
  <2>10. JointHere(l, p, j)
    <3>1. SUFFICES ASSUME f.part = "joint", NEW k \in Group(l, Leader(l, j)) PROVE p[k] # ""
      BY DEF JointHere
    <3>2. k \in G /\ k \in 1..n
      BY <1>5, <2>2 DEF G
    <3>3. l.fields[k].part = "joint"
      BY <1>13, <3>1
    <3>4. PartsFit(l, k)
      BY <3>2, Fits DEF n
    <3>5. "" \notin l.fields[k].args
      BY <3>3, <3>4 DEF PartsFit
    <3> QED BY <1>3, <1>7, <3>2, <3>5
  <2>11. WholeHere(l, p, j)
    <3>1. SUFFICES ASSUME j > l.head PROVE p[FirstOf(l, j)] # ""
      BY DEF WholeHere
    <3> QED BY <1>3, <1>14, <1>15, <3>1
  <2>12. InOrderHere(l, p, j)
    <3>1. SUFFICES ASSUME l.append, j > l.head, p[j] # "", NEW k \in (l.head + 1)..j PROVE p[k] # ""
      BY DEF InOrderHere
    <3>2. l.entry = 1
      BY <3>1, Dims
    <3>3. FirstOf(l, j) = j
      BY <3>1, <3>2, Single DEF n
    <3>4. j = i
      BY <1>14, <2>2, <3>1, <3>3
    <3>5. k < i => o[k] # ""
      <4>1. k \in (l.head + 1)..n
        BY <1>1
      <4> QED BY <1>10, <3>1, <3>4, <4>1
    <3>6. k \in 1..n
      BY <1>1
    <3>7. k = i \/ (k < i /\ k # i)
      BY <1>1, <3>4
    <3>8. k < i => k \notin G \/ g[k] # ""
      <4>1. SUFFICES ASSUME k \in G PROVE g[k] # ""
        OBVIOUS
      <4>2. k > l.head
        BY <1>1
      <4>3. l.fields[k].with = 0
        BY <3>2, <3>6, <4>2, Single DEF n
      <4>4. EntriesFit(l, k)
        BY <3>6, Fits DEF n
      <4>6. "" \notin l.fields[k].args
        BY <4>2, <4>3, <4>4 DEF EntriesFit
      <4> QED BY <1>7, <4>1, <4>6
    <3>9. p[i] # ""
      BY <3>1, <3>4
    <3> QED BY <1>3, <3>5, <3>6, <3>7, <3>8, <3>9
  <2> QED BY <2>4, <2>5, <2>6, <2>7, <2>8, <2>9, <2>10, <2>11, <2>12 DEF SoundHere, ValidHere
<1>16. CASE j \notin G
  <2>1. p[j] = o[j]
    BY <1>3, <1>16
  <2>2. Leader(l, j) # i
    BY <1>5, <1>16
  <2>3. HoldsHere(l, p, j)
    <3>1. j > l.head => p[FirstOf(l, j)] = o[FirstOf(l, j)]
      BY <1>3, <1>14, <1>16
    <3> QED BY <1>11, <2>1, <3>1 DEF SoundHere, ValidHere, HoldsHere
  <2>4. UnsetHere(l, p, j) /\ PassesHere(c, l, p, j)
    BY <1>11, <2>1 DEF SoundHere, ValidHere, UnsetHere, PassesHere
  <2>5. NeededHere(l, p, j)
    <3>1. SUFFICES ASSUME f.needed PROVE p[j - 1] = o[j - 1]
      BY <1>11, <2>1 DEF SoundHere, ValidHere, NeededHere
    <3>2. Leader(l, j - 1) = j - 1 /\ Leader(l, j) = j - 1 /\ j - 1 \in 1..n
      BY <1>1, <1>13, <3>1 DEF Leader
    <3> QED BY <1>3, <1>5, <2>2, <3>2
  <2>6. SideHere(l, p, j)
    <3>1. SUFFICES ASSUME f.part = "hemisphere" PROVE p[j - 1] = o[j - 1]
      BY <1>11, <2>1 DEF SoundHere, ValidHere, SideHere
    <3>2. j - 1 \in 1..n /\ SignFollows(l, j - 1)
      BY <1>1, <1>13, <3>1
    <3>3. l.fields[j - 1].with = 0
      <4>1. ASSUME NEW k \in 1..n, SignFollows(l, k) PROVE l.fields[k].with = 0
        BY <4>1, PartFacts DEF n
      <4> QED BY <3>2, <4>1
    <3>4. Leader(l, j - 1) = j - 1 /\ Leader(l, j) = j - 1
      BY <1>1, <1>13, <3>1, <3>2, <3>3 DEF Leader
    <3> QED BY <1>3, <1>5, <2>2, <3>2, <3>4
  <2>7. SignHere(l, p, j)
    <3>1. SUFFICES ASSUME p[j] = "-1" PROVE SignFollows(l, j) /\ p[j + 1] # ""
      BY DEF SignHere
    <3>2. SignFollows(l, j) /\ o[j + 1] # ""
      BY <1>11, <2>1, <3>1 DEF SoundHere, ValidHere, SignHere
    <3>3. j + 1 \in 1..n /\ f.with = 0 /\ Leader(l, j) = j
      <4>1. j - 0 = j
        BY <1>1
      <4> QED BY <1>13, <3>2, <4>1
    <3>4. l.fields[j + 1].part = "hemisphere"
      BY <3>2 DEF SignFollows
    <3>5. l.fields[j + 1].with = 1
      BY <3>3, <3>4, PartFacts DEF n
    <3>6. Leader(l, j + 1) = j
      BY <1>1, <3>3, <3>5 DEF Leader
    <3>7. j + 1 \notin G
      BY <1>5, <2>2, <3>3, <3>6
    <3> QED BY <1>3, <3>2, <3>3, <3>7
  <2>8. JointHere(l, p, j)
    <3>1. SUFFICES ASSUME f.part = "joint", o[j] # "", NEW k \in Group(l, Leader(l, j)) PROVE p[k] # ""
      BY <2>1 DEF JointHere
    <3>2. o[k] # ""
      BY <1>11, <3>1 DEF SoundHere, ValidHere, JointHere
    <3>3. k \in 1..n /\ Leader(l, k) = Leader(l, j)
      BY GroupIs DEF n
    <3> QED BY <1>3, <1>5, <2>2, <3>2, <3>3
  <2>9. WholeHere(l, p, j)
    <3>1. j > l.head => p[FirstOf(l, j)] = o[FirstOf(l, j)]
      BY <1>3, <1>14, <1>16
    <3> QED BY <1>11, <2>1, <3>1 DEF SoundHere, ValidHere, WholeHere
  <2>10. InOrderHere(l, p, j)
    <3>1. SUFFICES ASSUME l.append, j > l.head, o[j] # "", NEW k \in (l.head + 1)..j PROVE p[k] # ""
      BY <2>1 DEF InOrderHere
    <3>2. o[k] # ""
      BY <1>11, <3>1 DEF SoundHere, ValidHere, InOrderHere
    <3>3. k \in 1..n /\ k > l.head
      BY <1>1
    <3>4. CASE k \in G
      <4>1. l.entry = 1
        BY <3>1, Dims
      <4>2. l.fields[k].with = 0
        BY <3>3, <4>1, Single DEF n
      <4>3. EntriesFit(l, k)
        BY <3>3, Fits DEF n
      <4>4. "" \notin l.fields[k].args
        BY <3>3, <4>2, <4>3 DEF EntriesFit
      <4> QED BY <1>3, <1>7, <3>3, <3>4, <4>4
    <3>5. CASE k \notin G
      BY <1>3, <3>2, <3>3, <3>5
    <3> QED BY <3>4, <3>5
  <2> QED BY <2>3, <2>4, <2>5, <2>6, <2>7, <2>8, <2>9, <2>10 DEF SoundHere, ValidHere
<1> QED BY <1>15, <1>16

\* A call that gives the list some entries.
GivenToList(l, m, g) ==
    \A j \in (l.head + 1)..(l.head + m * l.entry) : g[j] \in l.fields[j].args
AfterSetList(l, o, m, g) ==
    [j \in DOMAIN o |->
        IF j \in (l.head + 1)..(l.head + m * l.entry) THEN g[j]
        ELSE IF j > l.head THEN "" ELSE o[j]]

\* A setter of a whole list leaves a sound object.
LEMMA SetListSound ==
  ASSUME NEW c, NEW l, WellFormed(c, l), NEW o, Sound(c, l, o), NEW m \in 0..Most(l), NEW g,
         GivenToList(l, m, g), NEW p, p = AfterSetList(l, o, m, g)
  PROVE  Sound(c, l, p)
<1> DEFINE n == Len(l.fields)
           u == l.head + m * l.entry
           P == (l.head + 1)..u
<1>1. n \in Nat /\ DOMAIN l.fields = 1..n /\ l.head \in Nat /\ l.head <= n
  BY Dims
<1>2. m \in Nat /\ u \in Nat
  <2>1. Most(l) \in Nat
    BY MostIs
  <2>2. m \in Nat
    BY <2>1
  <2>3. l.entry \in Nat
    BY Dims
  <2>4. m * l.entry \in Nat
    BY <2>2, <2>3
  <2> QED BY <1>1, <2>2, <2>4
<1>3. p = [j \in 1..n |-> p[j]]
      /\ \A j \in 1..n : p[j] = IF j \in P THEN g[j] ELSE IF j > l.head THEN "" ELSE o[j]
  BY DEF Sound, AfterSetList
<1>4. \A j \in P : g[j] \in l.fields[j].args
  BY DEF GivenToList
<1>5. \A j \in 1..n : SoundHere(c, l, o, j)
  BY DEF Sound
<1>6. \A j \in 1..n : j > l.head => (EntryOf(l, j) <= m <=> j <= u)
  BY <1>1, <1>2, Dims, EntryWithin
<1> HIDE DEF n, u
<1>7. ASSUME NEW k \in 1..n, k <= l.head PROVE p[k] = o[k]
  <2>1. k \notin P /\ ~(k > l.head)
    BY <1>1, <1>7
  <2> QED BY <1>3, <2>1
<1>8. ASSUME NEW k \in 1..n, k > l.head, l.fields[k].with = 0 PROVE p[k] # "" <=> k \in P
  <2>1. EntriesFit(l, k)
    BY Fits DEF n
  <2>2. "" \notin l.fields[k].args
    BY <1>8, <2>1 DEF EntriesFit
  <2> QED BY <1>3, <1>4, <1>8, <2>2
<1> SUFFICES ASSUME NEW j \in 1..n PROVE SoundHere(c, l, p, j)
  BY <1>3 DEF Sound, n
<1> DEFINE f == l.fields[j]
<1>11. SoundHere(c, l, o, j)
  BY <1>5
<1>12. CASE j <= l.head
  <2>1. p[j] = o[j] /\ ~(j > l.head)
    BY <1>1, <1>7, <1>12
  <2>2. HoldsHere(l, p, j)
    BY <1>11, <2>1 DEF SoundHere, ValidHere, HoldsHere
  <2>3. UnsetHere(l, p, j) /\ PassesHere(c, l, p, j)
    BY <1>11, <2>1 DEF SoundHere, ValidHere, UnsetHere, PassesHere
  <2>4. ASSUME 1 < j PROVE p[j - 1] = o[j - 1]
    <3>1. j - 1 \in 1..n /\ j - 1 <= l.head
      BY <1>1, <1>12, <2>4
    <3> QED BY <1>7, <3>1
  <2>5. NeededHere(l, p, j)
    <3>1. f.needed => 1 < j
      BY PartFacts DEF n
    <3> QED BY <1>11, <2>1, <2>4, <3>1 DEF SoundHere, ValidHere, NeededHere
  <2>6. SideHere(l, p, j)
    <3>1. f.part = "hemisphere" => 1 < j
      BY PartFacts DEF n
    <3> QED BY <1>11, <2>1, <2>4, <3>1 DEF SoundHere, ValidHere, SideHere
  <2>7. SignHere(l, p, j)
    <3>1. SUFFICES ASSUME o[j] = "-1" PROVE SignFollows(l, j) /\ p[j + 1] = o[j + 1]
      BY <1>11, <2>1 DEF SoundHere, ValidHere, SignHere
    <3>2. SignFollows(l, j)
      BY <1>11, <3>1 DEF SoundHere, ValidHere, SignHere
    <3>3. j + 1 \in 1..n /\ l.fields[j + 1].part = "hemisphere"
      BY <3>2, PartFacts DEF SignFollows, n
    <3>4. j + 1 <= l.head
      BY <3>3, PartFacts DEF n
    <3> QED BY <1>7, <3>2, <3>3, <3>4
  <2>8. JointHere(l, p, j)
    <3>1. SUFFICES ASSUME f.part = "joint", o[j] # "", NEW k \in Group(l, Leader(l, j)) PROVE p[k] # ""
      BY <2>1 DEF JointHere
    <3>2. o[k] # ""
      BY <1>11, <3>1 DEF SoundHere, ValidHere, JointHere
    <3>3. k \in 1..n
      BY GroupIs DEF n
    <3>4. l.fields[k].part = "joint"
      BY <3>1, PartFacts DEF n
    <3>5. k <= l.head
      BY <3>3, <3>4, PartFacts DEF n
    <3> QED BY <1>7, <3>2, <3>3, <3>5
  <2>9. WholeHere(l, p, j) /\ InOrderHere(l, p, j)
    BY <2>1 DEF WholeHere, InOrderHere
  <2> QED BY <2>2, <2>3, <2>5, <2>6, <2>7, <2>8, <2>9 DEF SoundHere, ValidHere
<1>13. CASE j > l.head
  <2>2. ValuesFit(c, l, j) /\ EntriesFit(l, j)
    BY Fits DEF n
  <2>1. f.part = "member" /\ ~f.needed
    BY <1>13, <2>2 DEF EntriesFit
  <2>3. IF j \in P THEN p[j] = g[j] /\ g[j] \in f.args ELSE p[j] = ""
    BY <1>3, <1>4, <1>13
  <2> DEFINE k == FirstOf(l, j)
  <2>4. k \in 1..n /\ k > l.head /\ EntryOf(l, k) = EntryOf(l, j) /\ FirstOf(l, k) = k
    BY <1>13, FirstHere DEF n
  <2> HIDE DEF k
  <2>5. l.fields[k].with = 0
    <3>1. k = k - l.fields[k].with
      BY <2>4, PartFacts DEF n
    <3>2. l.fields[k].with \in 0..(k - 1) /\ k \in Nat
      BY <1>1, <2>4, LeaderIs DEF n
    <3>3. ASSUME NEW w \in 0..(k - 1), k = k - w PROVE w = 0
      BY <3>2, <3>3
    <3> QED BY <3>1, <3>2, <3>3
  <2>6. k \in P <=> j \in P
    <3>1. k <= u <=> j <= u
      BY <1>6, <1>13, <2>4
    <3> QED BY <1>1, <1>2, <1>13, <2>4, <3>1
  <2>7. p[k] # "" <=> j \in P
    BY <1>8, <2>4, <2>5, <2>6
  <2>8. j \notin P => p[j] = ""
    BY <1>3, <1>13
  <2>9. HoldsHere(l, p, j)
    <3>1. f.args \subseteq Holds(l, j)
      BY <2>2 DEF ValuesFit
    <3> QED BY <1>13, <2>3, <2>7, <2>8, <3>1 DEF HoldsHere, k
  <2>10. PassesHere(c, l, p, j)
    <3>1. "" \in f.only /\ \A v \in f.args : v \in f.only \/ Excused(c, l, j, v)
      BY <1>13, <2>1, <2>2 DEF ValuesFit, EntriesFit
    <3> QED BY <2>3, <3>1 DEF PassesHere
  <2>11. SignHere(l, p, j)
    <3>1. SUFFICES ASSUME p[j] = "-1" PROVE FALSE
      BY DEF SignHere
    <3>2. SignFollows(l, j)
      BY <2>2, <2>3, <3>1 DEF ValuesFit
    <3>3. j + 1 \in 1..n /\ l.fields[j + 1].part = "hemisphere"
      BY <3>2, PartFacts DEF SignFollows, n
    <3>4. j + 1 <= l.head
      BY <3>3, PartFacts DEF n
    <3> QED BY <1>1, <1>13, <3>4
  <2>12. WholeHere(l, p, j)
    BY <2>7, <2>8 DEF WholeHere, k
  <2>13. InOrderHere(l, p, j)
    <3>1. SUFFICES ASSUME l.append, p[j] # "", NEW d \in (l.head + 1)..j PROVE p[d] # ""
      BY DEF InOrderHere
    <3>2. d \in 1..n /\ d > l.head /\ d <= j
      BY <1>1
    <3>3. l.fields[d].with = 0
      BY <3>1, <3>2, Dims, Single DEF n
    <3>4. j \in P
      BY <2>8, <3>1
    <3>5. d \in P
      BY <1>1, <1>2, <3>2, <3>4
    <3> QED BY <1>8, <3>2, <3>3, <3>5
  <2>14. UnsetHere(l, p, j) /\ NeededHere(l, p, j) /\ SideHere(l, p, j) /\ JointHere(l, p, j)
    BY <2>1 DEF UnsetHere, NeededHere, SideHere, JointHere
  <2> QED BY <2>9, <2>10, <2>11, <2>12, <2>13, <2>14 DEF SoundHere, ValidHere
<1> QED BY <1>1, <1>12, <1>13

-----------------------------------------------------------------------------
(***************************************************************************)
(* What the parsing constructor makes of a line: raw has an outcome of     *)
(* each field, and if the checks let it pass the object is made of it.     *)
(***************************************************************************)
Raw(l, row, raw) ==
    /\ raw = [i \in 1..Len(l.fields) |-> raw[i]]
    /\ \A i \in 1..Len(l.fields) : raw[i] \in Here(l, row, i)
Accepted(l, raw) == (\A i \in 1..Len(l.fields) : raw[i] # Refuse) /\ Passes(l, raw)
Made(l, raw) == IF l.append THEN ClosedUp(l, raw) ELSE Completed(l, Corrected(l, raw))

Refuses(l, row) ==
    \/ ~Takes(l, Len(row))
    \/ \E i \in 1..Len(l.fields) : Here(l, row, i) = {Refuse}
    \/ \E raw : Raw(l, row, raw) /\ ~Accepted(l, raw)
MadeFrom(l, row, o) ==
    Takes(l, Len(row)) /\ \E raw : Raw(l, row, raw) /\ Accepted(l, raw) /\ o = Made(l, raw)

\* A field has an outcome.
LEMMA SomeOutcome ==
  ASSUME NEW c, NEW l, WellFormed(c, l), NEW row, NEW i \in 1..Len(l.fields)
  PROVE  Here(l, row, i) # {}
<1> DEFINE f == l.fields[i]
<1>1. f.type.none # {}
  <2>1. ValuesFit(c, l, i)
    BY Fits
  <2> QED BY <2>1 DEF ValuesFit
<1>2. PICK x \in f.type.none : TRUE
  BY <1>1
<1>3. \A t : FieldOutcomes(f, t) # {}
  BY <1>2 DEF FieldOutcomes
<1> HIDE DEF f
<1>4. CASE i > Len(row)
  BY <1>4 DEF Here
<1>5. CASE ~(i > Len(row)) /\ (i <= Len(row) /\ l.skips /\ i > l.head /\ row[FirstOf(l, i)] = "")
  BY <1>5 DEF Here
<1>6. CASE ~(i > Len(row)) /\ ~(i <= Len(row) /\ l.skips /\ i > l.head /\ row[FirstOf(l, i)] = "")
  <2>1. Here(l, row, i) = FieldOutcomes(f, row[i])
    BY <1>6 DEF Here, f
  <2> QED BY <1>3, <2>1
<1> QED BY <1>4, <1>5, <1>6

\* An outcome is a refusal with a reason, or an object made of what was read.
LEMMA OutcomesAre ==
  ASSUME NEW c, NEW l, WellFormed(c, l), NEW row, NEW o \in Outcomes(l, row)
  PROVE  (o = NoObject /\ Refuses(l, row)) \/ MadeFrom(l, row, o)
<1> USE DEF Refuses, MadeFrom
<1> DEFINE n == Len(l.fields)
           open == {i \in DOMAIN l.fields : Cardinality(Here(l, row, i)) > 1}
           choices == {g \in [open -> UNION {Here(l, row, i) : i \in open}] :
                         \A i \in open : g[i] \in Here(l, row, i)}
           object(g) == [i \in DOMAIN l.fields |->
                           IF i \in open THEN g[i] ELSE CHOOSE x \in Here(l, row, i) : TRUE]
           accepted(q) == Refuse \notin {q[i] : i \in DOMAIN q} /\ Passes(l, q)
           refused == ~Takes(l, Len(row)) \/ \E i \in DOMAIN l.fields : Here(l, row, i) = {Refuse}
<1>1. n \in Nat /\ DOMAIN l.fields = 1..n
  BY Dims
<1>2. CASE refused
  <2>1. o = NoObject
    BY <1>2 DEF Outcomes
  <2> QED BY <1>1, <1>2, <2>1
<1>3. CASE ~refused
  <2>1. \E g \in choices : o = IF ~accepted(object(g)) THEN NoObject
                               ELSE IF l.append THEN ClosedUp(l, object(g))
                               ELSE Completed(l, Corrected(l, object(g)))
    BY <1>3 DEF Outcomes
  <2>2. PICK g \in choices : o = IF ~accepted(object(g)) THEN NoObject
                                 ELSE IF l.append THEN ClosedUp(l, object(g))
                                 ELSE Completed(l, Corrected(l, object(g)))
    BY <2>1
  <2> DEFINE raw == object(g)
  <2>3. ASSUME NEW i \in 1..n PROVE raw[i] \in Here(l, row, i)
    <3>1. CASE i \in open
      BY <1>1, <3>1
    <3>2. CASE i \notin open
      <4>1. Here(l, row, i) # {}
        BY SomeOutcome
      <4> QED BY <1>1, <3>2, <4>1
    <3> QED BY <3>1, <3>2
  <2>4. raw = [i \in 1..n |-> raw[i]]
    BY <1>1
  <2>5. accepted(raw) <=> Accepted(l, raw)
    BY <1>1 DEF Accepted
  <2>6. o = IF ~accepted(raw) THEN NoObject ELSE Made(l, raw)
    BY <2>2 DEF Made
  <2> HIDE DEF raw, accepted
  <2>7. Raw(l, row, raw)
    BY <2>3, <2>4 DEF Raw
  <2>8. Takes(l, Len(row))
    BY <1>3
  <2> QED BY <2>5, <2>6, <2>7, <2>8
<1> HIDE DEF refused
<1> QED BY <1>2, <1>3

\* What is read into a field.
LEMMA HereIs ==
  ASSUME NEW c, NEW l, WellFormed(c, l), NEW row, Takes(l, Len(row)), NEW i \in 1..Len(l.fields),
         NEW v \in Here(l, row, i)
  PROVE  \/ i > Len(row) /\ v = l.fields[i].init
         \/ i <= Len(row) /\ l.skips /\ i > l.head /\ row[FirstOf(l, i)] = "" /\ v = ""
         \/ /\ i <= Len(row) /\ ~(l.skips /\ i > l.head /\ row[FirstOf(l, i)] = "")
            /\ v \in FieldOutcomes(l.fields[i], row[i])
<1>1. Len(row) \in Nat /\ Len(l.fields) \in Nat
  <2>1. Len(row) \in l.sizes
    BY DEF Takes
  <2>2. SizesFit(c, l)
    BY DEF WellFormed
  <2>3. \A k \in l.sizes : k \in Nat
    BY <2>2 DEF SizesFit
  <2> QED BY <2>1, <2>3, Dims
<1>2. i > Len(row) \/ i <= Len(row)
  BY <1>1
<1>3. ~(i > Len(row) /\ i <= Len(row))
  BY <1>1
<1>4. CASE i > Len(row)
  BY <1>3, <1>4 DEF Here
<1>5. CASE i <= Len(row) /\ l.skips /\ i > l.head /\ row[FirstOf(l, i)] = ""
  BY <1>3, <1>5 DEF Here
<1>6. CASE i <= Len(row) /\ ~(i <= Len(row) /\ l.skips /\ i > l.head /\ row[FirstOf(l, i)] = "")
  BY <1>3, <1>6 DEF Here
<1> QED BY <1>2, <1>4, <1>5, <1>6

\* The value of a field that is read is one the member may hold.
LEMMA OutcomeFits ==
  ASSUME NEW c, NEW l, WellFormed(c, l), NEW i \in 1..Len(l.fields), NEW t,
         NEW v \in FieldOutcomes(l.fields[i], t), v # Refuse
  PROVE  /\ v # "-1"
         /\ l.fields[i].part = "unread" => v = ""
         /\ l.fields[i].part # "unread" => v \in Holds(l, i)
         /\ l.fields[i].part = "unit" => v = ""
<1> DEFINE f == l.fields[i]
           texts == {""} \cup DOMAIN f.type.means
<1>1. PartsFit(l, i) /\ ValuesFit(c, l, i)
  BY Fits
<1>2. CASE t \in texts
  <2>1. "-1" \notin FieldOutcomes(f, t)
    BY <1>1, <1>2 DEF ValuesFit
  <2>2. FieldOutcomes(f, t) \ {Refuse} \subseteq IF f.part = "unread" THEN {""} ELSE Holds(l, i)
    BY <1>1, <1>2 DEF ValuesFit
  <2>3. f.part = "unit" => v = ""
    <3>1. SUFFICES ASSUME f.part = "unit" PROVE v = ""
      OBVIOUS
    <3>2. f.init = "" /\ f.type.none \subseteq {"", Refuse} /\ \A x \in DOMAIN f.type.means : f.type.means[x] = ""
      BY <1>1, <3>1 DEF PartsFit
    <3>3. Keep # "" /\ Keep # Refuse
      BY DEF Keep, Refuse
    <3>4. t = "" /\ ~f.opt => v \in {IF x = Keep THEN f.init ELSE x : x \in f.type.none}
      BY <3>1 DEF FieldOutcomes
    <3>5. t = "" /\ f.opt => v = ""
      BY <3>1 DEF FieldOutcomes
    <3>6. t # "" => v = f.type.means[t]
      BY <1>2, <3>1 DEF FieldOutcomes
    <3> QED BY <1>2, <3>2, <3>3, <3>4, <3>5, <3>6
  <2> QED BY <2>1, <2>2, <2>3
<1>3. CASE t \notin texts
  <2>1. v \in IF f.part = "unread" THEN {""} ELSE {Refuse}
    BY <1>3 DEF FieldOutcomes
  <2> QED BY <2>1
<1> QED BY <1>2, <1>3

\* What all outcomes of a line have in common.
LEMMA RawIs ==
  ASSUME NEW c, NEW l, WellFormed(c, l), NEW row, Takes(l, Len(row)), NEW raw, Raw(l, row, raw),
         Accepted(l, raw), NEW i \in 1..Len(l.fields)
  PROVE  /\ HoldsHere(l, raw, i)
         /\ UnsetHere(l, raw, i)
         /\ WholeHere(l, raw, i)
         /\ raw[i] # "-1"
<1> DEFINE n == Len(l.fields)
           f == l.fields[i]
<1>1. n \in Nat /\ DOMAIN l.fields = 1..n /\ l.head \in Nat /\ Len(row) \in Nat
  <2>1. Len(row) \in l.sizes
    BY DEF Takes
  <2>2. SizesFit(c, l)
    BY DEF WellFormed
  <2>3. \A k \in l.sizes : k \in Nat
    BY <2>2 DEF SizesFit
  <2> QED BY <2>1, <2>3, Dims
<1>2. \A k \in 1..n : raw[k] \in Here(l, row, k) /\ raw[k] # Refuse
  BY DEF Raw, Accepted
<1>3. PartsFit(l, i) /\ ValuesFit(c, l, i) /\ EntriesFit(l, i)
  BY Fits
<1> HIDE DEF n
\* an entry that is not there
<1>4. WholeHere(l, raw, i)
  <2>1. SUFFICES ASSUME i > l.head, raw[FirstOf(l, i)] = "" PROVE raw[i] = ""
    BY DEF WholeHere
  <2> DEFINE k == FirstOf(l, i)
  <2>2. k \in 1..n /\ k > l.head /\ k <= i /\ FirstOf(l, k) = k
    BY <2>1, FirstHere DEF n
  <2>3. raw[k] = "" /\ raw[k] \in Here(l, row, k) /\ raw[i] \in Here(l, row, i)
    BY <1>2, <2>1, <2>2 DEF n
  <2>4. l.fields[k].part = "member" /\ l.fields[k].with = 0 /\ l.fields[i].part = "member"
    <3>1. k = k - l.fields[k].with
      BY <2>2, PartFacts DEF n
    <3>2. l.fields[k].with \in 0..(k - 1) /\ k \in Nat
      BY <1>1, <2>2, LeaderIs DEF n
    <3> HIDE DEF k
    <3>3. ASSUME NEW w \in 0..(k - 1), k = k - w PROVE w = 0
      BY <3>2, <3>3
    <3> QED BY <2>1, <2>2, <3>1, <3>2, <3>3, PartFacts DEF n
  <2> HIDE DEF k
  <2>5. EntriesFit(l, k)
    BY <2>2, Fits DEF n
  <2>6. i > Len(row) => raw[i] = ""
    <3>1. f.init = ""
      BY <1>3, <2>1 DEF EntriesFit
    <3>2. i > Len(row) => ~(i <= Len(row))
      BY <1>1 DEF n
    <3> QED BY <2>3, <3>1, <3>2, HereIs DEF n
  <2>7. k > Len(row) => i > Len(row)
    BY <1>1, <2>2 DEF n
  <2>12. k <= Len(row) => ~(k > Len(row))
    BY <1>1, <2>2 DEF n
  <2>13. raw[k] # Refuse
    BY <1>2, <2>2
  <2>8. CASE l.append
    <3>1. k = i
      BY <2>1, <2>8, Dims, Single DEF k
    <3> QED BY <2>3, <3>1
  <2>9. CASE k <= Len(row) /\ row[k] # "" /\ ~l.append
    <3>1. raw[k] \in FieldOutcomes(l.fields[k], row[k])
      BY <2>2, <2>3, <2>9, <2>12, HereIs DEF n
    <3>2. row[k] \in DOMAIN l.fields[k].type.means /\ raw[k] = l.fields[k].type.means[row[k]]
      BY <2>4, <2>9, <2>13, <3>1 DEF FieldOutcomes
    <3>3. FALSE
      BY <2>2, <2>3, <2>4, <2>5, <3>2 DEF EntriesFit
    <3> QED BY <3>3
  <2>10. CASE k <= Len(row) /\ row[k] = "" /\ ~l.append
    <3>1. CASE l.skips
      <4>1. i <= Len(row) => raw[i] = ""
        <5>1. i <= Len(row) => ~(i > Len(row))
          BY <1>1 DEF n
        <5>2. row[FirstOf(l, i)] = ""
          BY <2>10 DEF k
        <5> QED BY <2>1, <2>3, <3>1, <5>1, <5>2, HereIs
      <4>2. i <= Len(row) \/ i > Len(row)
        BY <1>1 DEF n
      <4> QED BY <2>6, <4>1, <4>2
    <3>2. CASE ~l.skips
      <4>1. "" \notin FieldOutcomes(l.fields[k], "")
        BY <2>2, <2>4, <2>5, <2>10, <3>2 DEF EntriesFit
      <4>2. raw[k] \in FieldOutcomes(l.fields[k], "")
        BY <2>2, <2>3, <2>10, <2>12, <3>2, HereIs DEF n
      <4> QED BY <2>3, <4>1, <4>2
    <3> QED BY <3>1, <3>2
  <2>11. k <= Len(row) \/ k > Len(row)
    BY <1>1, <2>2
  <2> QED BY <2>6, <2>7, <2>8, <2>9, <2>10, <2>11
<1>5. raw[i] \in Here(l, row, i) /\ raw[i] # Refuse
  BY <1>2 DEF n
<1>6. CASE i > Len(row) /\ raw[i] = f.init
  <2>1. raw[i] # "-1"
    BY <1>3, <1>6 DEF ValuesFit
  <2>2. f.part # "unread"
    <3>1. f.part = "unread" => \A k \in l.sizes : i <= k
      BY <1>3 DEF PartsFit
    <3>2. ~(i <= Len(row))
      BY <1>1, <1>6 DEF n
    <3> QED BY <3>1, <3>2 DEF Takes
  <2>3. UnsetHere(l, raw, i)
    BY <1>3, <1>6, <2>2 DEF PartsFit, UnsetHere
  <2>4. i <= l.head => raw[i] \in Holds(l, i)
    BY <1>6 DEF Holds
  <2>5. i > l.head => raw[i] = "" /\ raw[FirstOf(l, i)] = ""
    <3>1. SUFFICES ASSUME i > l.head PROVE raw[i] = "" /\ raw[FirstOf(l, i)] = ""
      OBVIOUS
    <3> DEFINE k == FirstOf(l, i)
    <3>2. k \in 1..n /\ k > l.head /\ k <= i
      BY <3>1, FirstHere DEF n
    <3>3. k > Len(row)
      <4>1. SizesFit(c, l) /\ Len(row) \in l.sizes
        BY DEF WellFormed, Takes
      <4>2. l.head < n
        BY <1>1, <3>1 DEF n
      <4>3. Len(row) >= l.head /\ (Len(row) - l.head) % l.entry = 0
        BY <4>1, <4>2 DEF SizesFit, n
      <4>4. PICK q \in Nat : Len(row) = l.head + q * l.entry
        <5>1. l.entry \in Nat \ {0} /\ Len(row) - l.head \in Nat
          BY <1>1, <4>3, Dims
        <5> DEFINE d == Len(row) - l.head
                   w == l.entry
        <5>2. d \div w \in Nat /\ d = w * (d \div w) + (d % w)
          BY <5>1, Divided
        <5>3. d % w = 0
          BY <4>3
        <5> HIDE DEF d, w
        <5>4. \E q \in Nat : d = q * w
          <6>1. ASSUME NEW q \in Nat, d = w * q + 0, w \in Nat PROVE d = q * w
            BY <6>1
          <6>2. w \in Nat
            BY <5>1 DEF w
          <6> QED BY <5>2, <5>3, <6>1, <6>2
        <5>5. PICK q \in Nat : d = q * w
          BY <5>4
        <5>6. Len(row) = l.head + d
          BY <1>1 DEF d
        <5> QED BY <5>5, <5>6 DEF w
      <4>5. l.entry \in {1, 2, 4}
        BY Dims
      <4>6. EntryOf(l, k) = EntryOf(l, i)
        BY <3>1, FirstHere
      <4> HIDE DEF k
      <4>7. i <= l.head + q * l.entry <=> EntryOf(l, i) <= q
        BY <1>1, <3>1, <4>5, EntryWithin DEF n
      <4>8. k <= l.head + q * l.entry <=> EntryOf(l, k) <= q
        BY <1>1, <3>2, <4>5, EntryWithin
      <4>9. ~(i <= Len(row))
        BY <1>1, <1>6 DEF n
      <4>10. ~(k <= Len(row))
        BY <4>4, <4>6, <4>7, <4>8, <4>9
      <4> QED BY <1>1, <3>2, <4>10
    <3>4. EntriesFit(l, k)
      BY <3>2, Fits DEF n
    <3> HIDE DEF k
    <3>5. raw[k] = l.fields[k].init
      <4>1. ~(k <= Len(row))
        BY <1>1, <3>2, <3>3
      <4> QED BY <1>2, <3>2, <4>1, HereIs DEF n
    <3>6. raw[k] = ""
      BY <3>2, <3>4, <3>5 DEF EntriesFit
    <3>7. raw[i] = ""
      BY <1>3, <1>6, <3>1 DEF EntriesFit
    <3> QED BY <3>6, <3>7 DEF k
  <2>6. i <= l.head \/ i > l.head
    BY <1>1 DEF n
  <2> QED BY <1>4, <2>1, <2>3, <2>4, <2>5, <2>6 DEF HoldsHere
<1>7. CASE /\ i <= Len(row) /\ l.skips /\ i > l.head /\ row[FirstOf(l, i)] = "" /\ raw[i] = ""
  <2> DEFINE k == FirstOf(l, i)
  <2>1. k \in 1..n /\ k > l.head /\ k <= i /\ FirstOf(l, k) = k
    BY <1>7, FirstHere DEF n
  <2>2. row[k] = ""
    BY <1>7
  <2> HIDE DEF k
  <2>3. ~(k > Len(row))
    <3>1. i <= Len(row)
      BY <1>7
    <3> QED BY <1>1, <2>1, <3>1 DEF n
  <2>4. raw[k] \in Here(l, row, k)
    BY <1>2, <2>1
  <2>5. raw[k] = ""
    BY <1>7, <2>1, <2>2, <2>3, <2>4, HereIs DEF n
  <2>6. raw[FirstOf(l, i)] = ""
    BY <2>5 DEF k
  <2> QED BY <1>4, <1>7, <2>6 DEF HoldsHere, UnsetHere
<1>8. CASE raw[i] \in FieldOutcomes(f, row[i])
  BY <1>4, <1>5, <1>8, OutcomeFits DEF HoldsHere, UnsetHere
<1> QED BY <1>5, <1>6, <1>7, <1>8, HereIs

\* The fields of a list.
LEMMA InList ==
  ASSUME NEW c, NEW l, WellFormed(c, l), NEW i \in 1..Len(l.fields), i > l.head
  PROVE  ~(i <= l.head) /\ c \in Lists /\ ~SignFollows(l, i)
<1> DEFINE n == Len(l.fields)
           h == l.head
<1>1. n \in Nat /\ h \in Nat /\ (h < n => c \in Lists)
  BY Dims
<1>2. i \in 1..n /\ i > h
  OBVIOUS
<1> HIDE DEF n, h
<1>3. ~(i <= h) /\ h < n
  BY <1>1, <1>2
<1>4. ~SignFollows(l, i)
  <2>1. SUFFICES ASSUME SignFollows(l, i) PROVE FALSE
    OBVIOUS
  <2>2. i + 1 \in 1..n /\ l.fields[i + 1].part = "hemisphere"
    BY <2>1, PartFacts DEF SignFollows, n
  <2>3. i + 1 <= h
    BY <2>2, PartFacts DEF n, h
  <2> QED BY <1>1, <1>2, <2>3
<1> QED BY <1>1, <1>3, <1>4 DEF h

\* An entry that has moved is as sound as it was.
LEMMA MovedSound ==
  ASSUME NEW c, NEW l, WellFormed(c, l), NEW o, NEW k,
         NEW i \in 1..Len(l.fields), i > l.head, NEW j \in 1..Len(l.fields), j > l.head,
         l.fields[j] = l.fields[i], ValidHere(c, l, o, j),
         k[i] = o[j], o[FirstOf(l, j)] # "", k[FirstOf(l, i)] # ""
  PROVE  ValidHere(c, l, k, i)
<1> DEFINE n == Len(l.fields)
           f == l.fields[i]
<1>2. f.part = "member" /\ ~f.needed /\ ~f.old
  <2>1. EntriesFit(l, i)
    BY Fits
  <2> QED BY <2>1 DEF EntriesFit
<1>3. ~(j <= l.head) /\ ~SignFollows(l, j)
  BY InList
<1>4. ~(i <= l.head) /\ c \in Lists
  BY InList
<1>5. HoldsHere(l, k, i)
  <2>1. o[j] \in Holds(l, j)
    BY <1>2 DEF ValidHere, HoldsHere
  <2>2. Holds(l, j) = Holds(l, i)
    BY <1>3, <1>4 DEF Holds
  <2> QED BY <2>1, <2>2 DEF HoldsHere
<1>6. PassesHere(c, l, k, i)
  <2>1. o[j] \in f.only \/ Excused(c, l, j, o[j])
    BY <1>2 DEF ValidHere, PassesHere
  <2>3. c # "ALM"
    BY <1>4 DEF Lists
  <2>4. ~Excused(c, l, j, o[j])
    BY <1>2, <2>3 DEF Excused
  <2> QED BY <2>1, <2>4 DEF PassesHere
<1>7. SignHere(l, k, i)
  BY <1>3 DEF ValidHere, SignHere
<1>8. WholeHere(l, k, i)
  BY DEF WholeHere
<1>9. UnsetHere(l, k, i) /\ NeededHere(l, k, i)
  BY <1>2 DEF UnsetHere, NeededHere
<1>10. SideHere(l, k, i) /\ JointHere(l, k, i)
  BY <1>2 DEF SideHere, JointHere
<1> QED BY <1>5, <1>6, <1>7, <1>8, <1>9, <1>10 DEF ValidHere

\* An entry that is not there holds nothing that could be wrong.
LEMMA AbsentSound ==
  ASSUME NEW c, NEW l, WellFormed(c, l), NEW k, NEW i \in 1..Len(l.fields), i > l.head,
         k[i] = "", k[FirstOf(l, i)] = ""
  PROVE  ValidHere(c, l, k, i)
<1>1. EntriesFit(l, i)
  BY Fits
<1>2. l.fields[i].part = "member" /\ ~l.fields[i].needed /\ "" \in l.fields[i].only
  BY <1>1 DEF EntriesFit
<1>3. HoldsHere(l, k, i) /\ WholeHere(l, k, i)
  BY DEF HoldsHere, WholeHere
<1>4. PassesHere(c, l, k, i) /\ SignHere(l, k, i)
  BY <1>2 DEF PassesHere, SignHere
<1>5. UnsetHere(l, k, i) /\ NeededHere(l, k, i)
  BY <1>2 DEF UnsetHere, NeededHere
<1>6. SideHere(l, k, i) /\ JointHere(l, k, i)
  BY <1>2 DEF SideHere, JointHere
<1> QED BY <1>3, <1>4, <1>5, <1>6 DEF ValidHere

\* The entries that close up leave an object sound; those after the last one
\* have nothing.
LEMMA ClosedSound ==
  ASSUME NEW c, NEW l, WellFormed(c, l), NEW o, AllValid(c, l, o),
         NEW k, k = ClosedUp(l, o)
  PROVE  Sound(c, l, k)
<1> DEFINE n == Len(l.fields)
           u == InUse(l, o)
<1>1. n \in Nat /\ DOMAIN l.fields = 1..n /\ l.head \in Nat /\ l.head <= n
  BY Dims
<1>2. u \in Nat /\ l.head <= u /\ u <= n
  BY EntriesAre
<1>3. k = [i \in 1..n |-> k[i]]
  BY <1>1 DEF ClosedUp
<1>4. \A i \in 1..n : i <= l.head => k[i] = o[i]
  BY ClosedHead
<1>10. \A i \in 1..n : i <= u => k[i] = o[Source(l, o, i)]
  BY ClosedUpIs
<1>11. \A i \in 1..n : ~(i <= u) => k[i] = ""
  BY ClosedUpIs
<1>12. \A i \in 1..n : i > l.head => (k[FirstOf(l, i)] # "" <=> i <= u)
  BY ClosedUpIs
<1>5. \A i \in 1..n : ValidHere(c, l, o, i)
  BY DEF AllValid
<1> HIDE DEF n, u
<1> SUFFICES ASSUME NEW i \in 1..n PROVE SoundHere(c, l, k, i)
  BY <1>3 DEF Sound, n
<1> DEFINE f == l.fields[i]
<1>6. ValidHere(c, l, o, i)
  BY <1>5
<1>7. CASE i <= l.head
  <2>10. ~(i > l.head)
    BY <1>1, <1>7
  <2>1. k[i] = o[i] /\ ~(i > l.head)
    BY <1>4, <1>7, <2>10
  <2>2. HoldsHere(l, k, i)
    BY <1>6, <2>1 DEF ValidHere, HoldsHere
  <2>3. UnsetHere(l, k, i) /\ PassesHere(c, l, k, i)
    BY <1>6, <2>1 DEF ValidHere, UnsetHere, PassesHere
  <2>4. ASSUME 1 < i PROVE k[i - 1] = o[i - 1]
    <3>1. i - 1 \in 1..n /\ i - 1 <= l.head
      BY <1>1, <1>7, <2>4
    <3> QED BY <1>4, <3>1
  <2>5. NeededHere(l, k, i)
    <3>1. f.needed => 1 < i
      BY PartFacts DEF n
    <3> QED BY <1>6, <2>1, <2>4, <3>1 DEF ValidHere, NeededHere
  <2>6. SideHere(l, k, i)
    <3>1. f.part = "hemisphere" => 1 < i
      BY PartFacts DEF n
    <3> QED BY <1>6, <2>1, <2>4, <3>1 DEF ValidHere, SideHere
  <2>7. SignHere(l, k, i)
    <3>1. SUFFICES ASSUME o[i] = "-1" PROVE SignFollows(l, i) /\ k[i + 1] = o[i + 1]
      BY <1>6, <2>1 DEF ValidHere, SignHere
    <3>2. SignFollows(l, i)
      BY <1>6, <3>1 DEF ValidHere, SignHere
    <3>3. i + 1 \in 1..n /\ l.fields[i + 1].part = "hemisphere"
      BY <3>2, PartFacts DEF SignFollows, n
    <3>4. i + 1 <= l.head
      BY <3>3, PartFacts DEF n
    <3> QED BY <1>4, <3>2, <3>3, <3>4
  <2>8. JointHere(l, k, i)
    <3>1. SUFFICES ASSUME f.part = "joint", o[i] # "", NEW j \in Group(l, Leader(l, i)) PROVE k[j] # ""
      BY <2>1 DEF JointHere
    <3>2. o[j] # ""
      BY <1>6, <3>1 DEF ValidHere, JointHere
    <3>3. j \in 1..n
      BY GroupIs DEF n
    <3>4. l.fields[j].part = "joint"
      <4>1. \A d \in Group(l, Leader(l, i)) : l.fields[d].part = "joint"
        BY <3>1, PartFacts DEF n
      <4> QED BY <4>1
    <3>5. j <= l.head
      BY <3>3, <3>4, PartFacts DEF n
    <3> QED BY <1>4, <3>2, <3>3, <3>5
  <2>9. WholeHere(l, k, i) /\ InOrderHere(l, k, i)
    BY <2>1 DEF WholeHere, InOrderHere
  <2> QED BY <2>2, <2>3, <2>5, <2>6, <2>7, <2>8, <2>9 DEF SoundHere, ValidHere
<1>8. CASE i > l.head
  <2>1. EntriesFit(l, i)
    BY Fits DEF n
  <2>2. ASSUME i <= u PROVE ValidHere(c, l, k, i)
    <3>9. PICK j : j = Source(l, o, i)
      OBVIOUS
    <3>10. Moves(l, o, i, j)
      BY <1>8, <2>2, <3>9, SourceIs DEF n, u
    <3>1. j \in 1..n /\ j > l.head
      BY <3>10 DEF Moves, n
    <3>2. PlaceOf(l, j) = PlaceOf(l, i)
      BY <3>10 DEF Moves
    <3>3. o[FirstOf(l, j)] # ""
      BY <3>10 DEF Moves
    <3>4. k[i] = o[j] /\ k[FirstOf(l, i)] # ""
      BY <1>8, <1>10, <1>12, <2>2, <3>9
    <3>5. l.fields[j] = f
      <4>1. j \in (l.head + 1)..n
        BY <1>1, <3>1
      <4> QED BY <1>8, <2>1, <3>2, <4>1 DEF EntriesFit, PlaceOf, n
    <3>6. ValidHere(c, l, o, j)
      BY <1>5, <3>1
    <3> QED BY <1>8, <3>1, <3>3, <3>4, <3>5, <3>6, MovedSound DEF n
  <2>3. ASSUME ~(i <= u) PROVE ValidHere(c, l, k, i)
    <3>1. k[i] = ""
      BY <1>11, <2>3
    <3>2. k[FirstOf(l, i)] = ""
      BY <1>8, <1>12, <2>3
    <3> QED BY <1>8, <3>1, <3>2, AbsentSound DEF n
  <2>5. ValidHere(c, l, k, i)
    BY <2>2, <2>3
  <2>6. InOrderHere(l, k, i)
    <3>1. SUFFICES ASSUME l.append, k[i] # "", NEW d \in (l.head + 1)..i PROVE k[d] # ""
      BY DEF InOrderHere
    <3>2. d \in 1..n /\ d > l.head /\ d <= i
      BY <1>1
    <3>3. i <= u
      BY <1>11, <3>1
    <3>4. d <= u
      BY <1>1, <1>2, <3>2, <3>3
    <3>5. FirstOf(l, d) = d
      BY <3>1, <3>2, Dims, Single DEF n
    <3> QED BY <1>12, <3>2, <3>4, <3>5
  <2> QED BY <2>5, <2>6 DEF SoundHere
<1> QED BY <1>1, <1>7, <1>8

\* The sign of an angle is corrected, values without their partners are dropped.
Turned(l, raw, i) == SignFollows(l, i) /\ raw[i] \in {"1", "-1"} /\ raw[i + 1] # ""
SignOf(l, raw, i) == IF raw[i + 1] = l.fields[i + 1].sides[2] THEN "-1" ELSE "1"

MadeOf(l, raw, p, i) ==
    /\ l.fields[i].part # "joint" /\ Turned(l, raw, i) => p[i] = SignOf(l, raw, i)
    /\ l.fields[i].part # "joint" /\ ~Turned(l, raw, i) => p[i] = raw[i]
    /\ l.fields[i].part = "joint" =>
         /\ p[i] = "" \/ p[i] = raw[i]
         /\ p[i] # "" => \A j \in Group(l, Leader(l, i)) : raw[j] # ""
         /\ (\A j \in Group(l, Leader(l, i)) : raw[j] # "") => p[i] = raw[i]

\* Corrected and completed, what was read is changed at hemispheres and joint
\* values only.
LEMMA MadeIs ==
  ASSUME NEW c, NEW l, WellFormed(c, l), NEW raw, NEW q, q = Corrected(l, raw), NEW p, p = Completed(l, q)
  PROVE  p = [i \in 1..Len(l.fields) |-> p[i]] /\ \A i \in 1..Len(l.fields) : MadeOf(l, raw, p, i)
<1> DEFINE n == Len(l.fields)
<1>1. DOMAIN l.fields = 1..n
  BY Dims
<1>2. p = [i \in 1..n |-> p[i]]
  BY <1>1 DEF Completed
<1>3. \A i \in 1..n : q[i] = IF Turned(l, raw, i) THEN SignOf(l, raw, i) ELSE raw[i]
  BY <1>1 DEF Corrected, Turned, SignOf, SignFollows
<1>4. \A i \in 1..n : p[i] = IF l.fields[i].part = "joint" /\ \E j \in Group(l, Leader(l, i)) : q[j] = ""
                             THEN "" ELSE q[i]
  BY <1>1 DEF Completed
<1> HIDE DEF n
<1>5. ASSUME NEW i \in 1..n PROVE q[i] = "" <=> raw[i] = ""
  <2>1. CASE Turned(l, raw, i)
    <3>1. q[i] \in {"-1", "1"}
      BY <1>3, <2>1 DEF SignOf
    <3> QED BY <2>1, <3>1 DEF Turned
  <2>2. CASE ~Turned(l, raw, i)
    BY <1>3, <2>2
  <2> QED BY <2>1, <2>2
<1>6. ASSUME NEW i \in 1..n, l.fields[i].part = "joint"
      PROVE  /\ p[i] = "" \/ p[i] = raw[i]
             /\ p[i] # "" => \A j \in Group(l, Leader(l, i)) : raw[j] # ""
             /\ (\A j \in Group(l, Leader(l, i)) : raw[j] # "") => p[i] = raw[i]
  <2>1. ~SignFollows(l, i)
    BY <1>6, PartFacts DEF n
  <2>2. q[i] = raw[i]
    BY <1>3, <2>1 DEF Turned
  <2>3. \A j \in Group(l, Leader(l, i)) : q[j] = "" <=> raw[j] = ""
    BY <1>5, GroupIs DEF n
  <2>4. p[i] = IF \E j \in Group(l, Leader(l, i)) : q[j] = "" THEN "" ELSE q[i]
    BY <1>4, <1>6
  <2> QED BY <2>2, <2>3, <2>4
<1>7. \A i \in 1..n : l.fields[i].part # "joint" => p[i] = q[i]
  BY <1>4
<1> QED BY <1>2, <1>3, <1>5, <1>6, <1>7 DEF n, MadeOf

\* What the checks let pass.
PassHere(l, o, i) ==
    LET f == l.fields[i]
    IN  /\ f.part = "unit" \/ o[i] \in f.only
        /\ f.needed /\ o[i - 1] # "" => o[i] # ""
        /\ f.part = "hemisphere" /\ o[i - 1] # "" /\ o[i] # "" => o[i] \in {f.sides[1], f.sides[2]}
\* The checks of a parsing constructor, one by one.
LEMMA PassesIs ==
  ASSUME NEW c, NEW l, WellFormed(c, l), NEW raw
  PROVE  Passes(l, raw) <=> \A i \in 1..Len(l.fields) : PassHere(l, raw, i)
BY Dims DEF Passes, PassHere

\* What is read of a line is sound.
LEMMA CorrectedSound ==
  ASSUME NEW c, NEW l, WellFormed(c, l), ~l.append, NEW row, Takes(l, Len(row)),
         NEW raw, Raw(l, row, raw), Accepted(l, raw), NEW p,
         p = [i \in 1..Len(l.fields) |-> p[i]], \A i \in 1..Len(l.fields) : MadeOf(l, raw, p, i)
  PROVE  Sound(c, l, p)
<1> DEFINE n == Len(l.fields)
<1>1. n \in Nat /\ l.head \in Nat
  BY Dims
<1>2. p = [i \in 1..n |-> p[i]]
  OBVIOUS
<1>3. \A i \in 1..n : PassHere(l, raw, i)
  BY PassesIs DEF Accepted
<1>4. ASSUME NEW i \in 1..n
      PROVE  HoldsHere(l, raw, i) /\ UnsetHere(l, raw, i) /\ WholeHere(l, raw, i) /\ raw[i] # "-1"
  BY RawIs
<1>5. \A i \in 1..n : MadeOf(l, raw, p, i)
  OBVIOUS
<1> HIDE DEF n
<1>10. ASSUME NEW i \in 1..n, l.fields[i].part # "joint", ~SignFollows(l, i) PROVE p[i] = raw[i]
  BY <1>5, <1>10 DEF MadeOf, Turned
<1>11. ASSUME NEW i \in 1..n, SignFollows(l, i)
       PROVE  p[i] = raw[i] \/ (Turned(l, raw, i) /\ p[i] = SignOf(l, raw, i))
  <2>1. l.fields[i].part # "joint"
    BY <1>11, PartFacts DEF n
  <2> QED BY <1>5, <2>1 DEF MadeOf
<1>12. ASSUME NEW i \in 1..n, i > l.head PROVE p[i] = raw[i]
  <2>1. l.fields[i].part # "joint" /\ ~SignFollows(l, i)
    BY <1>12, InList, PartFacts DEF n
  <2> QED BY <1>10, <2>1
<1> SUFFICES ASSUME NEW i \in 1..n PROVE SoundHere(c, l, p, i)
  BY <1>2 DEF Sound, n
<1> DEFINE f == l.fields[i]
<1>13. PartsFit(l, i)
  BY Fits DEF n
<1>14. i > l.head => p[i] = raw[i] /\ p[FirstOf(l, i)] = raw[FirstOf(l, i)]
  <2>1. SUFFICES ASSUME i > l.head PROVE p[i] = raw[i] /\ p[FirstOf(l, i)] = raw[FirstOf(l, i)]
    OBVIOUS
  <2>2. FirstOf(l, i) \in 1..n /\ FirstOf(l, i) > l.head
    BY <2>1, FirstHere DEF n
  <2> QED BY <1>12, <2>1, <2>2
<1>16. WholeHere(l, p, i)
  BY <1>4, <1>14 DEF WholeHere
<1>17. InOrderHere(l, p, i)
  BY DEF InOrderHere
<1>15. CASE SignFollows(l, i)
  <2>1. f.part = "member" /\ {"1", "-1"} \subseteq DOMAIN f.type.says \cap f.only
    BY <1>13, <1>15 DEF PartsFit
  <2>2. p[i] = raw[i] \/ p[i] \in {"1", "-1"}
    BY <1>11, <1>15 DEF SignOf
  <2>3. HoldsHere(l, p, i)
    <3>1. {"1", "-1"} \subseteq Holds(l, i)
      BY <2>1 DEF Holds
    <3>2. raw[i] \in Holds(l, i) \/ (raw[i] = "" /\ i > l.head /\ raw[FirstOf(l, i)] = "")
      BY <1>4, <2>1 DEF HoldsHere
    <3> QED BY <1>14, <2>2, <3>1, <3>2 DEF HoldsHere
  <2>4. PassesHere(c, l, p, i)
    <3>1. raw[i] \in f.only
      BY <1>3, <2>1 DEF PassHere
    <3> QED BY <2>1, <2>2, <3>1 DEF PassesHere
  <2>5. SignHere(l, p, i)
    <3>1. SUFFICES ASSUME p[i] = "-1" PROVE p[i + 1] # ""
      BY <1>15 DEF SignHere
    <3>2. raw[i + 1] # ""
      BY <1>4, <1>11, <1>15, <3>1 DEF Turned
    <3>3. i + 1 \in 1..n /\ l.fields[i + 1].part = "hemisphere"
      BY <1>15, PartFacts DEF SignFollows, n
    <3>4. ~SignFollows(l, i + 1)
      BY <3>3, PartFacts DEF n
    <3> QED BY <1>10, <3>2, <3>3, <3>4
  <2>6. UnsetHere(l, p, i) /\ SideHere(l, p, i) /\ JointHere(l, p, i)
    BY <2>1 DEF UnsetHere, SideHere, JointHere
  <2>7. NeededHere(l, p, i)
    <3>1. SUFFICES ASSUME f.needed, p[i - 1] # "" PROVE p[i] # ""
      BY DEF NeededHere
    <3>2. f.with = 1
      BY <3>1, PartFacts DEF n
    <3>3. f.with = 0
      BY <1>15, PartFacts DEF n
    <3>4. FALSE
      BY <3>2, <3>3
    <3> QED BY <3>4
  <2> QED BY <2>3, <2>4, <2>5, <2>6, <2>7, <1>16, <1>17 DEF SoundHere, ValidHere
<1>18. CASE ~SignFollows(l, i) /\ f.part # "joint"
  <2>1. p[i] = raw[i]
    BY <1>10, <1>18
  <2>2. HoldsHere(l, p, i)
    BY <1>4, <1>14, <2>1 DEF HoldsHere
  <2>3. PassesHere(c, l, p, i)
    BY <1>3, <2>1 DEF PassesHere, PassHere
  <2>4. UnsetHere(l, p, i) /\ SignHere(l, p, i) /\ JointHere(l, p, i)
    BY <1>4, <1>18, <2>1 DEF UnsetHere, SignHere, JointHere
  <2>5. NeededHere(l, p, i)
    <3>1. SUFFICES ASSUME f.needed, p[i - 1] # "" PROVE raw[i - 1] # ""
      BY <1>3, <2>1 DEF PassHere, NeededHere
    <3>2. i - 1 \in 1..n /\ l.fields[i - 1].part = "member"
      BY <3>1, PartFacts DEF n
    <3>3. PICK k \in 1..n : k = i - 1
      BY <3>2
    <3>4. l.fields[k].part # "joint"
      BY <3>2, <3>3
    <3>5. p[k] = raw[k] \/ Turned(l, raw, k)
      BY <1>5, <3>4 DEF MadeOf
    <3> QED BY <3>1, <3>3, <3>5 DEF Turned
  <2>6. SideHere(l, p, i)
    <3>1. SUFFICES ASSUME f.part = "hemisphere", raw[i] # "", p[i - 1] # ""
                   PROVE  /\ raw[i] \in {f.sides[1], f.sides[2]}
                          /\ p[i - 1] \in {"1", "-1"} => (p[i - 1] = "-1" <=> raw[i] = f.sides[2])
      BY <2>1 DEF SideHere
    <3>2. 1 < i /\ SignFollows(l, i - 1) /\ f.sides[1] # f.sides[2]
      BY <1>13, <3>1, PartFacts DEF PartsFit, n
    <3>3. PICK k \in 1..n : k = i - 1 /\ k + 1 = i
      BY <1>1, <3>2
    <3>4. raw[k] # "" /\ raw[k] # "-1"
      <4>1. p[k] = raw[k] \/ Turned(l, raw, k)
        BY <1>11, <3>2, <3>3
      <4> QED BY <1>4, <3>1, <3>3, <4>1 DEF Turned
    <3>5. raw[i] \in {f.sides[1], f.sides[2]}
      BY <1>3, <3>1, <3>3, <3>4 DEF PassHere
    <3>6. p[k] \in {"1", "-1"} => p[k] = IF raw[i] = f.sides[2] THEN "-1" ELSE "1"
      <4>1. CASE Turned(l, raw, k)
        <5>3. SignFollows(l, k)
          BY <3>2, <3>3
        <5>1. l.fields[k].part # "joint"
          BY <5>3, PartFacts DEF n
        <5>2. p[k] = SignOf(l, raw, k)
          BY <1>5, <4>1, <5>1 DEF MadeOf
        <5> QED BY <3>3, <5>2 DEF SignOf
      <4>2. CASE ~Turned(l, raw, k)
        <5>1. p[k] = raw[k]
          BY <1>11, <3>2, <3>3, <4>2
        <5> QED BY <3>1, <3>2, <3>3, <4>2, <5>1 DEF Turned
      <4> QED BY <4>1, <4>2
    <3> QED BY <3>3, <3>5, <3>6
  <2> QED BY <2>2, <2>3, <2>4, <2>5, <2>6, <1>16, <1>17 DEF SoundHere, ValidHere
<1>19. CASE f.part = "joint"
  <2>1. f.opt /\ "" \in f.only
    BY <1>13, <1>19 DEF PartsFit
  <2>2. p[i] = "" \/ p[i] = raw[i]
    BY <1>5, <1>19 DEF MadeOf
  <2>3. HoldsHere(l, p, i)
    <3>1. "" \in Holds(l, i)
      BY <2>1 DEF Holds
    <3> QED BY <1>4, <1>14, <2>2, <3>1 DEF HoldsHere
  <2>4. PassesHere(c, l, p, i)
    <3>1. raw[i] \in f.only
      BY <1>3, <1>19 DEF PassHere
    <3> QED BY <2>1, <2>2, <3>1 DEF PassesHere
  <2>5. SignHere(l, p, i)
    BY <1>4, <2>2 DEF SignHere
  <2>6. JointHere(l, p, i)
    <3>1. SUFFICES ASSUME p[i] # "", NEW j \in Group(l, Leader(l, i)) PROVE p[j] # ""
      BY DEF JointHere
    <3>2. \A k \in Group(l, Leader(l, i)) : raw[k] # ""
      BY <1>5, <1>19, <3>1 DEF MadeOf
    <3>3. j \in 1..n /\ Leader(l, j) = Leader(l, i)
      BY GroupIs DEF n
    <3>4. \A k \in Group(l, Leader(l, i)) : l.fields[k].part = "joint"
      BY <1>19, PartFacts DEF n
    <3>5. p[j] = raw[j]
      BY <1>5, <3>2, <3>3, <3>4 DEF MadeOf
    <3> QED BY <3>2, <3>5
  <2>7. UnsetHere(l, p, i) /\ SideHere(l, p, i)
    BY <1>19 DEF UnsetHere, SideHere
  <2>8. NeededHere(l, p, i)
    <3>1. ~f.needed
      BY <1>19, PartFacts DEF n
    <3> QED BY <3>1 DEF NeededHere
  <2> QED BY <2>3, <2>4, <2>5, <2>6, <2>7, <2>8, <1>16, <1>17 DEF SoundHere, ValidHere
<1> QED BY <1>15, <1>18, <1>19

\* What is read of a line is sound, and no entry is missing between others.
LEMMA ReadSound ==
  ASSUME NEW c, NEW l, WellFormed(c, l), NEW row, NEW o \in Outcomes(l, row), o # NoObject
  PROVE  Sound(c, l, o)
<1>1. Takes(l, Len(row)) /\ \E raw : Raw(l, row, raw) /\ Accepted(l, raw) /\ o = Made(l, raw)
  BY OutcomesAre DEF MadeFrom
<1>2. PICK raw : Raw(l, row, raw) /\ Accepted(l, raw) /\ o = Made(l, raw)
  BY <1>1
<1>3. CASE ~l.append
  <2>1. PICK q : q = Corrected(l, raw)
    OBVIOUS
  <2>2. o = Completed(l, q)
    BY <1>2, <1>3, <2>1 DEF Made
  <2>3. o = [i \in 1..Len(l.fields) |-> o[i]] /\ \A i \in 1..Len(l.fields) : MadeOf(l, raw, o, i)
    BY <2>1, <2>2, MadeIs
  <2> QED BY <1>1, <1>2, <1>3, <2>3, CorrectedSound
<1>4. CASE l.append
  <2>1. o = ClosedUp(l, raw)
    BY <1>2, <1>4 DEF Made
  <2>2. ASSUME NEW i \in 1..Len(l.fields) PROVE ValidHere(c, l, raw, i)
    <3>1. HoldsHere(l, raw, i) /\ UnsetHere(l, raw, i) /\ WholeHere(l, raw, i) /\ raw[i] # "-1"
      BY <1>1, <1>2, RawIs
    <3>2. PassHere(l, raw, i)
      BY <1>2, PassesIs DEF Accepted
    <3>3. l.fields[i].part \notin {"hemisphere", "joint"}
      BY <1>4, Fits DEF PartsFit
    <3>4. PassesHere(c, l, raw, i) /\ NeededHere(l, raw, i)
      BY <3>2 DEF PassHere, PassesHere, NeededHere
    <3>5. SideHere(l, raw, i) /\ SignHere(l, raw, i) /\ JointHere(l, raw, i)
      BY <3>1, <3>3 DEF SideHere, SignHere, JointHere
    <3> QED BY <3>1, <3>4, <3>5 DEF ValidHere
  <2>3. AllValid(c, l, raw)
    BY <2>2 DEF AllValid
  <2> QED BY <2>1, <2>3, ClosedSound
<1> QED BY <1>3, <1>4

-----------------------------------------------------------------------------
(***************************************************************************)
(* What append_data_to writes of a sound object, and what is read of it.   *)
(***************************************************************************)
Length(l, o) == IF l.holes THEN Len(l.fields) ELSE InUse(l, o)

\* The line has a field for each field in use, with its text.
LEMMA WrittenIs ==
  ASSUME NEW c, NEW l, WellFormed(c, l), NEW o, NEW w, w = Written(l, o)
  PROVE  /\ Length(l, o) \in Nat /\ l.head <= Length(l, o) /\ Length(l, o) <= Len(l.fields)
         /\ Len(w) = Length(l, o) /\ DOMAIN w = 1..Length(l, o)
         /\ \A i \in 1..Length(l, o) : w[i] = FieldText(l, Shown(l, o), i)
<1> DEFINE m == Length(l, o)
           n == Len(l.fields)
<1>1. n \in Nat /\ l.head \in Nat /\ l.head <= n
  BY Dims
<1>2. InUse(l, o) \in Nat /\ l.head <= InUse(l, o) /\ InUse(l, o) <= n
  BY EntriesAre
<1> HIDE DEF n
<1>3. m \in Nat /\ l.head <= m /\ m <= n
  BY <1>1, <1>2 DEF Length, n
<1>4. w = [i \in 1..m |-> FieldText(l, Shown(l, o), i)]
  BY DEF Written, Length
<1> HIDE DEF m
<1>5. Len(w) = m /\ DOMAIN w = 1..m /\ \A i \in 1..m : w[i] = FieldText(l, Shown(l, o), i)
  BY <1>3, <1>4
<1> QED BY <1>3, <1>5 DEF m, n

\* What is shown of an object: nothing more than what is written, and all of the head.
SameHead(l, o, sh) == \A i \in 1..Len(l.fields) : i <= l.head => sh[i] = o[i]
NoneAfter(l, o, sh) == \A i \in 1..Len(l.fields) : ~(i <= Length(l, o)) => sh[i] = ""
NoneMissing(l, o, sh) ==
    \A i \in 1..Len(l.fields) :
        i > l.head /\ i <= Length(l, o) /\ sh[FirstOf(l, i)] = "" => l.skips

\* What append_data_to shows of a sound object is sound, and the same before the
\* list.
LEMMA ShownIs ==
  ASSUME NEW c, NEW l, WellFormed(c, l), NEW o, Sound(c, l, o), NEW sh, sh = Shown(l, o)
  PROVE  /\ Sound(c, l, sh)
         /\ SameHead(l, o, sh)
         /\ NoneAfter(l, o, sh)
         /\ NoneMissing(l, o, sh)
<1> USE DEF SameHead, NoneAfter, NoneMissing
<1>1. CASE l.holes
  <2>1. sh = o /\ l.skips
    BY <1>1, Dims DEF Shown
  <2>2. \A i \in 1..Len(l.fields) : i <= Length(l, o)
    BY <1>1, Dims DEF Length
  <2> QED BY <2>1, <2>2
<1>2. CASE ~l.holes
  <2>1. sh = ClosedUp(l, o)
    BY <1>2 DEF Shown
  <2>2. AllValid(c, l, o)
    BY DEF AllValid, Sound, SoundHere
  <2>3. Sound(c, l, sh)
    BY <2>1, <2>2, ClosedSound
  <2>4. \A i \in 1..Len(l.fields) : i <= l.head => sh[i] = o[i]
    BY <2>1, ClosedHead
  <2>5. \A i \in 1..Len(l.fields) : ~(i <= InUse(l, o)) => sh[i] = ""
    BY <2>1, ClosedUpIs
  <2>6. \A i \in 1..Len(l.fields) : i > l.head => (sh[FirstOf(l, i)] # "" <=> i <= InUse(l, o))
    BY <2>1, ClosedUpIs
  <2>7. Length(l, o) = InUse(l, o)
    BY <1>2 DEF Length
  <2> QED BY <2>3, <2>4, <2>5, <2>6, <2>7
<1> QED BY <1>1, <1>2

\* What the code writes but does not read, of its own fault.
Odd(c, l, o) ==
    \/ c = "ALM" /\ o[3] = "0"
    \/ c = "DSC" /\ o[1] = "02"
    \/ c = "XDR" /\ \A i \in 1..Len(l.fields) : ~Present(l, o, i)
    \/ \E i \in 1..Len(l.fields) :
          \/ o[i] = "none"
          \/ l.fields[i].old /\ o[i] = "R"
          \/ /\ l.fields[i].part = "unit" /\ ~l.fields[i].opt /\ ~l.fields[i].always
             /\ o[i - 1] = ""

\* The first field of an entry tells that it is there.
LEMMA FirstWritten ==
  ASSUME NEW c, NEW l, WellFormed(c, l), NEW sh, Sound(c, l, sh), NEW k \in 1..Len(l.fields), k > l.head,
         FirstOf(l, k) = k, ~l.append
  PROVE  FieldText(l, sh, k) = "" <=> sh[k] = ""
<1>1. EntriesFit(l, k) /\ HoldsHere(l, sh, k)
  BY Fits DEF Sound, SoundHere, ValidHere
<1>2. l.fields[k].part = "member" /\ \A v \in Holds(l, k) : v # "" => l.fields[k].type.says[v] # ""
  BY <1>1 DEF EntriesFit
<1>3. sh[k] # "" => sh[k] \in Holds(l, k)
  BY <1>1 DEF HoldsHere
<1>4. FieldText(l, sh, k) = IF sh[k] = "" THEN "" ELSE l.fields[k].type.says[sh[k]]
  BY <1>2 DEF FieldText
<1> QED BY <1>2, <1>3, <1>4

\* What is read of a field of the object's own line is what was written, but for
\* the types that lose something; it is refused only where the object is odd.
LEMMA SameRead ==
  ASSUME NEW c, NEW l, WellFormed(c, l), NEW o, Sound(c, l, o), NEW sh, sh = Shown(l, o),
         NEW w, w = Written(l, o), Takes(l, Len(w)), NEW i \in 1..Len(l.fields), NEW v \in Here(l, w, i)
  PROVE  /\ \/ v = Unsigned(sh[i])
            \/ Loses(l.fields[i], sh[i]) /\ v \in Left(l.fields[i])
            \/ v = Refuse
         /\ v = Refuse => Odd(c, l, o)
<1> DEFINE f == l.fields[i]
           n == Len(l.fields)
           m == Length(l, o)
<1>1. n \in Nat /\ l.head \in Nat /\ m \in Nat /\ l.head <= m /\ m <= n /\ Len(w) = m
  BY WrittenIs, Dims
<1>2. \A k \in 1..m : w[k] = FieldText(l, sh, k)
  BY WrittenIs
<1>3. Sound(c, l, sh)
  BY ShownIs
<1>3a. SameHead(l, o, sh) /\ NoneAfter(l, o, sh) /\ NoneMissing(l, o, sh)
  BY ShownIs
<1>4. \A k \in 1..n : k <= l.head => sh[k] = o[k]
  BY <1>3a DEF SameHead
<1>5. \A k \in 1..n : ~(k <= m) => sh[k] = ""
  BY <1>3a DEF NoneAfter
<1>6. \A k \in 1..n : k > l.head /\ k <= m /\ sh[FirstOf(l, k)] = "" => l.skips
  BY <1>3a DEF NoneMissing
<1>7. HoldsHere(l, sh, i) /\ UnsetHere(l, sh, i) /\ WholeHere(l, sh, i)
  BY <1>3 DEF Sound, SoundHere, ValidHere
<1>8. PartsFit(l, i) /\ ValuesFit(c, l, i) /\ EntriesFit(l, i) /\ ReadsBack(c, l, i)
  BY Fits
<1>9. Refuse # "" /\ Refuse # Keep /\ Keep # "" /\ Unsigned("") = ""
  BY DEF Refuse, Keep, Unsigned
<1> HIDE DEF n, m
<1>10. CASE i > Len(w) /\ v = f.init
  <2>1. i > l.head /\ ~(i <= m)
    BY <1>1, <1>10 DEF n
  <2>2. f.init = ""
    BY <1>8, <2>1 DEF EntriesFit
  <2>3. sh[i] = ""
    BY <1>5, <2>1 DEF n
  <2> QED BY <1>9, <1>10, <2>2, <2>3
<1>11. CASE i <= Len(w) /\ l.skips /\ i > l.head /\ w[FirstOf(l, i)] = "" /\ v = ""
  <2> DEFINE k == FirstOf(l, i)
  <2>1. k \in 1..n /\ k > l.head /\ k <= i /\ FirstOf(l, k) = k
    BY <1>11, FirstHere DEF n
  <2>2. w[k] = ""
    BY <1>11
  <2> HIDE DEF k
  <2>3. k \in 1..m
    <3>1. i <= m
      BY <1>1, <1>11
    <3> QED BY <1>1, <2>1, <3>1 DEF n
  <2>4. sh[k] = ""
    <3>1. FieldText(l, sh, k) = ""
      BY <1>2, <2>2, <2>3
    <3>2. k \in 1..Len(l.fields) /\ k > l.head /\ FirstOf(l, k) = k
      BY <2>1 DEF n
    <3>3. ~l.append
      BY <1>11, Dims
    <3> QED BY <1>3, <3>1, <3>2, <3>3, FirstWritten
  <2>5. sh[i] = ""
    BY <1>7, <1>11, <2>4 DEF WholeHere, k
  <2> QED BY <1>9, <1>11, <2>5
<1>12. CASE /\ i <= Len(w) /\ ~(l.skips /\ i > l.head /\ w[FirstOf(l, i)] = "")
            /\ v \in FieldOutcomes(f, w[i])
  <2>1. i \in 1..m
    <3>1. i <= m
      BY <1>1, <1>12
    <3> QED BY <1>1, <3>1 DEF n
  <2>2. w[i] = FieldText(l, sh, i)
    BY <1>2, <2>1
  <2>3. CASE f.part = "unread"
    BY <1>7, <1>9, <1>12, <2>3 DEF FieldOutcomes, UnsetHere
  <2>4. CASE f.part = "unit"
    <3>1. /\ i > 1 /\ f.init = "" /\ f.type.says[""] # "" /\ f.type.says[""] \in DOMAIN f.type.means
          /\ f.type.none \subseteq {"", Refuse}
          /\ f.type.means[f.type.says[""]] = ""
      BY <1>8, <2>4 DEF PartsFit
    <3>2. sh[i] = "" /\ Unsigned(sh[i]) = ""
      BY <1>7, <1>9, <2>4 DEF UnsetHere
    <3>3. w[i] = IF f.always \/ sh[i - 1] # "" THEN f.type.says[""] ELSE ""
      BY <2>2, <2>4 DEF FieldText
    <3>4. CASE f.always \/ sh[i - 1] # ""
      <4>1. v = ""
        BY <1>12, <2>4, <3>1, <3>3, <3>4 DEF FieldOutcomes
      <4> QED BY <1>9, <3>2, <4>1
    <3>5. CASE ~(f.always \/ sh[i - 1] # "")
      <4>1. w[i] = ""
        BY <3>3, <3>5
      <4>2. v \in IF f.opt THEN {""} ELSE {IF x = Keep THEN f.init ELSE x : x \in f.type.none}
        BY <1>12, <2>4, <4>1 DEF FieldOutcomes
      <4>3. v = "" \/ (v = Refuse /\ ~f.opt)
        BY <1>9, <3>1, <4>2
      <4>4. o[i - 1] = ""
        <5>1. i <= l.head
          BY <2>4, PartFacts DEF n
        <5>1a. i > 1
          BY <3>1
        <5>2. i - 1 \in 1..n /\ i - 1 <= l.head
          BY <1>1, <5>1, <5>1a DEF n
        <5>3. sh[i - 1] = o[i - 1]
          BY <1>4, <5>2
        <5> QED BY <3>5, <5>3
      <4>5. ~f.opt => Odd(c, l, o)
        BY <2>4, <3>5, <4>4 DEF Odd
      <4> QED BY <1>9, <3>2, <4>3, <4>5
    <3> QED BY <3>4, <3>5
  <2>5. CASE f.part \notin {"unit", "unread"}
    <3>1. sh[i] \in Holds(l, i)
      <4>1. SUFFICES ASSUME i > l.head, sh[FirstOf(l, i)] = "" PROVE FALSE
        BY <1>7, <2>5 DEF HoldsHere
      <4> DEFINE k == FirstOf(l, i)
      <4>2. k \in 1..n /\ k > l.head /\ k <= i /\ FirstOf(l, k) = k
        BY <4>1, FirstHere DEF n
      <4>3. sh[k] = "" /\ l.skips
        <5>1. i <= m
          BY <1>1, <2>1
        <5> QED BY <1>6, <4>1, <5>1 DEF n
      <4>4. w[k] # ""
        BY <1>12, <4>1, <4>3
      <4> HIDE DEF k
      <4>5. k \in 1..m
        BY <1>1, <2>1, <4>2
      <4>6. FieldText(l, sh, k) # ""
        BY <1>2, <4>4, <4>5
      <4>7. k \in 1..Len(l.fields) /\ k > l.head /\ FirstOf(l, k) = k
        BY <4>2 DEF n
      <4>8. ~l.append
        BY <4>3, Dims
      <4> QED BY <1>3, <4>3, <4>6, <4>7, <4>8, FirstWritten
    <3>2. w[i] = IF sh[i] = "" THEN "" ELSE f.type.says[sh[i]]
      BY <2>2, <2>5 DEF FieldText
    <3> DEFINE read == FieldOutcomes(f, IF sh[i] = "" THEN "" ELSE f.type.says[sh[i]])
    <3>3. \/ read = {Unsigned(sh[i])}
          \/ Loses(f, sh[i]) /\ read \subseteq Left(f) \ {Refuse}
          \/ read = {Refuse} /\ (sh[i] = "none" \/ (c = "DSC" /\ i = 1 /\ sh[i] = "02"))
      BY <1>8, <2>5, <3>1 DEF ReadsBack
    <3>4. v \in read
      BY <1>12, <3>2
    <3> HIDE DEF read
    <3>5. Unsigned(sh[i]) # Refuse
      <4>1. sh[i] # Refuse
        BY <3>1, <1>8, <2>5 DEF ValuesFit
      <4> QED BY <4>1 DEF Unsigned, Refuse
    <3>6. sh[i] = "none" => Odd(c, l, o)
      <4>1. SUFFICES ASSUME sh[i] = "none" PROVE Odd(c, l, o)
        OBVIOUS
      <4>2. CASE i <= l.head
        BY <1>4, <4>1, <4>2 DEF Odd, n
      <4>3. CASE i > l.head
        <5>1. "none" \notin DOMAIN f.type.says
          BY <1>8, <4>3 DEF EntriesFit
        <5>2. Holds(l, i) \subseteq DOMAIN f.type.says \cup {""}
          BY <1>8, <2>5 DEF ValuesFit
        <5> QED BY <3>1, <4>1, <5>1, <5>2
      <4>4. i <= l.head \/ i > l.head
        BY <1>1 DEF n
      <4> QED BY <4>2, <4>3, <4>4
    <3>7. c = "DSC" /\ i = 1 /\ sh[i] = "02" => Odd(c, l, o)
      <4>1. SUFFICES ASSUME c = "DSC", i = 1, sh[i] = "02" PROVE o[1] = "02"
        BY DEF Odd
      <4>1a. c \notin Lists
        BY <4>1 DEF Lists
      <4>2. ~(l.head < n)
        BY <4>1a, Dims DEF n
      <4>3. i <= l.head
        BY <1>1, <4>2 DEF n
      <4> QED BY <1>4, <4>1, <4>3 DEF n
    <3> QED BY <3>3, <3>4, <3>5, <3>6, <3>7
  <2>6. f.part = "unread" \/ f.part = "unit" \/ f.part \notin {"unit", "unread"}
    OBVIOUS
  <2> QED BY <2>3, <2>4, <2>5, <2>6
<1> QED BY <1>10, <1>11, <1>12, HereIs

\* append_data_to writes as many fields as the constructor takes.
LEMMA OwnTaken ==
  ASSUME NEW c, NEW l, WellFormed(c, l), NEW o, Sound(c, l, o), Writable(l, o), ~Odd(c, l, o),
         NEW w, w = Written(l, o)
  PROVE  Takes(l, Len(w))
<1> DEFINE n == Len(l.fields)
           C == Cardinality(Entries(l, o))
           m == Most(l)
           h == l.head
           a == l.least
           wd == l.entry
<1>1. n \in Nat \ {0} /\ h \in Nat /\ m \in Nat /\ n = h + m * wd /\ wd \in {1, 2, 4}
  BY Dims, MostIs
<1>2. C \in Nat /\ C <= m /\ InUse(l, o) = h + C * wd
  BY EntriesAre DEF InUse
<1>3. Len(w) = IF l.holes THEN n ELSE h + C * wd
  BY <1>2, WrittenIs DEF Length
<1>4. SizesFit(c, l)
  BY DEF WellFormed
<1>5. a \in {0, 1} /\ a <= m
  BY <1>4 DEF SizesFit
<1>6. \A k \in a..m : h + k * wd \in l.sizes \/ (c = "XDR" /\ k = 0)
  BY <1>4 DEF SizesFit
<1>7. c = "XDR" => h = 0
  BY <1>4 DEF SizesFit
<1>8. \A e \in Entries(l, o) : 1 <= C
  <2>1. TAKE e \in Entries(l, o)
  <2>2. Entries(l, o) \in SUBSET Nat /\ \A d \in Entries(l, o) : 1 <= d /\ d <= m
    BY EntriesAre
  <2> HIDE DEF m
  <2>3. IsFiniteSet(Entries(l, o))
    <3>1. Entries(l, o) \subseteq 1..m
      BY <1>1, <2>2
    <3>2. IsFiniteSet(1..m)
      BY <1>1, FS_Interval
    <3> QED BY <3>1, <3>2, FS_Subset
  <2>4. C # 0
    <3>1. Entries(l, o) # {}
      BY <2>1
    <3> QED BY <2>3, <3>1, FS_EmptySet
  <2> HIDE DEF C
  <2> QED BY <1>2, <2>4
<1>9. a <= C
  <2>1. SUFFICES ASSUME a = 1 PROVE 1 <= C
    BY <1>2, <1>5
  <2>2. 1 \in 1..a /\ 1 \in 1..m
    BY <1>1, <1>5, <2>1
  <2>3. o[BeginOf(l, 1)] # ""
    BY <2>2 DEF Writable
  <2>4. 1 \in Entries(l, o)
    BY <2>2, <2>3 DEF Entries
  <2> QED BY <1>8, <2>4
<1>10. c = "XDR" => C # 0
  <2>1. SUFFICES ASSUME c = "XDR", C = 0 PROVE FALSE
    OBVIOUS
  <2>2. PICK i \in 1..n : Present(l, o, i)
    BY <2>1 DEF Odd
  <2>3. i > h
    <3>1. h = 0
      BY <1>7, <2>1
    <3> HIDE DEF h, n
    <3> QED BY <1>1, <3>1
  <2>4. o[FirstOf(l, i)] # ""
    <3>1. ~(i <= h)
      BY <2>3, InList
    <3> QED BY <2>2, <3>1 DEF Present
  <2>5. EntryOf(l, i) \in Entries(l, o)
    BY <2>3, <2>4, EntryHere
  <2>6. 1 <= C
    BY <1>8, <2>5
  <2> HIDE DEF C
  <2> QED BY <2>1, <2>6
<1> HIDE DEF n, C, m, h, a, wd
<1>11. CASE l.holes
  <2>1. m \in a..m
    BY <1>1, <1>5
  <2>2. c = "XDR" => m # 0
    BY <1>1, <1>7
  <2>3. h + m * wd \in l.sizes
    BY <1>6, <2>1, <2>2
  <2> QED BY <1>1, <1>3, <1>11, <2>3 DEF Takes
<1>12. CASE ~l.holes
  <2>1. C \in a..m
    BY <1>1, <1>2, <1>5, <1>9
  <2>2. h + C * wd \in l.sizes
    BY <1>6, <1>10, <2>1
  <2> QED BY <1>3, <1>12, <2>2 DEF Takes
<1> QED BY <1>11, <1>12

\* The checks let pass what has been written.
LEMMA OwnPasses ==
  ASSUME NEW c, NEW l, WellFormed(c, l), NEW o, Sound(c, l, o), ~Odd(c, l, o),
         NEW w, w = Written(l, o), Takes(l, Len(w)), NEW raw, Raw(l, w, raw)
  PROVE  Accepted(l, raw)
<1> DEFINE n == Len(l.fields)
<1>1. n \in Nat /\ l.head \in Nat
  BY Dims
<1>2. PICK sh : sh = Shown(l, o)
  OBVIOUS
<1>3. Sound(c, l, sh) /\ SameHead(l, o, sh)
  BY <1>2, ShownIs
<1>4. ASSUME NEW i \in 1..n
      PROVE  /\ raw[i] # Refuse
             /\ raw[i] = Unsigned(sh[i]) \/ (Loses(l.fields[i], sh[i]) /\ raw[i] \in l.fields[i].only)
  <2>1. raw[i] \in Here(l, w, i)
    BY DEF Raw
  <2>2. PICK v \in Here(l, w, i) : v = raw[i]
    BY <2>1
  <2>3. Left(l.fields[i]) \subseteq l.fields[i].only
    BY DEF Left
  <2> QED BY <1>2, <2>2, <2>3, SameRead
<1>5. Unsigned("") = "" /\ \A v : Unsigned(v) = "" => v = ""
  BY DEF Unsigned
<1> SUFFICES ASSUME NEW i \in 1..n PROVE PassHere(l, raw, i)
  BY <1>4, PassesIs DEF Accepted
<1> DEFINE f == l.fields[i]
<1>6. PartsFit(l, i) /\ ValuesFit(c, l, i)
  BY Fits
<1>7. PassesHere(c, l, sh, i) /\ NeededHere(l, sh, i) /\ SideHere(l, sh, i) /\ SignHere(l, sh, i)
  BY <1>3 DEF Sound, SoundHere, ValidHere
<1>8. f.type \in LossyTypes => f.part = "member"
  BY <1>6 DEF PartsFit
<1>9. f.part = "unit" \/ raw[i] \in f.only
  <2>1. SUFFICES ASSUME f.part # "unit", raw[i] = Unsigned(sh[i]) PROVE raw[i] \in f.only
    BY <1>4
  <2>2. ~Excused(c, l, i, sh[i])
    <3>1. SUFFICES ASSUME Excused(c, l, i, sh[i]) PROVE FALSE
      OBVIOUS
    <3>2. CASE f.old /\ sh[i] = "R"
      <4>0. ~(i > l.head)
        BY <3>2, PartFacts
      <4>1. i <= l.head
        BY <1>1, <4>0
      <4>2. sh[i] = o[i]
        BY <1>3, <4>1 DEF SameHead
      <4> QED BY <3>2, <4>2 DEF Odd
    <3>3. CASE c = "ALM" /\ i = 3 /\ sh[i] = "0"
      <4>1. c \notin Lists
        BY <3>3 DEF Lists
      <4>2. ~(i > l.head)
        BY <4>1, InList
      <4>3. i <= l.head
        BY <1>1, <4>2
      <4>4. sh[i] = o[i]
        BY <1>3, <4>3 DEF SameHead
      <4> QED BY <3>3, <4>4 DEF Odd
    <3> QED BY <3>1, <3>2, <3>3 DEF Excused
  <2>3. sh[i] \in f.only
    BY <1>7, <2>1, <2>2 DEF PassesHere
  <2>4. CASE sh[i] = "-1"
    <3>1. SignFollows(l, i)
      BY <1>7, <2>4 DEF SignHere
    <3>2. "1" \in f.only
      BY <1>6, <3>1 DEF PartsFit
    <3> QED BY <2>1, <2>4, <3>2 DEF Unsigned
  <2>5. CASE sh[i] # "-1"
    BY <2>1, <2>3, <2>5 DEF Unsigned
  <2> QED BY <2>4, <2>5
<1>10. f.needed /\ raw[i - 1] # "" => raw[i] # ""
  <2>1. SUFFICES ASSUME f.needed, raw[i - 1] # "" PROVE raw[i] # ""
    OBVIOUS
  <2>2. f.type \notin LossyTypes /\ l.fields[i - 1].type \notin LossyTypes
    BY <1>6, <2>1 DEF PartsFit
  <2>3. PICK k \in 1..n : k = i - 1
    BY <2>1, PartFacts
  <2>4. raw[k] = Unsigned(sh[k]) /\ raw[i] = Unsigned(sh[i])
    BY <1>4, <2>2, <2>3 DEF Loses
  <2> QED BY <1>5, <1>7, <2>1, <2>3, <2>4 DEF NeededHere
<1>11. f.part = "hemisphere" /\ raw[i - 1] # "" /\ raw[i] # "" => raw[i] \in {f.sides[1], f.sides[2]}
  <2>1. SUFFICES ASSUME f.part = "hemisphere", raw[i - 1] # "", raw[i] # ""
                 PROVE  raw[i] \in {f.sides[1], f.sides[2]}
    OBVIOUS
  <2>2. 1 < i /\ SignFollows(l, i - 1)
    BY <2>1, PartFacts
  <2>3. PICK k \in 1..n : k = i - 1
    BY <1>1, <2>2
  <2>4. l.fields[k].type \notin LossyTypes
    BY <2>2, <2>3, Fits DEF PartsFit
  <2>5. raw[k] = Unsigned(sh[k]) /\ raw[i] = Unsigned(sh[i])
    BY <1>4, <1>8, <2>1, <2>4 DEF Loses
  <2>6. sh[i] \in {f.sides[1], f.sides[2]}
    BY <1>5, <1>7, <2>1, <2>3, <2>5 DEF SideHere
  <2>7. sh[i] # "-1"
    <3>1. ~SignFollows(l, i)
      BY <2>1, PartFacts
    <3>2. "-1" \notin f.args
      BY <1>6, <3>1 DEF ValuesFit
    <3>3. f.args = {f.sides[1], f.sides[2]}
      BY <1>6, <2>1 DEF PartsFit
    <3> QED BY <2>6, <3>2, <3>3
  <2> QED BY <2>5, <2>6, <2>7 DEF Unsigned
<1> QED BY <1>9, <1>10, <1>11 DEF PassHere

\* Entries close up the same whatever stands before the list.
LEMMA ClosedSame ==
  ASSUME NEW c, NEW l, WellFormed(c, l), NEW o, NEW p,
         \A i \in 1..Len(l.fields) : i > l.head => o[i] = p[i], NEW i \in 1..Len(l.fields), i > l.head
  PROVE  ClosedUp(l, o)[i] = ClosedUp(l, p)[i]
<1>1. \A e \in 1..Most(l) : BeginOf(l, e) \in 1..Len(l.fields) /\ BeginOf(l, e) > l.head
  <2>1. TAKE e \in 1..Most(l)
  <2>2. BeginOf(l, e) \in 1..Len(l.fields)
    BY MostIs
  <2>3. l.head \in Nat /\ l.entry \in {1, 2, 4} /\ e \in Nat \ {0}
    BY <2>1, Dims, MostIs
  <2>4. BeginOf(l, e) > l.head
    BY <2>3 DEF BeginOf
  <2> QED BY <2>2, <2>4
<1>2. Entries(l, o) = Entries(l, p)
  <2>1. \A e \in 1..Most(l) : o[BeginOf(l, e)] = p[BeginOf(l, e)]
    BY <1>1
  <2> QED BY <2>1 DEF Entries
<1>3. InUse(l, o) = InUse(l, p) /\ Source(l, o, i) = Source(l, p, i)
  BY <1>2 DEF InUse, Source
<1>4. PICK j : j = Source(l, o, i)
  OBVIOUS
<1>5. i <= InUse(l, o) => j \in 1..Len(l.fields) /\ j > l.head
  BY <1>4, SourceIs DEF Moves
<1>6. i <= InUse(l, o) => o[j] = p[j]
  BY <1>5
<1>7. i \in DOMAIN l.fields
  BY Dims
<1> QED BY <1>3, <1>4, <1>6, <1>7 DEF ClosedUp

\* A field of a list that is appended to: an empty waypoint is read as none.
LEMMA EntryRead ==
  ASSUME NEW c, NEW l, WellFormed(c, l), l.append, NEW o, Sound(c, l, o), NEW sh, sh = Shown(l, o),
         NEW w, w = Written(l, o), Takes(l, Len(w)), NEW i \in 1..Len(l.fields), i > l.head,
         NEW v \in Here(l, w, i)
  PROVE  v = IF sh[i] = "blank" THEN "" ELSE sh[i]
<1> DEFINE f == l.fields[i]
           n == Len(l.fields)
           m == Length(l, o)
<1>1. n \in Nat /\ l.head \in Nat /\ m \in Nat /\ m <= n /\ Len(w) = m
  BY WrittenIs, Dims
<1>2. Sound(c, l, sh) /\ NoneAfter(l, o, sh) /\ NoneMissing(l, o, sh)
  BY ShownIs
<1>3. HoldsHere(l, sh, i) /\ EntriesFit(l, i) /\ ~l.skips /\ FirstOf(l, i) = i
  BY <1>2, Fits, Dims, Single DEF Sound, SoundHere, ValidHere
<1>4. /\ f.part = "member" /\ f.init = ""
      /\ \A x \in Holds(l, i) :
           FieldOutcomes(f, IF x = "" THEN "" ELSE f.type.says[x]) = {IF x = "blank" THEN "" ELSE x}
  BY <1>3 DEF EntriesFit
<1>5. CASE i > Len(w) /\ v = f.init
  <2>1. ~(i <= m)
    BY <1>1, <1>5 DEF n
  <2>2. sh[i] = ""
    BY <1>2, <2>1 DEF NoneAfter
  <2> QED BY <1>4, <1>5, <2>2
<1>6. CASE i <= Len(w) /\ v \in FieldOutcomes(f, w[i])
  <2>1. i \in 1..m /\ i <= m
    BY <1>1, <1>6 DEF n
  <2>2. w[i] = FieldText(l, sh, i)
    BY <2>1, WrittenIs DEF m
  <2>3. sh[i] # ""
    BY <1>3, <1>2, <2>1 DEF NoneMissing, m
  <2>4. sh[i] \in Holds(l, i)
    BY <1>3, <2>3 DEF HoldsHere
  <2>5. w[i] = IF sh[i] = "" THEN "" ELSE f.type.says[sh[i]]
    BY <1>4, <2>2 DEF FieldText
  <2> QED BY <1>4, <1>6, <2>4, <2>5
<1> QED BY <1>3, <1>5, <1>6, HereIs

\* The object made of what has been written is what it shows of itself, but for what
\* is lost.
LEMMA OwnMade ==
  ASSUME NEW c, NEW l, WellFormed(c, l), NEW o, Sound(c, l, o), NEW sh, sh = Shown(l, o),
         NEW w, w = Written(l, o), Takes(l, Len(w)), NEW raw, Raw(l, w, raw), Accepted(l, raw),
         NEW r, r = Made(l, raw), NEW i \in 1..Len(l.fields), NEW nm, nm = Named(l, sh)
  PROVE  r[i] = nm[i] \/ (Loses(l.fields[i], nm[i]) /\ r[i] \in Left(l.fields[i]))
<1> DEFINE n == Len(l.fields)
           f == l.fields[i]
<1>1. n \in Nat /\ l.head \in Nat
  BY Dims
<1>2. \A k \in 1..n : ValidHere(c, l, sh, k)
  BY ShownIs DEF Sound, SoundHere
<1>3. ASSUME NEW k \in 1..n
      PROVE  raw[k] = Unsigned(sh[k]) \/ (Loses(l.fields[k], sh[k]) /\ raw[k] \in Left(l.fields[k]))
  <2>1. raw[k] \in Here(l, w, k)
    BY DEF Raw
  <2>2. PICK v \in Here(l, w, k) : v = raw[k]
    BY <2>1
  <2>3. v # Refuse
    BY <2>2 DEF Accepted
  <2> QED BY <2>2, <2>3, SameRead
<1>4. Unsigned("") = "" /\ \A v : Unsigned(v) = "" => v = ""
  BY DEF Unsigned
<1>5. ASSUME NEW k \in 1..n, ~SignFollows(l, k)
      PROVE  raw[k] = sh[k] \/ (Loses(l.fields[k], sh[k]) /\ raw[k] \in Left(l.fields[k]))
  <2>1. SignHere(l, sh, k)
    BY <1>2 DEF ValidHere
  <2>2. sh[k] # "-1"
    BY <1>5, <2>1 DEF SignHere
  <2> QED BY <1>3, <1>5, <2>2 DEF Unsigned
<1>6. ASSUME NEW k \in 1..n, l.fields[k].part # "member" PROVE raw[k] = sh[k]
  <2>1. l.fields[k].type \notin LossyTypes
    BY <1>6, Fits DEF PartsFit
  <2>2. ~SignFollows(l, k)
    BY <1>6, PartFacts
  <2> QED BY <1>5, <2>1, <2>2 DEF Loses
<1>7. CASE ~l.append
  <2>0. nm = sh
    BY <1>7 DEF Named
  <2>1. PICK q : q = Corrected(l, raw)
    OBVIOUS
  <2>2. r = Completed(l, q)
    BY <1>7, <2>1 DEF Made
  <2>3. MadeOf(l, raw, r, i)
    BY <2>1, <2>2, MadeIs
  <2>4. CASE f.part = "joint"
    <3>1. raw[i] = sh[i]
      BY <1>6, <2>4
    <3>2. sh[i] # "" => \A j \in Group(l, Leader(l, i)) : raw[j] # ""
      <4>1. SUFFICES ASSUME sh[i] # "", NEW j \in Group(l, Leader(l, i)) PROVE raw[j] # ""
        OBVIOUS
      <4>2. sh[j] # ""
        BY <1>2, <2>4, <4>1 DEF ValidHere, JointHere
      <4>3. j \in 1..n /\ l.fields[j].part = "joint"
        BY <2>4, GroupIs, PartFacts
      <4> QED BY <1>6, <4>2, <4>3
    <3> QED BY <2>0, <2>3, <2>4, <3>1, <3>2 DEF MadeOf
  <2>5. CASE f.part # "joint" /\ Turned(l, raw, i)
    <3>1. SignFollows(l, i) /\ raw[i] \in {"1", "-1"} /\ raw[i + 1] # ""
      BY <2>5 DEF Turned
    <3>2. PICK k \in 1..n : k = i + 1
      BY <3>1, PartFacts
    <3>3. l.fields[k].part = "hemisphere"
      BY <3>1, <3>2 DEF SignFollows
    <3>4. raw[k] = sh[k]
      BY <1>6, <3>3
    <3>5. raw[i] = Unsigned(sh[i])
      <4>1. f.type \notin LossyTypes
        BY <3>1, Fits DEF PartsFit
      <4> QED BY <1>3, <4>1 DEF Loses
    <3>6. sh[i] \in {"1", "-1"}
      BY <3>1, <3>5 DEF Unsigned
    <3>7. SideHere(l, sh, k)
      BY <1>2 DEF ValidHere
    <3>8. k - 1 = i
      BY <1>1, <3>2
    <3>9. sh[i] = "-1" <=> sh[k] = l.fields[k].sides[2]
      BY <3>1, <3>2, <3>3, <3>4, <3>6, <3>7, <3>8 DEF SideHere
    <3>10. r[i] = IF raw[k] = l.fields[k].sides[2] THEN "-1" ELSE "1"
      BY <2>3, <2>5, <3>2 DEF MadeOf, SignOf
    <3> QED BY <2>0, <3>4, <3>6, <3>9, <3>10
  <2>6. CASE f.part # "joint" /\ ~Turned(l, raw, i)
    <3>1. r[i] = raw[i]
      BY <2>3, <2>6 DEF MadeOf
    <3>2. raw[i] = Unsigned(sh[i]) => sh[i] # "-1"
      <4>1. SUFFICES ASSUME raw[i] = Unsigned(sh[i]), sh[i] = "-1" PROVE FALSE
        OBVIOUS
      <4>2. SignFollows(l, i) /\ sh[i + 1] # ""
        BY <1>2, <4>1 DEF ValidHere, SignHere
      <4>3. PICK k \in 1..n : k = i + 1
        BY <4>2, PartFacts
      <4>4. l.fields[k].part = "hemisphere"
        BY <4>2, <4>3 DEF SignFollows
      <4>5. raw[k] = sh[k]
        BY <1>6, <4>4
      <4>6. raw[i] = "1"
        BY <4>1 DEF Unsigned
      <4> QED BY <2>6, <4>2, <4>3, <4>5, <4>6 DEF Turned
    <3>3. raw[i] = Unsigned(sh[i]) => raw[i] = sh[i]
      BY <3>2 DEF Unsigned
    <3> QED BY <1>3, <2>0, <3>1, <3>3
  <2> QED BY <2>4, <2>5, <2>6
<1>8. CASE l.append
  <2>1. PICK b : b = [k \in DOMAIN l.fields |-> IF k > l.head /\ sh[k] = "blank" THEN "" ELSE sh[k]]
    OBVIOUS
  <2>2. r = ClosedUp(l, raw) /\ nm = ClosedUp(l, b)
    BY <1>8, <2>1 DEF Made, Named
  <2>3. ASSUME NEW k \in 1..n PROVE b[k] = IF k > l.head /\ sh[k] = "blank" THEN "" ELSE sh[k]
    BY <2>1, Dims
  <2>4. CASE i <= l.head
    <3>1. ~SignFollows(l, i)
      <4>1. SUFFICES ASSUME SignFollows(l, i) PROVE FALSE
        OBVIOUS
      <4>2. PICK j \in 1..n : j = i + 1
        BY <4>1, PartFacts
      <4>3. l.fields[j].part = "hemisphere"
        BY <4>1, <4>2 DEF SignFollows
      <4> QED BY <1>8, <4>3, Fits DEF PartsFit
    <3>2. ~(i > l.head)
      BY <1>1, <2>4 DEF n
    <3>3. r[i] = raw[i]
      BY <2>2, <2>4, ClosedHead
    <3>4. PICK k : k = ClosedUp(l, b)
      OBVIOUS
    <3>5. k[i] = b[i]
      BY <2>4, <3>4, ClosedHead
    <3>6. b[i] = sh[i]
      BY <2>3, <3>2
    <3>7. nm[i] = sh[i]
      BY <2>2, <3>4, <3>5, <3>6
    <3> QED BY <1>5, <3>1, <3>3, <3>7
  <2>5. CASE i > l.head
    <3>1. ASSUME NEW k \in 1..n, k > l.head PROVE raw[k] = b[k]
      <4>1. raw[k] \in Here(l, w, k)
        BY DEF Raw
      <4>2. PICK v \in Here(l, w, k) : v = raw[k]
        BY <4>1
      <4>3. v = IF sh[k] = "blank" THEN "" ELSE sh[k]
        BY <1>8, <3>1, <4>2, EntryRead
      <4> QED BY <2>3, <3>1, <4>2, <4>3
    <3>2. ClosedUp(l, raw)[i] = ClosedUp(l, b)[i]
      BY <2>5, <3>1, ClosedSame
    <3> QED BY <2>2, <3>2
  <2>6. i <= l.head \/ i > l.head
    BY <1>1
  <2> QED BY <2>4, <2>5, <2>6
<1> QED BY <1>7, <1>8

\* What is made has members.
LEMMA MadeSomething ==
  ASSUME NEW c, NEW l, WellFormed(c, l), NEW raw
  PROVE  Made(l, raw) # NoObject
<1>1. Len(l.fields) \in Nat \ {0} /\ DOMAIN l.fields = 1..Len(l.fields)
  BY Dims
<1>2. 1 \in DOMAIN Made(l, raw)
  BY <1>1 DEF Made, ClosedUp, Completed
<1>3. DOMAIN NoObject = {}
  BY DEF NoObject
<1> QED BY <1>2, <1>3

\* Member i of an object that was read, nm being what was written.
BackHere(l, nm, r, i) == r[i] = nm[i] \/ (Loses(l.fields[i], nm[i]) /\ r[i] \in Left(l.fields[i]))

\* A line of its own is read back.
LEMMA ReadBackIs ==
  ASSUME NEW c, NEW l, WellFormed(c, l), NEW o, Sound(c, l, o), Writable(l, o),
         NEW w, w = Written(l, o), NEW r \in Outcomes(l, w)
  PROVE  /\ r = NoObject => Odd(c, l, o)
         /\ r # NoObject => \A i \in 1..Len(l.fields) : BackHere(l, Named(l, Shown(l, o)), r, i)
<1>1. PICK sh, nm : sh = Shown(l, o) /\ nm = Named(l, sh)
  OBVIOUS
<1>2. Odd(c, l, o) \/ Takes(l, Len(w))
  BY OwnTaken
<1>3. ASSUME r = NoObject, ~Odd(c, l, o) PROVE FALSE
  <2>1. Takes(l, Len(w))
    BY <1>2, <1>3
  <2>3. CASE \E i \in 1..Len(l.fields) : Here(l, w, i) = {Refuse}
    <3>1. PICK i \in 1..Len(l.fields) : Here(l, w, i) = {Refuse}
      BY <2>3
    <3>2. PICK v \in Here(l, w, i) : v = Refuse
      BY <3>1
    <3> QED BY <1>1, <1>3, <2>1, <3>2, SameRead
  <2>4. CASE \E raw : Raw(l, w, raw) /\ ~Accepted(l, raw)
    BY <1>3, <2>1, <2>4, OwnPasses
  <2>5. CASE \E raw : Raw(l, w, raw) /\ Accepted(l, raw) /\ r = Made(l, raw)
    <3>1. PICK raw : Raw(l, w, raw) /\ Accepted(l, raw) /\ r = Made(l, raw)
      BY <2>5
    <3>2. Made(l, raw) # NoObject
      BY MadeSomething
    <3> QED BY <1>3, <3>1, <3>2
  <2>6. Refuses(l, w) \/ MadeFrom(l, w, r)
    BY OutcomesAre
  <2>7. \/ ~Takes(l, Len(w))
        \/ \E i \in 1..Len(l.fields) : Here(l, w, i) = {Refuse}
        \/ \E raw : Raw(l, w, raw) /\ ~Accepted(l, raw)
        \/ \E raw : Raw(l, w, raw) /\ Accepted(l, raw) /\ r = Made(l, raw)
    BY <2>6 DEF Refuses, MadeFrom
  <2> QED BY <2>1, <2>3, <2>4, <2>5, <2>7
<1>4. ASSUME r # NoObject, NEW i \in 1..Len(l.fields) PROVE BackHere(l, nm, r, i)
  <2>1. Takes(l, Len(w)) /\ \E raw : Raw(l, w, raw) /\ Accepted(l, raw) /\ r = Made(l, raw)
    BY <1>4, OutcomesAre DEF MadeFrom
  <2>2. PICK raw : Raw(l, w, raw) /\ Accepted(l, raw) /\ r = Made(l, raw)
    BY <2>1
  <2> QED BY <1>1, <2>1, <2>2, OwnMade DEF BackHere
<1> QED BY <1>1, <1>3, <1>4

-----------------------------------------------------------------------------
(***************************************************************************)
(* What is read of a line stands where it will be written again.           *)
(***************************************************************************)
Filled(row, i) == i \in 1..Len(row) /\ row[i] # ""

\* A line has some number of fields.
LEMMA LineLength ==
  ASSUME NEW c, NEW l, WellFormed(c, l), NEW row, Takes(l, Len(row))
  PROVE  /\ Len(row) \in Nat
         /\ l.head < Len(l.fields) => Len(row) >= l.head
         /\ Len(row) <= Len(l.fields) \/ c \in {"GSV", "TTM"}
<1>1. Len(row) \in l.sizes
  BY DEF Takes
<1>2. SizesFit(c, l)
  BY DEF WellFormed
<1> QED BY <1>1, <1>2 DEF SizesFit

\* A text that is read gives its member a value that is written as a text.
LEMMA TextRead ==
  ASSUME NEW c, NEW l, WellFormed(c, l), NEW row, Takes(l, Len(row)), NEW raw, Raw(l, row, raw),
         Accepted(l, raw), NEW i \in 1..Len(l.fields), Filled(row, i),
         l.fields[i].part \notin {"unit", "unread"}
  PROVE  \/ l.skips /\ i > l.head /\ row[FirstOf(l, i)] = ""
         \/ raw[i] # "" /\ l.fields[i].type.says[raw[i]] # ""
<1>1. SUFFICES ASSUME ~(l.skips /\ i > l.head /\ row[FirstOf(l, i)] = "")
               PROVE  raw[i] # "" /\ l.fields[i].type.says[raw[i]] # ""
  OBVIOUS
<1>2. raw[i] \in Here(l, row, i) /\ raw[i] # Refuse
  BY DEF Raw, Accepted
<1>3. ~(i > Len(row))
  <2>1. Len(row) \in Nat
    BY LineLength
  <2>2. i \in 1..Len(row)
    BY DEF Filled
  <2> QED BY <2>1, <2>2
<1>4. raw[i] \in FieldOutcomes(l.fields[i], row[i])
  BY <1>1, <1>2, <1>3, HereIs
<1>5. PICK v \in FieldOutcomes(l.fields[i], row[i]) : v = raw[i]
  BY <1>4
<1>6. row[i] \in DOMAIN l.fields[i].type.means \ {""} /\ raw[i] = l.fields[i].type.means[row[i]]
  <2>1. PICK t : t = row[i]
    OBVIOUS
  <2>2. t # "" /\ v # Refuse /\ v \in FieldOutcomes(l.fields[i], t)
    BY <1>2, <1>5, <2>1 DEF Filled
  <2>3. t \in DOMAIN l.fields[i].type.means \ {""} /\ v = l.fields[i].type.means[t]
    BY <2>2 DEF FieldOutcomes
  <2> QED BY <1>5, <2>1, <2>3
<1>7. ReadsBack(c, l, i)
  BY Fits
<1>8. \A t \in DOMAIN l.fields[i].type.means \ {""} :
        l.fields[i].type.means[t] # "" /\ l.fields[i].type.says[l.fields[i].type.means[t]] # ""
  BY <1>7 DEF ReadsBack
<1> QED BY <1>6, <1>8

\* A list without holes that is read entry by entry has no gap.
LEMMA NoGap ==
  ASSUME NEW c, NEW l, WellFormed(c, l), NEW o, NEW i \in 1..Len(l.fields), i > l.head,
         NEW e, e = EntryOf(l, i), \A d \in 1..e : d \in Entries(l, o)
  PROVE  i <= InUse(l, o) /\ ClosedUp(l, o)[i] = o[i]
<1> DEFINE S == Entries(l, o)
<1>1. e \in Nat \ {0} /\ e \in 1..Most(l) /\ Most(l) \in Nat
  BY MostIs
<1>2. S \in SUBSET Nat /\ \A d \in S : 1 <= d /\ d <= Most(l)
  BY EntriesAre
<1> HIDE DEF S
<1>3. e \in S
  <2>1. e \in 1..e
    BY <1>1
  <2> QED BY <2>1 DEF S
<1>4. {d \in S : d <= e} = 1..e
  <2>1. \A d \in S : d <= e => d \in 1..e
    BY <1>1, <1>2
  <2>2. \A d \in 1..e : d \in S /\ d <= e
    BY <1>1 DEF S
  <2> QED BY <2>1, <2>2
<1>5. Rank(S, e) = e
  <2>1. Cardinality(1..e) = e
    BY <1>1, FS_Interval
  <2> QED BY <1>4, <2>1 DEF Rank
<1>6. e \in 1..Cardinality(S) /\ Nth(S, e) = e
  BY <1>1, <1>2, <1>3, <1>5, NthOne, ZenonT(40)
<1>7. i <= InUse(l, o)
  <2>1. e <= Cardinality(S)
    BY <1>1, <1>6
  <2> QED BY <2>1, EntryHere DEF S
<1>8. ~(i <= l.head)
  BY InList
<1>9. Source(l, o, i) = i
  <2>1. Source(l, o, i) = FirstOf(l, i) + (i - FirstOf(l, i))
    BY <1>6, <1>8 DEF Source, FirstOf, S
  <2>2. i \in Int /\ FirstOf(l, i) \in Int
    BY FirstHere, Dims
  <2>3. FirstOf(l, i) + (i - FirstOf(l, i)) = i
    BY <2>2
  <2> QED BY <2>1, <2>3
<1>10. i \in DOMAIN l.fields
  BY Dims
<1> QED BY <1>7, <1>9, <1>10 DEF ClosedUp

\* The place of a name among those that are not empty.
EmptyBefore(row, h, i) == Cardinality({k \in (h + 1)..(i - 1) : row[k] = ""})
PlaceIn(l, row, i) == IF l.append THEN i - EmptyBefore(row, l.head, i) ELSE i

FilledAs(S, row, h, e) == \A d \in 1..e : d \in S <=> row[h + d] # ""

\* Counting those that are not empty from the front or the empty ones off is the same.
LEMMA PlaceIs ==
  ASSUME NEW h \in Nat, NEW m \in Nat, NEW S \in SUBSET Nat, \A d \in S : 1 <= d /\ d <= m,
         NEW e \in S, NEW row, FilledAs(S, row, h, e)
  PROVE  (h + e) - EmptyBefore(row, h, h + e) = h + Rank(S, e)
<1> DEFINE Z == {k \in (h + 1)..(h + e - 1) : row[k] = ""}
           D == {d \in 1..e : d \notin S}
           R == {d \in S : d <= e}
<1>1. e \in Nat /\ 1 <= e
  OBVIOUS
<1>2. IsFiniteSet(1..e) /\ Cardinality(1..e) = e
  BY <1>1, FS_Interval
<1>3. R = (1..e) \ D
  <2>1. ASSUME NEW d \in R PROVE d \in (1..e) \ D
    BY <1>1
  <2>2. ASSUME NEW d \in (1..e) \ D PROVE d \in R
    BY <1>1
  <2> QED BY <2>1, <2>2
<1>4. D \subseteq 1..e /\ IsFiniteSet(D)
  <2>1. D \subseteq 1..e
    OBVIOUS
  <2> QED BY <1>2, <2>1, FS_Subset
<1>5. ExistsBijection(D, Z)
  <2> DEFINE f == [d \in D |-> h + d]
  <2>1. ASSUME NEW d \in D PROVE f[d] \in Z
    <3>1. d \in 1..e /\ d \notin S /\ d # e
      OBVIOUS
    <3>2. row[h + d] = ""
      BY <3>1 DEF FilledAs
    <3>3. h + d \in (h + 1)..(h + e - 1)
      BY <1>1, <3>1
    <3> QED BY <3>2, <3>3
  <2>2. ASSUME NEW k \in Z PROVE \E d \in D : f[d] = k
    <3>1. k \in (h + 1)..(h + e - 1) /\ row[k] = ""
      OBVIOUS
    <3>2. k - h \in 1..e /\ h + (k - h) = k
      <4>1. k \in (h + 1)..(h + e - 1)
        OBVIOUS
      <4> HIDE DEF Z
      <4> QED BY <1>1, <4>1
    <3>3. PICK d \in 1..e : h + d = k
      BY <3>2
    <3>4. d \in D
      BY <3>1, <3>3 DEF FilledAs
    <3> QED BY <3>3, <3>4
  <2>3. ASSUME NEW a \in D, NEW b \in D, f[a] = f[b] PROVE a = b
    <3>1. h + a = h + b /\ a \in Nat /\ b \in Nat
      BY <2>3
    <3> QED BY <3>1
  <2> HIDE DEF D, Z
  <2>4. f \in [D -> Z]
    BY <2>1
  <2>5. f \in Bijection(D, Z)
    BY <2>2, <2>3, <2>4 DEF Bijection, Injection, Surjection, IsInjective
  <2> QED BY <2>5 DEF ExistsBijection
<1> HIDE DEF D, Z, R
<1>6. Cardinality(Z) = Cardinality(D) /\ Cardinality(D) \in Nat
  BY <1>4, <1>5, FS_Bijection, FS_CardinalityType
<1>7. Cardinality(R) = e - Cardinality(D)
  <2>1. PICK T : T = 1..e
    OBVIOUS
  <2>2. T \cap D = D /\ IsFiniteSet(T) /\ Cardinality(T) = e
    BY <1>2, <1>4, <2>1
  <2>3. Cardinality(T \ D) = Cardinality(T) - Cardinality(T \cap D)
    BY <2>2, FS_Difference
  <2> QED BY <1>3, <2>1, <2>2, <2>3
<1>8. Rank(S, e) = Cardinality(R)
  BY DEF Rank, R
<1>9. (h + e) - Cardinality(Z) = h + Rank(S, e)
  BY <1>1, <1>6, <1>7, <1>8
<1>10. EmptyBefore(row, h, h + e) = Cardinality(Z)
  BY DEF EmptyBefore, Z
<1> QED BY <1>9, <1>10

MissedIn(c, l, row, o, i) ==
    \/ c \in {"GSV", "TTM"} /\ i > Len(o)
    \/ /\ i <= Len(o)
       /\ \/ l.fields[i].part = "unread"
          \/ l.skips /\ ~Present(l, o, i)
          \/ l.fields[i].part = "unit" /\ o[i - 1] = ""
          \/ /\ l.fields[i].part = "joint"
             /\ \E j \in Group(l, Leader(l, i)) : row[j] = ""
KeptAt(l, o, k) == k \in DOMAIN Written(l, o) /\ Written(l, o)[k] # ""

\* What is shown of a field is written, if it is within the line.
LEMMA ShownWritten ==
  ASSUME NEW c, NEW l, WellFormed(c, l), NEW o, NEW sh, sh = Shown(l, o), NEW k \in 1..Length(l, o),
         l.fields[k].part \notin {"unit", "unread"}, sh[k] # "", l.fields[k].type.says[sh[k]] # ""
  PROVE  KeptAt(l, o, k)
<1>1. PICK w : w = Written(l, o)
  OBVIOUS
<1>2. DOMAIN w = 1..Length(l, o) /\ w[k] = FieldText(l, sh, k)
  BY <1>1, WrittenIs
<1>3. FieldText(l, sh, k) = l.fields[k].type.says[sh[k]]
  BY DEF FieldText
<1> QED BY <1>1, <1>2, <1>3 DEF KeptAt

\* A field of the head stands where it stood.
LEMMA HeadPlace ==
  ASSUME NEW c, NEW l, WellFormed(c, l), NEW row, NEW i \in 1..Len(l.fields), i <= l.head
  PROVE  PlaceIn(l, row, i) = i
<1>1. l.head \in Nat /\ Len(l.fields) \in Nat
  BY Dims
<1>2. i \in Nat /\ i <= l.head
  BY <1>1
<1>3. ~(i > l.head) /\ (l.head + 1)..(i - 1) = {}
  BY <1>1, <1>2
<1>4. {k \in (l.head + 1)..(i - 1) : row[k] = ""} = {}
  BY <1>3
<1>5. Cardinality({}) = 0
  BY FS_EmptySet
<1>6. i - 0 = i
  BY <1>2
<1> QED BY <1>4, <1>5, <1>6 DEF PlaceIn, EmptyBefore

UnitSet(l, o, i) == l.fields[i].part = "unit" /\ o[i - 1] # ""

\* A unit is written with its value.
LEMMA UnitKept ==
  ASSUME NEW c, NEW l, WellFormed(c, l), NEW o, Sound(c, l, o), NEW i \in 1..Len(l.fields),
         UnitSet(l, o, i)
  PROVE  KeptAt(l, o, i)
<1> DEFINE n == Len(l.fields)
<1>1. PICK w : w = Written(l, o)
  OBVIOUS
<1>2. PICK sh : sh = Shown(l, o)
  OBVIOUS
<1>3. n \in Nat /\ l.head \in Nat /\ l.head <= Length(l, o) /\ Length(l, o) \in Nat
  BY WrittenIs, Dims
<1>0. l.fields[i].part = "unit"
  BY DEF UnitSet
<1>4. i <= l.head
  BY <1>0, PartFacts
<1>5. PartsFit(l, i)
  BY Fits
<1>6. i > 1
  BY <1>0, <1>5 DEF PartsFit
<1>7. l.fields[i].type.says[""] # ""
  BY <1>0, <1>5 DEF PartsFit
<1>8. PICK k \in 1..n : k = i - 1
  BY <1>3, <1>6
<1>9. k <= l.head /\ i \in 1..Length(l, o)
  BY <1>3, <1>4, <1>8
<1>10. sh[k] = o[k]
  <2>1. SameHead(l, o, sh)
    BY <1>2, ShownIs
  <2> QED BY <1>9, <2>1 DEF SameHead
<1>11. FieldText(l, sh, i) = l.fields[i].type.says[""]
  BY <1>0, <1>8, <1>10 DEF FieldText, UnitSet
<1>12. DOMAIN w = 1..Length(l, o) /\ w[i] = FieldText(l, sh, i)
  BY <1>1, <1>2, <1>9, WrittenIs
<1> QED BY <1>1, <1>7, <1>9, <1>11, <1>12 DEF KeptAt

\* An entry that is read has its first field.
LEMMA FirstRead ==
  ASSUME NEW c, NEW l, WellFormed(c, l), ~l.append, ~l.skips, NEW row, Takes(l, Len(row)),
         NEW raw, Raw(l, row, raw), Accepted(l, raw), NEW k \in 1..Len(l.fields), k > l.head,
         FirstOf(l, k) = k, k \in 1..Len(row)
  PROVE  raw[k] # ""
<1> DEFINE f == l.fields[k]
<1>1. EntriesFit(l, k)
  BY Fits
<1>2. f.with = 0
  <2>1. FirstOf(l, k) = k - f.with
    BY PartFacts
  <2>2. f.with \in 0..(k - 1)
    BY LeaderIs
  <2>3. ASSUME NEW w \in 0..(k - 1), k = k - w PROVE w = 0
    <3>1. k \in Nat
      BY Dims
    <3> QED BY <2>3, <3>1
  <2> QED BY <2>1, <2>2, <2>3
<1>3. "" \notin FieldOutcomes(f, "") /\ \A t \in DOMAIN f.type.means : f.type.means[t] # ""
  BY <1>1, <1>2 DEF EntriesFit
<1>4. ~(k > Len(row))
  <2>1. Len(row) \in Nat
    BY LineLength
  <2> QED BY <2>1
<1>5. raw[k] \in Here(l, row, k) /\ raw[k] # Refuse
  BY DEF Raw, Accepted
<1>6. raw[k] \in FieldOutcomes(f, row[k])
  BY <1>4, <1>5, HereIs
<1>7. CASE row[k] = ""
  BY <1>3, <1>6, <1>7
<1>8. CASE row[k] # ""
  <2>1. f.part # "unread"
    BY PartFacts
  <2> QED BY <1>3, <1>5, <1>6, <1>8, <2>1 DEF FieldOutcomes
<1> QED BY <1>7, <1>8

\* Of the constructors that keep the places a text comes back where it was.
LEMMA KeptInPlace ==
  ASSUME NEW c, NEW l, WellFormed(c, l), ~l.append, NEW row, Takes(l, Len(row)),
         NEW raw, Raw(l, row, raw), Accepted(l, raw), NEW o, o = Made(l, raw), Sound(c, l, o), Len(o) = Len(l.fields),
         NEW i \in 1..Len(l.fields), Filled(row, i), l.fields[i].part \notin {"unit", "unread"}
  PROVE  KeptAt(l, o, i) \/ MissedIn(c, l, row, o, i)
<1> DEFINE n == Len(l.fields)
           f == l.fields[i]
<1>1. n \in Nat /\ l.head \in Nat /\ Len(row) \in Nat /\ Length(l, o) \in Nat /\ l.head <= Length(l, o) /\ Length(l, o) <= n
  BY Dims, LineLength, WrittenIs
<1>2. \A k \in 1..n : MadeOf(l, raw, o, k)
  <2>1. PICK q : q = Corrected(l, raw)
    OBVIOUS
  <2>2. o = Completed(l, q)
    BY <2>1 DEF Made
  <2> QED BY <2>1, <2>2, MadeIs
<1>3. \A k \in 1..n : k > l.head => o[k] = raw[k]
  <2>1. SUFFICES ASSUME NEW k \in 1..n, k > l.head PROVE o[k] = raw[k]
    OBVIOUS
  <2>2. l.fields[k].part # "joint" /\ ~SignFollows(l, k)
    BY <2>1, InList, PartFacts
  <2> QED BY <1>2, <2>2 DEF MadeOf, Turned
<1>4. i <= Len(o)
  <2>1. i <= n
    BY <1>1
  <2> QED BY <2>1
<1>5. ASSUME l.skips, i > l.head, row[FirstOf(l, i)] = "" PROVE MissedIn(c, l, row, o, i)
  <2>1. PICK k \in 1..n : k = FirstOf(l, i) /\ k > l.head /\ FirstOf(l, k) = k /\ k <= i
    BY <1>5, FirstHere
  <2>2. k <= Len(row)
    <3>1. i \in 1..Len(row)
      BY DEF Filled
    <3> QED BY <1>1, <2>1, <3>1
  <2>3. raw[k] \in Here(l, row, k)
    BY DEF Raw
  <2>4. raw[k] = ""
    <3>1. ~(k > Len(row))
      BY <1>1, <2>2
    <3>2. Here(l, row, k) = {""}
      BY <1>5, <2>1, <2>2, <3>1 DEF Here
    <3> QED BY <2>3, <3>2
  <2>5. o[FirstOf(l, i)] = ""
    BY <1>3, <2>1, <2>4
  <2>6. ~Present(l, o, i)
    <3>1. ~(i <= l.head)
      BY <1>5, InList
    <3> QED BY <2>5, <3>1 DEF Present
  <2> QED BY <1>4, <1>5, <2>6 DEF MissedIn
<1>6. ASSUME ~(l.skips /\ i > l.head /\ row[FirstOf(l, i)] = "")
      PROVE  raw[i] # "" /\ f.type.says[raw[i]] # ""
  BY <1>6, TextRead
<1>7. ASSUME ~(l.skips /\ i > l.head /\ row[FirstOf(l, i)] = ""), f.part = "joint", o[i] = ""
      PROVE  MissedIn(c, l, row, o, i)
  <2>1. PICK j \in Group(l, Leader(l, i)) : raw[j] = ""
    <3>1. raw[i] # ""
      BY <1>6, <1>7
    <3> QED BY <1>2, <1>7, <3>1 DEF MadeOf
  <2>2. j \in 1..n /\ l.fields[j].part = "joint"
    <3>1. j \in 1..n
      BY GroupIs
    <3>2. \A k \in Group(l, Leader(l, i)) : l.fields[k].part = "joint"
      BY <1>7, PartFacts, ZenonT(40)
    <3> QED BY <3>1, <3>2
  <2>3. j \in 1..Len(row)
    <3>1. \A k \in l.sizes : j <= k
      BY <2>2, Fits DEF PartsFit
    <3>2. j <= Len(row)
      BY <3>1 DEF Takes
    <3> QED BY <1>1, <2>2, <3>2
  <2>4. j <= l.head
    BY <2>2, PartFacts
  <2>5. row[j] = ""
    <3>1. SUFFICES ASSUME row[j] # "" PROVE FALSE
      OBVIOUS
    <3>2. Filled(row, j)
      BY <2>3, <3>1 DEF Filled
    <3>3. ~(j > l.head)
      BY <1>1, <2>2, <2>4
    <3>4. l.fields[j].part \notin {"unit", "unread"}
      BY <2>2
    <3>5. raw[j] # ""
      BY <2>2, <3>2, <3>3, <3>4, TextRead
    <3> QED BY <2>1, <3>5
  <2> QED BY <1>4, <1>7, <2>1, <2>5 DEF MissedIn
<1>8. ASSUME ~(l.skips /\ i > l.head /\ row[FirstOf(l, i)] = ""), ~(f.part = "joint" /\ o[i] = "")
      PROVE  KeptAt(l, o, i)
  <2>1. o[i] # "" /\ f.type.says[o[i]] # ""
    <3>1. raw[i] # "" /\ f.type.says[raw[i]] # ""
      BY <1>6, <1>8
    <3>2. CASE f.part # "joint" /\ Turned(l, raw, i)
      <4>1. f.type.says["1"] # "" /\ f.type.says["-1"] # ""
        BY <3>2, Fits DEF PartsFit, Turned
      <4>2. o[i] = SignOf(l, raw, i)
        BY <1>2, <3>2 DEF MadeOf
      <4> QED BY <4>1, <4>2 DEF SignOf
    <3>3. CASE ~(f.part # "joint" /\ Turned(l, raw, i))
      <4>1. o[i] = raw[i]
        BY <1>2, <1>8, <3>3 DEF MadeOf
      <4> QED BY <3>1, <4>1
    <3> QED BY <3>2, <3>3
  <2>2. PICK sh : sh = Shown(l, o)
    OBVIOUS
  <2>3. CASE i <= l.head
    <3>1. sh[i] = o[i]
      <4>1. SameHead(l, o, sh)
        BY <2>2, ShownIs
      <4> QED BY <2>3, <4>1 DEF SameHead
    <3>2. i \in 1..Length(l, o)
      BY <1>1, <2>3
    <3> QED BY <2>1, <2>2, <3>1, <3>2, ShownWritten
  <2>4. CASE i > l.head /\ l.holes
    <3>1. sh[i] = o[i] /\ i \in 1..Length(l, o)
      BY <2>2, <2>4 DEF Shown, Length
    <3> QED BY <2>1, <2>2, <3>1, ShownWritten
  <2>5. CASE i > l.head /\ ~l.holes
    <3>1. ~l.skips
      BY <2>5, Dims
    <3>2. PICK e : e = EntryOf(l, i)
      OBVIOUS
    <3>3. ASSUME NEW d \in 1..e PROVE d \in Entries(l, o)
      <4>1. e \in 1..Most(l) /\ Most(l) \in Nat /\ l.entry \in {1, 2, 4}
        BY <2>5, <3>2, MostIs, Dims
      <4>2. d \in 1..Most(l)
        BY <4>1
      <4>3. PICK k \in 1..n : k = BeginOf(l, d)
        BY <4>2, MostIs
      <4>4. k > l.head /\ k <= FirstOf(l, i)
        <5>1. FirstOf(l, i) = BeginOf(l, e)
          BY <3>2 DEF FirstOf
        <5>2. d \in Nat /\ e \in Nat /\ 1 <= d /\ d <= e
          BY <4>1
        <5>3. k = l.head + (d - 1) * l.entry + 1 /\ FirstOf(l, i) = l.head + (e - 1) * l.entry + 1
          BY <4>3, <5>1 DEF BeginOf
        <5>4. PICK w : w = l.entry
          OBVIOUS
        <5>5. w \in {1, 2, 4} /\ l.head \in Nat /\ d - 1 \in Nat /\ d - 1 <= e - 1
          BY <1>1, <4>1, <5>2, <5>4
        <5>6. (d - 1) * w \in Nat /\ (d - 1) * w <= (e - 1) * w /\ (e - 1) * w \in Nat
          BY <5>2, <5>5
        <5>7. PICK x \in Nat : x = (d - 1) * w
          BY <5>6
        <5>8. PICK y \in Nat : y = (e - 1) * w
          BY <5>6
        <5>9. x <= y /\ k = l.head + x + 1 /\ FirstOf(l, i) = l.head + y + 1
          BY <5>3, <5>4, <5>6, <5>7, <5>8
        <5> QED BY <5>5, <5>9, SMTT(20)
      <4>5. k \in Nat /\ BeginOf(l, d) <= k /\ k < BeginOf(l, d) + l.entry /\ d \in Nat /\ d >= 1
        BY <4>1, <4>2, <4>3
      <4>6. FirstOf(l, k) = k
        BY <1>1, <4>1, <4>3, <4>5, EntryAt
      <4>7. k \in 1..Len(row)
        <5>1. i \in 1..Len(row)
          BY DEF Filled
        <5>2. FirstOf(l, i) \in 1..n /\ FirstOf(l, i) <= i
          BY <2>5, FirstHere
        <5> QED BY <1>1, <4>4, <5>1, <5>2
      <4>8. raw[k] # ""
        BY <4>4, <4>6, <4>7, <3>1, FirstRead
      <4>9. o[k] # ""
        BY <1>3, <4>4, <4>8
      <4> QED BY <4>2, <4>3, <4>9 DEF Entries
    <3>4. i <= InUse(l, o) /\ ClosedUp(l, o)[i] = o[i]
      BY <2>5, <3>2, <3>3, NoGap
    <3>5. sh[i] = o[i]
      BY <2>2, <2>5, <3>4 DEF Shown
    <3>6. i \in 1..Length(l, o)
      <4>1. i <= Length(l, o)
        BY <2>5, <3>4 DEF Length
      <4> QED BY <1>1, <4>1
    <3> QED BY <2>1, <2>2, <3>5, <3>6, ShownWritten
  <2>6. i <= l.head \/ i > l.head
    BY <1>1
  <2> QED BY <2>3, <2>4, <2>5, <2>6
<1> QED BY <1>5, <1>7, <1>8

\* Of the constructors that append a text comes back after those before it.
LEMMA KeptAppended ==
  ASSUME NEW c, NEW l, WellFormed(c, l), l.append, NEW row, Takes(l, Len(row)),
         NEW raw, Raw(l, row, raw), Accepted(l, raw), NEW o, o = Made(l, raw), Sound(c, l, o),
         NEW i \in 1..Len(l.fields), Filled(row, i), l.fields[i].part \notin {"unit", "unread"}
  PROVE  KeptAt(l, o, PlaceIn(l, row, i))
<1> DEFINE n == Len(l.fields)
           S == Entries(l, raw)
           C == Cardinality(S)
           h == l.head
<1>1. n \in Nat /\ h \in Nat /\ Len(row) \in Nat /\ Most(l) \in Nat /\ n = h + Most(l) * l.entry
  BY Dims, LineLength, MostIs
<1>2. l.entry = 1 /\ ~l.holes /\ ~l.skips
  BY Dims
<1>3. o = ClosedUp(l, raw)
  BY DEF Made
<1>4. PICK sh : sh = Shown(l, o)
  OBVIOUS
<1>5. raw[i] # "" /\ l.fields[i].type.says[raw[i]] # ""
  BY <1>2, TextRead
<1>6. i \in 1..Len(row)
  BY DEF Filled
<1>7. Length(l, o) = InUse(l, raw) /\ InUse(l, raw) = h + C * 1
  <2>1. InUse(l, o) = InUse(l, raw)
    <3>1. PICK q : q = ClosedUp(l, raw)
      OBVIOUS
    <3>2. InUse(l, q) = InUse(l, raw)
      BY <3>1, ClosedUse
    <3> QED BY <1>3, <3>1, <3>2
  <2>2. InUse(l, raw) = h + C * 1
    BY <1>2 DEF InUse
  <2> QED BY <1>2, <2>1, <2>2 DEF Length
<1>8. C \in Nat /\ C <= Most(l) /\ S \in SUBSET Nat /\ \A d \in S : 1 <= d /\ d <= Most(l)
  BY EntriesAre
<1>9. CASE i <= l.head
  <2>1. PlaceIn(l, row, i) = i
    BY <1>9, HeadPlace
  <2>2. o[i] = raw[i]
    BY <1>3, <1>9, ClosedHead
  <2>3. sh[i] = o[i]
    <3>1. SameHead(l, o, sh)
      BY <1>4, ShownIs
    <3> QED BY <1>9, <3>1 DEF SameHead
  <2>4. i \in 1..Length(l, o)
    <3> HIDE DEF n, S, C
    <3>1. i \in 1..n /\ i <= h
      BY <1>9 DEF n
    <3> HIDE DEF h
    <3> QED BY <1>1, <1>7, <1>8, <3>1
  <2> QED BY <1>4, <1>5, <2>1, <2>2, <2>3, <2>4, ShownWritten
<1>10. CASE i > l.head
  <2>1. PICK e : e = EntryOf(l, i)
    OBVIOUS
  <2>2. FirstOf(l, i) = i /\ e = i - h
    BY <1>2, <1>10, <2>1, Single
  <2>3. e \in S
    BY <1>5, <1>10, <2>1, <2>2, EntryHere
  <2>4. e \in 1..Most(l) /\ i = h + e /\ i \in Nat
    <3>1. e \in 1..Most(l)
      BY <1>10, <2>1, MostIs
    <3>2. i \in 1..n
      OBVIOUS
    <3> HIDE DEF h, n
    <3> QED BY <1>1, <2>2, <3>1, <3>2
  <2>5. FilledAs(S, row, h, e)
    <3>1. SUFFICES ASSUME NEW d \in 1..e PROVE d \in S <=> row[h + d] # ""
      BY DEF FilledAs
    <3>2. d \in 1..Most(l) /\ d \in Nat /\ d <= e
      BY <1>1, <2>4
    <3>3. BeginOf(l, d) = h + d
      <4>1. h + (d - 1) * 1 + 1 = h + d
        BY <1>1, <3>2
      <4> QED BY <1>2, <4>1 DEF BeginOf
    <3>4. PICK k \in 1..n : k = BeginOf(l, d)
      BY <3>2, MostIs
    <3>5. k > l.head /\ k \in 1..Len(row)
      BY <1>1, <1>6, <2>4, <3>2, <3>3, <3>4
    <3>6. d \in S <=> raw[k] # ""
      BY <3>2, <3>4 DEF Entries
    <3>7. row[k] = "" => raw[k] = ""
      <4>1. SUFFICES ASSUME row[k] = "" PROVE raw[k] = ""
        OBVIOUS
      <4>2. ~(k > Len(row))
        BY <1>1, <3>5
      <4>3. raw[k] \in Here(l, row, k)
        BY DEF Raw
      <4>4. raw[k] \in FieldOutcomes(l.fields[k], "")
        BY <1>2, <4>1, <4>2, <4>3, HereIs
      <4>5. EntriesFit(l, k)
        BY Fits
      <4>6. FieldOutcomes(l.fields[k], "") = {""}
        BY <3>5, <4>5 DEF EntriesFit
      <4> QED BY <4>4, <4>6
    <3>8. row[k] # "" => raw[k] # ""
      <4>1. SUFFICES ASSUME row[k] # "" PROVE raw[k] # ""
        OBVIOUS
      <4>2. Filled(row, k)
        BY <3>5, <4>1 DEF Filled
      <4>3. l.fields[k].part = "member"
        BY <3>5, PartFacts
      <4>4. l.fields[k].part \notin {"unit", "unread"}
        BY <4>3
      <4> QED BY <1>2, <4>2, <4>4, TextRead
    <3> QED BY <3>3, <3>4, <3>6, <3>7, <3>8
  <2>6. PICK r : r = Rank(S, e)
    OBVIOUS
  <2> HIDE DEF S
  <2>7. r \in 1..C /\ Nth(S, r) = e
    BY <1>1, <1>8, <2>3, <2>6, NthOne
  <2>8. (h + e) - EmptyBefore(row, h, h + e) = h + r
    <3>1. PICK m \in Nat : m = Most(l)
      BY <1>1
    <3>2. \A d \in S : 1 <= d /\ d <= m
      BY <1>8, <3>1
    <3> HIDE DEF h, n
    <3>3. PICK T : T = S
      OBVIOUS
    <3>4. T \in SUBSET Nat /\ (\A d \in T : 1 <= d /\ d <= m) /\ h \in Nat
      BY <1>1, <1>8, <3>2, <3>3
    <3>5. e \in T /\ FilledAs(T, row, h, e)
      BY <2>3, <2>5, <3>3
    <3>6. (h + e) - EmptyBefore(row, h, h + e) = h + Rank(T, e)
      BY <3>4, <3>5, PlaceIs, ZenonT(40)
    <3> QED BY <2>6, <3>3, <3>6
  <2> HIDE DEF C
  <2>9. PlaceIn(l, row, i) = h + r
    BY <2>4, <2>8 DEF PlaceIn
  <2>10. PICK p : p = h + r
    OBVIOUS
  <2>11. p \in 1..n /\ p > l.head /\ p \in 1..Length(l, o) /\ p <= InUse(l, raw) /\ p \in Nat /\ p - h = r
    BY <1>1, <1>2, <1>7, <1>8, <2>7, <2>10, SMTT(20)
  <2>12. FirstOf(l, p) = p /\ EntryOf(l, p) = p - h
    BY <1>2, <2>11, Single
  <2>13. Source(l, raw, p) = i
    <3>1. ~(p <= l.head)
      BY <2>11, InList
    <3>2. Source(l, raw, p) = BeginOf(l, e) + (p - p)
      BY <2>7, <2>11, <2>12, <3>1 DEF Source, S
    <3>3. BeginOf(l, e) = i
      BY <2>1, <2>2 DEF FirstOf
    <3>4. i + (p - p) = i
      BY <2>4, <2>11
    <3> QED BY <3>2, <3>3, <3>4
  <2>14. o[p] = raw[i]
    <3>1. p \in DOMAIN l.fields
      BY <2>11, Dims
    <3> QED BY <1>3, <2>11, <2>13, <3>1 DEF ClosedUp
  <2>15. sh[p] = o[p]
    <3>1. sh = ClosedUp(l, o)
      BY <1>2, <1>4 DEF Shown
    <3> QED BY <1>3, <2>11, <3>1, ClosedTwice
  <2>16. o[p] # "" /\ l.fields[p].type.says[o[p]] # "" /\ l.fields[p].part = "member"
    <3>1. HoldsHere(l, o, p) /\ EntriesFit(l, p)
      BY <2>11, Fits DEF Sound, SoundHere, ValidHere
    <3>2. o[p] # ""
      BY <1>5, <2>14
    <3>3. l.fields[p] = l.fields[i]
      <4>1. p \in (l.head + 1)..n /\ p - FirstOf(l, p) = i - FirstOf(l, i)
        BY <1>1, <2>2, <2>4, <2>11, <2>12
      <4>2. EntriesFit(l, i) /\ i > l.head
        BY <1>10, Fits
      <4>3. \A j \in (l.head + 1)..n : i - FirstOf(l, i) = j - FirstOf(l, j) => l.fields[j] = l.fields[i]
        BY <4>2, Zenon DEF EntriesFit
      <4> QED BY <4>1, <4>3
    <3>4. l.fields[i].type.says[raw[i]] # ""
      BY <1>2, TextRead
    <3> QED BY <2>11, <2>14, <3>1, <3>2, <3>3, <3>4 DEF EntriesFit
  <2>17. l.fields[p].part \notin {"unit", "unread"}
    BY <2>16
  <2>18. KeptAt(l, o, p)
    BY <1>4, <2>11, <2>15, <2>16, <2>17, ShownWritten
  <2> QED BY <2>9, <2>10, <2>18
<1>11. i <= l.head \/ i > l.head
  <2>1. i \in Nat
    BY <1>1
  <2> QED BY <1>1, <2>1
<1> QED BY <1>9, <1>10, <1>11

\* What is read is kept in its place, but for what the code leaves out.
LEMMA KeptIs ==
  ASSUME NEW c, NEW l, WellFormed(c, l), NEW row, NEW o \in Outcomes(l, row), o # NoObject,
         NEW i, Filled(row, i)
  PROVE  KeptAt(l, o, PlaceIn(l, row, i)) \/ MissedIn(c, l, row, o, i)
<1> DEFINE n == Len(l.fields)
<1>1. MadeFrom(l, row, o)
  BY OutcomesAre
<1>2. Takes(l, Len(row)) /\ \E raw : Raw(l, row, raw) /\ Accepted(l, raw) /\ o = Made(l, raw)
  BY <1>1 DEF MadeFrom
<1>3. PICK raw : Raw(l, row, raw) /\ Accepted(l, raw) /\ o = Made(l, raw)
  BY <1>2
<1>4. Sound(c, l, o)
  BY ReadSound
<1>5. n \in Nat /\ Len(row) \in Nat /\ i \in 1..Len(row)
  BY <1>2, Dims, LineLength DEF Filled
<1>6. Len(o) = n
  <2>1. o = [k \in 1..n |-> o[k]]
    BY <1>4 DEF Sound
  <2> HIDE DEF n
  <2> QED BY <1>5, <2>1
<1>7. CASE i > n
  <2>1. c \in {"GSV", "TTM"}
    <3>1. ~(Len(row) <= n)
      BY <1>5, <1>7
    <3> QED BY <1>2, <3>1, LineLength
  <2> QED BY <1>6, <1>7, <2>1 DEF MissedIn
<1>8. CASE i \in 1..n
  <2>1. i <= Len(o)
    BY <1>6, <1>8
  <2>2. CASE l.fields[i].part = "unread"
    BY <2>1, <2>2 DEF MissedIn
  <2>3. CASE l.fields[i].part = "unit"
    <3>1. CASE o[i - 1] = ""
      BY <2>1, <2>3, <3>1 DEF MissedIn
    <3>2. CASE o[i - 1] # ""
      <4>1. UnitSet(l, o, i)
        BY <2>3, <3>2 DEF UnitSet
      <4>2. KeptAt(l, o, i)
        BY <1>4, <1>8, <4>1, UnitKept
      <4>3. PlaceIn(l, row, i) = i
        <5>1. i <= l.head
          BY <1>8, <2>3, PartFacts
        <5> QED BY <1>8, <5>1, HeadPlace
      <4> QED BY <4>2, <4>3
    <3> QED BY <3>1, <3>2
  <2>4. CASE l.fields[i].part \notin {"unit", "unread"}
    <3>1. CASE l.append
      BY <1>2, <1>3, <1>4, <1>8, <2>4, <3>1, KeptAppended
    <3>2. CASE ~l.append
      <4>1. PlaceIn(l, row, i) = i
        BY <3>2 DEF PlaceIn
      <4> QED BY <1>2, <1>3, <1>4, <1>6, <1>8, <2>4, <3>2, <4>1, KeptInPlace
    <3> QED BY <3>1, <3>2
  <2>5. l.fields[i].part \notin {"unit", "unread"} \/ l.fields[i].part = "unit" \/ l.fields[i].part = "unread"
    OBVIOUS
  <2> QED BY <2>2, <2>3, <2>4, <2>5
<1>9. i > n \/ i \in 1..n
  BY <1>5
<1> QED BY <1>7, <1>8, <1>9

-----------------------------------------------------------------------------
(***************************************************************************)
(* Tag blocks: what the members hold, and which fields a constructor reads.*)
(***************************************************************************)
Says(k) ==
    IF k = 1 THEN {"0", "1-2-3"}
    ELSE IF k > 4 THEN {"", "a", "b", "15", "a,s:b", "a*b"} ELSE {"0", "1"}
Unset(k) == IF k > 4 THEN "" ELSE "0"
Blocks == {o \in [1..7 -> UNION {Says(k) : k \in 1..7}] : \A k \in 1..7 : o[k] \in Says(k)}
Results == Blocks \cup {NoObject}
BlockFields ==
    {f \in STRING \X STRING :
        f[1] = "*" \/ f[2] = "" \/ \A k \in 1..7 : Keys[k] = f[1] => f[2] \in DOMAIN Kept(k)}

\* What each of the members says, and what it says if it is not set.
LEMMA SaysAre ==
  ASSUME NEW k \in 1..7
  PROVE  \/ k = 1 /\ Says(k) = {"0", "1-2-3"} /\ Unset(k) = "0"
         \/ (k = 2 \/ k = 3 \/ k = 4) /\ Says(k) = {"0", "1"} /\ Unset(k) = "0"
         \/ (k = 5 \/ k = 6 \/ k = 7) /\ Says(k) = {"", "a", "b", "15", "a,s:b", "a*b"} /\ Unset(k) = ""
<1>1. \/ k = 1 /\ ~(k > 4)
      \/ (k = 2 \/ k = 3 \/ k = 4) /\ ~(k > 4) /\ k # 1
      \/ (k = 5 \/ k = 6 \/ k = 7) /\ k > 4 /\ k # 1
  OBVIOUS
<1>2. CASE k = 1 /\ ~(k > 4)
  BY <1>2, Zenon DEF Says, Unset
<1>3. CASE (k = 2 \/ k = 3 \/ k = 4) /\ ~(k > 4) /\ k # 1
  BY <1>3, Zenon DEF Says, Unset
<1>4. CASE (k = 5 \/ k = 6 \/ k = 7) /\ k > 4 /\ k # 1
  BY <1>4, Zenon DEF Says, Unset
<1> QED BY <1>1, <1>2, <1>3, <1>4

\* The members of a tag block and their layout.
LEMMA BlockLayout ==
  /\ DOMAIN TagBlock.fields = 1..7 /\ Len(TagBlock.fields) = 7
  /\ TagBlock.least = 0 /\ TagBlock.calls = {} /\ TagBlock.sizes = {}
  /\ TagBlock.holes = FALSE /\ TagBlock.append = FALSE
  /\ \A k \in 1..7 :
       /\ TagBlock.fields[k].part = "member" /\ TagBlock.fields[k].with = 0
       /\ TagBlock.fields[k].args = {} /\ DOMAIN TagBlock.fields[k].type.says = Says(k)
       /\ Initial(TagBlock)[k] = Unset(k)
  /\ Initial(TagBlock) \in Blocks
<1>1. /\ DOMAIN Members = 1..7 /\ Len(Members) = 7
      /\ \A k \in 1..7 :
           /\ Members[k].part = "member" /\ Members[k].with = 0
           /\ Members[k].args = {} /\ DOMAIN Members[k].type.says = Says(k)
           /\ Members[k].fresh = Unset(k)
  <2> DEFINE M(S, v) == Args({}, Member(Type(S, {}), v))
             texts == {"", "a", "b", "15", "a,s:b", "a*b"}
  <2>1. ASSUME NEW S, NEW v
        PROVE  /\ M(S, v).part = "member" /\ M(S, v).with = 0 /\ M(S, v).args = {}
               /\ DOMAIN M(S, v).type.says = S /\ M(S, v).fresh = v
    BY DEF Args, Member, Type
  <2>2. Members = <<M({"0", "1-2-3"}, "0"), M({"0", "1"}, "0"), M({"0", "1"}, "0"), M({"0", "1"}, "0"),
                    M(texts, ""), M(texts, ""), M(texts, "")>>
    BY DEF Members
  <2> HIDE DEF M, texts
  <2>3. DOMAIN Members = 1..7 /\ Len(Members) = 7
    <3>1. \E a, b, d, e, f, g, h : Members = <<a, b, d, e, f, g, h>>
      BY <2>2
    <3> QED BY <3>1
  <2>4. /\ Members[1] = M({"0", "1-2-3"}, "0") /\ Members[2] = M({"0", "1"}, "0")
        /\ Members[3] = M({"0", "1"}, "0") /\ Members[4] = M({"0", "1"}, "0")
        /\ Members[5] = M(texts, "") /\ Members[6] = M(texts, "") /\ Members[7] = M(texts, "")
    BY <2>2
  <2>5. ASSUME NEW k \in 1..7 PROVE Members[k] = M(Says(k), Unset(k))
    BY <2>4, SaysAre DEF texts
  <2> QED BY <2>1, <2>3, <2>5
<1>2. /\ TagBlock.fields = Members
      /\ TagBlock.least = 0 /\ TagBlock.calls = {} /\ TagBlock.sizes = {}
      /\ TagBlock.holes = FALSE /\ TagBlock.append = FALSE
  BY DEF TagBlock, Layout
<1>3. /\ DOMAIN Initial(TagBlock) = 1..7
      /\ \A k \in 1..7 : Initial(TagBlock)[k] = Unset(k)
  BY <1>1, <1>2 DEF Initial
<1>4. Initial(TagBlock) \in Blocks
  <2>1. Initial(TagBlock) = [k \in 1..7 |-> Initial(TagBlock)[k]]
    BY <1>2, <1>1 DEF Initial
  <2>2. ASSUME NEW k \in 1..7 PROVE Initial(TagBlock)[k] \in Says(k)
    <3>1. Unset(k) \in Says(k)
      BY SaysAre
    <3> QED BY <1>3, <3>1
  <2> QED BY <2>1, <2>2 DEF Blocks
<1> QED BY <1>1, <1>2, <1>3, <1>4

\* The number of a key.
LEMMA KeysAre ==
  /\ Len(Keys) = 7
  /\ \A k \in 1..7, j \in 1..7 : Keys[k] = Keys[j] => k = j
  /\ \A k \in 1..7 : Keys[k] # "*" /\ Keys[k] # ""
  /\ Keys[6] = "s"
<1>1. /\ Len(Keys) = 7
      /\ Keys[1] = "g" /\ Keys[2] = "n" /\ Keys[3] = "r" /\ Keys[4] = "c" /\ Keys[5] = "d" /\ Keys[6] = "s"
      /\ Keys[7] = "t"
  BY DEF Keys
<1>2. \A k \in 1..7 : k = 1 \/ k = 2 \/ k = 3 \/ k = 4 \/ k = 5 \/ k = 6 \/ k = 7
  OBVIOUS
<1>3. ASSUME NEW k \in 1..7 PROVE Keys[k] # "*" /\ Keys[k] # ""
  <2>1. \/ k = 1 \/ k = 2 \/ k = 3 \/ k = 4 \/ k = 5 \/ k = 6 \/ k = 7
    OBVIOUS
  <2>2. Keys[k] \in {"g", "n", "r", "c", "d", "s", "t"}
    BY <1>1, <2>1
  <2> QED BY <2>2
<1>4. ASSUME NEW k \in 1..7, NEW j \in 1..7, Keys[k] = Keys[j] PROVE k = j
  BY <1>1, <1>2, <1>4
<1> QED BY <1>1, <1>3, <1>4

\* A key belongs to one member at most.
LEMMA IndexIs ==
  ASSUME NEW key
  PROVE  /\ \A k \in 1..7 : Keys[k] = key => IndexOf(key) = k
         /\ IndexOf(key) # 0 => IndexOf(key) \in 1..7 /\ Keys[IndexOf(key)] = key
<1> DEFINE I == {k \in 1..7 : Keys[k] = key}
<1>1. IndexOf(key) = IF I # {} THEN Min(I) ELSE 0
  BY KeysAre DEF IndexOf, SelectInSeq
<1>2. ASSUME NEW k \in 1..7, Keys[k] = key PROVE IndexOf(key) = k
  <2>1. I = {k}
    BY <1>2, KeysAre
  <2>2. Min({k}) = k
    BY DEF Min
  <2> QED BY <1>1, <2>1, <2>2
<1>3. ASSUME IndexOf(key) # 0 PROVE IndexOf(key) \in 1..7 /\ Keys[IndexOf(key)] = key
  <2>1. PICK k \in 1..7 : Keys[k] = key
    BY <1>1, <1>3
  <2> QED BY <1>2, <2>1
<1> QED BY <1>2, <1>3

\* What a text of a field becomes.
LEMMA KeptIn ==
  ASSUME NEW k \in 1..7, NEW t \in DOMAIN Kept(k)
  PROVE  /\ Kept(k)[t] = Refuse \/ Kept(k)[t] \in Says(k)
         /\ t # "0" /\ Kept(k)[t] # Refuse => Valid(k, Kept(k)[t])
<1>1. CASE k = 1
  <2>1. Kept(k) = GroupOf /\ ~IsText(k) /\ Says(k) = {"0", "1-2-3"}
    BY <1>1 DEF Kept, IsText, Says
  <2>2. t = "1-2-3" \/ t = "0" \/ t = "1-2"
    BY <2>1 DEF GroupOf
  <2>3. GroupOf["1-2-3"] = "1-2-3" /\ GroupOf["0"] = "0" /\ GroupOf["1-2"] = Refuse
    BY DEF GroupOf
  <2>4. Kept(k)[t] = Refuse \/ Kept(k)[t] = "0" \/ Kept(k)[t] = "1-2-3"
    BY <2>1, <2>2, <2>3
  <2>5. t # "0" /\ Kept(k)[t] # Refuse => Kept(k)[t] = "1-2-3"
    BY <2>1, <2>2, <2>3
  <2>6. Kept(k)[t] # "0" => Valid(k, Kept(k)[t])
    BY <2>1 DEF Valid
  <2> QED BY <2>1, <2>4, <2>5, <2>6
<1>2. CASE k > 4
  <2>1. k # 1 /\ IsText(k)
    BY <1>2 DEF IsText
  <2>2. Kept(k) = TextOf /\ Says(k) = {"", "a", "b", "15", "a,s:b", "a*b"}
    BY <1>2, <2>1 DEF Kept, Says
  <2>3. t = "a" \/ t = "b" \/ t = "long" \/ t = "15"
    BY <2>2 DEF TextOf
  <2>4. TextOf["a"] = "a" /\ TextOf["b"] = "b" /\ TextOf["long"] = "15" /\ TextOf["15"] = "15"
    BY DEF TextOf, Cut
  <2>5. Kept(k)[t] = "a" \/ Kept(k)[t] = "b" \/ Kept(k)[t] = "15"
    BY <2>2, <2>3, <2>4
  <2>6. Kept(k)[t] # "" => Valid(k, Kept(k)[t])
    BY <2>1 DEF Valid
  <2> QED BY <2>2, <2>5, <2>6
<1>3. CASE k # 1 /\ ~(k > 4)
  <2>1. ~IsText(k)
    BY <1>3 DEF IsText
  <2>2. Kept(k) = NumberOf /\ Says(k) = {"0", "1"}
    BY <1>3, <2>1 DEF Kept, Says
  <2>3. t = "0" \/ t = "1" \/ t = "1x" \/ t = "x"
    BY <2>2 DEF NumberOf
  <2>4. NumberOf["0"] = "0" /\ NumberOf["1"] = "1" /\ NumberOf["1x"] = "1" /\ NumberOf["x"] = Refuse
    BY DEF NumberOf
  <2>5. Kept(k)[t] = Refuse \/ Kept(k)[t] = "0" \/ Kept(k)[t] = "1"
    BY <2>2, <2>3, <2>4
  <2>6. t # "0" /\ Kept(k)[t] # Refuse => Kept(k)[t] = "1"
    BY <2>2, <2>3, <2>4
  <2>7. Kept(k)[t] # "0" => Valid(k, Kept(k)[t])
    BY <2>1 DEF Valid
  <2> QED BY <2>2, <2>5, <2>6, <2>7
<1> QED BY <1>1, <1>2, <1>3

\* A block has members.
LEMMA SomeBlock ==
  ASSUME NEW o \in Blocks
  PROVE  o # NoObject /\ DOMAIN o = 1..7 /\ o = [k \in 1..7 |-> o[k]]
<1>1. DOMAIN o = 1..7 /\ 1 \in DOMAIN o /\ o = [k \in 1..7 |-> o[k]]
  BY DEF Blocks
<1>2. DOMAIN NoObject = {}
  BY DEF NoObject
<1> QED BY <1>1, <1>2

\* Reading a field makes another block or none.
LEMMA FieldRead ==
  ASSUME NEW o \in Results, NEW f \in BlockFields
  PROVE  /\ ReadField(o, f) \in Results
         /\ o = NoObject => ReadField(o, f) = NoObject
         /\ f[1] = "*" => ReadField(o, f) = NoObject
         /\ o \in Blocks /\ ReadField(o, f) # NoObject =>
              /\ f[1] # "*"
              /\ f[2] = "" => ReadField(o, f) = o
              /\ f[2] # "" => \E k \in 1..7 :
                   /\ Keys[k] = f[1] /\ f[2] \in DOMAIN Kept(k) /\ Kept(k)[f[2]] # Refuse
                   /\ ReadField(o, f) = [o EXCEPT ![k] = Kept(k)[f[2]]]
<1> DEFINE k == IndexOf(f[1])
           v == Kept(k)[f[2]]
           refused == f[1] = "*" \/ (f[2] # "" /\ (k = 0 \/ v = Refuse))
<1>1. ReadField(o, f) = IF o = NoObject \/ refused THEN NoObject
                        ELSE IF f[2] = "" THEN o ELSE [o EXCEPT ![k] = v]
  BY DEF ReadField
<1>2. CASE o = NoObject \/ refused
  <2>1. ReadField(o, f) = NoObject
    BY <1>1, <1>2
  <2> QED BY <2>1 DEF Results
<1>3. CASE ~(o = NoObject \/ refused) /\ f[2] = ""
  BY <1>1, <1>3
<1>4. CASE ~(o = NoObject \/ refused) /\ f[2] # ""
  <2>1. o \in Blocks
    BY <1>4 DEF Results
  <2>2. ReadField(o, f) = [o EXCEPT ![k] = v]
    BY <1>1, <1>4
  <2>3. k \in 1..7 /\ Keys[k] = f[1] /\ v # Refuse /\ f[1] # "*"
    BY <1>4, IndexIs
  <2>4. f[2] \in DOMAIN Kept(k)
    BY <1>4, <2>3 DEF BlockFields
  <2>5. v \in Says(k)
    BY <2>3, <2>4, KeptIn
  <2> HIDE DEF k, v
  <2>6. [o EXCEPT ![k] = v] \in Blocks
    BY <2>1, <2>3, <2>5 DEF Blocks
  <2> QED BY <1>4, <2>2, <2>3, <2>4, <2>6 DEF Results, v
<1> QED BY <1>2, <1>3, <1>4

\* Reading fields one after the other is a walk over the blocks they make.
ReadsBy(g, s) ==
    /\ g[0] = Initial(TagBlock)
    /\ \A i \in 0..Len(s) : g[i] \in Results
    /\ \A i \in 1..Len(s) : g[i] = ReadField(g[i - 1], s[i])
ReadAll(s) == FoldLeft(ReadField, Initial(TagBlock), s)

\* A tag block is read field by field.
LEMMA ReadSteps ==
  ASSUME NEW s \in Seq(BlockFields)
  PROVE  \E g : ReadsBy(g, s) /\ ReadAll(s) = g[Len(s)]
<1> DEFINE n == Len(s)
           d == Initial(TagBlock)
           T == Results
           h == [x \in T \X (1..n) |-> ReadField(x[1], s[x[2]])]
           f == CHOOSE g : g = [S \in SUBSET (1..n) |->
                                  IF S = {} THEN d ELSE ReadField(g[S \ {Max(S)}], s[Max(S)])]
<1> HIDE DEF n, h, T
<1>1. n \in Nat /\ DOMAIN s = 1..n /\ \A i \in 1..n : s[i] \in BlockFields
  BY LenProperties DEF n
<1>2. d \in T
  BY BlockLayout DEF T, Results
<1>3. ReadAll(s) = f[1..n]
  BY <1>1 DEF ReadAll, FoldLeft, MapThenFoldSet
<1> HIDE DEF d, f
<1>4. ASSUME NEW e \in T, NEW i \in 1..n PROVE ReadField(e, s[i]) \in T
  BY <1>1, <1>4, FieldRead DEF T
<1>5. f = [S \in SUBSET (1..n) |-> IF S = {} THEN d ELSE ReadField(f[S \ {Max(S)}], s[Max(S)])]
  <2>1. h \in [T \X (1..n) -> T]
    BY <1>4 DEF h
  <2>2. \E g : IsFold(g, n, T, d, h)
    BY <1>1, <1>2, <2>1, FoldExists
  <2>3. PICK g : /\ g \in [SUBSET (1..n) -> T]
                 /\ \A S \in SUBSET (1..n) :
                      g[S] = IF S = {} THEN d ELSE h[<<g[S \ {Max(S)}], Max(S)>>]
    BY <2>2 DEF IsFold
  <2>4. ASSUME NEW S \in SUBSET (1..n)
        PROVE  g[S] = IF S = {} THEN d ELSE ReadField(g[S \ {Max(S)}], s[Max(S)])
    <3>1. S # {} => Max(S) \in 1..n /\ g[S \ {Max(S)}] \in T
      BY <1>1, <2>3, MaxOfSome
    <3> QED BY <2>3, <3>1 DEF h
  <2>5. g = [S \in SUBSET (1..n) |-> IF S = {} THEN d ELSE ReadField(g[S \ {Max(S)}], s[Max(S)])]
    <3>1. g = [S \in SUBSET (1..n) |-> g[S]]
      BY <2>3
    <3> QED BY <2>4, <3>1
  <2> QED BY <2>5 DEF f
<1> DEFINE g == [i \in 0..n |-> f[1..i]]
<1>6. g[0] = d
  <2>1. {} \in SUBSET (1..n) /\ 1..0 = {} /\ 0 \in 0..n
    BY <1>1
  <2> QED BY <1>5, <2>1
<1>7. ASSUME NEW i \in 1..n PROVE g[i] = ReadField(g[i - 1], s[i])
  <2>1. (1..i) \in SUBSET (1..n) /\ i \in Nat /\ i > 0 /\ i \in 0..n /\ i - 1 \in 0..n
    BY <1>1
  <2>2. Max(1..i) = i /\ (1..i) \ {i} = 1..(i - 1) /\ 1..i # {}
    BY <2>1, MaxOfFirst
  <2> QED BY <1>5, <2>1, <2>2
<1> HIDE DEF g
<1> DEFINE K == {m \in Nat : m <= n => g[m] \in T}
<1>8. 0 \in K
  BY <1>2, <1>6
<1>9. ASSUME NEW m \in Nat, m \in K PROVE m + 1 \in K
  <2> SUFFICES ASSUME m + 1 <= n PROVE g[m + 1] \in T
    OBVIOUS
  <2>1. g[m] \in T
    BY <1>1, <1>9
  <2>2. PICK i \in 1..n : i = m + 1
    BY <1>1
  <2>3. g[i] = ReadField(g[m], s[i])
    BY <1>7, <2>2
  <2> QED BY <1>4, <2>1, <2>2, <2>3
<1> HIDE DEF K
<1>10. Nat \subseteq K
  BY <1>8, <1>9, Induction
<1>11. \A i \in 0..n : g[i] \in T
  BY <1>1, <1>10 DEF K
<1>12. g[n] = f[1..n]
  BY <1>1 DEF g
<1> QED BY <1>3, <1>6, <1>7, <1>11, <1>12 DEF ReadsBy, n, d, T

\* With a field more, one more step.
LEMMA ReadAppend ==
  ASSUME NEW s \in Seq(BlockFields), NEW x \in BlockFields
  PROVE  ReadAll(Append(s, x)) = ReadField(ReadAll(s), x)
<1> DEFINE n == Len(s)
           t == Append(s, x)
<1>1. /\ t \in Seq(BlockFields) /\ Len(t) = n + 1 /\ n \in Nat /\ t[n + 1] = x
      /\ \A i \in 1..n : t[i] = s[i]
  BY AppendProperties, LenProperties
<1> HIDE DEF t
<1>2. PICK g : ReadsBy(g, s) /\ ReadAll(s) = g[n]
  BY ReadSteps
<1>3. PICK h : ReadsBy(h, t) /\ ReadAll(t) = h[Len(t)]
  BY <1>1, ReadSteps
<1> HIDE DEF n
<1>4. g[0] = h[0] /\ \A i \in 1..n : g[i] = ReadField(g[i - 1], s[i])
  BY <1>2, <1>3 DEF ReadsBy, n
<1>5. \A i \in 1..(n + 1) : h[i] = ReadField(h[i - 1], t[i])
  BY <1>1, <1>3 DEF ReadsBy
<1> DEFINE K == {m \in Nat : m <= n => g[m] = h[m]}
<1>6. 0 \in K
  BY <1>4
<1>7. ASSUME NEW m \in Nat, m \in K PROVE m + 1 \in K
  <2> SUFFICES ASSUME m + 1 <= n PROVE g[m + 1] = h[m + 1]
    OBVIOUS
  <2>1. g[m] = h[m]
    BY <1>1, <1>7
  <2>2. PICK i \in 1..n : i = m + 1
    BY <1>1
  <2>3. i - 1 = m /\ i \in 1..(n + 1)
    BY <1>1, <2>2
  <2>4. g[i] = ReadField(g[m], s[i]) /\ h[i] = ReadField(h[m], s[i])
    BY <1>1, <1>4, <1>5, <2>3
  <2> QED BY <2>1, <2>2, <2>4
<1> HIDE DEF K
<1>8. Nat \subseteq K
  BY <1>6, <1>7, Induction
<1>9. g[n] = h[n]
  BY <1>1, <1>8 DEF K
<1>10. n + 1 \in 1..(n + 1) /\ (n + 1) - 1 = n
  BY <1>1
<1>11. h[n + 1] = ReadField(h[n], x)
  BY <1>1, <1>5, <1>10
<1> QED BY <1>1, <1>2, <1>3, <1>9, <1>11 DEF n, t

\* Without fields there is nothing to read, and what is read is a block or none.
LEMMA ReadNothing == ReadAll(<< >>) = Initial(TagBlock)
<1>1. << >> \in Seq(BlockFields) /\ Len(<< >>) = 0
  BY EmptySeq
<1>2. PICK g : ReadsBy(g, << >>) /\ ReadAll(<< >>) = g[Len(<< >>)]
  BY <1>1, ReadSteps
<1> QED BY <1>1, <1>2 DEF ReadsBy

\* What is read so far is a tag block or a refusal.
LEMMA ReadResult ==
  ASSUME NEW s \in Seq(BlockFields)
  PROVE  ReadAll(s) \in Results
<1>1. PICK g : ReadsBy(g, s) /\ ReadAll(s) = g[Len(s)]
  BY ReadSteps
<1>2. Len(s) \in 0..Len(s)
  BY LenProperties
<1> QED BY <1>1, <1>2 DEF ReadsBy

\* Of the fields with the same key the last one with a text is kept.
AllKept(s, r) ==
    \A i \in 1..Len(s) :
        \/ s[i][2] = ""
        \/ \E k \in 1..7 :
             /\ Keys[k] = s[i][1] /\ s[i][2] \in DOMAIN Kept(k) /\ Kept(k)[s[i][2]] # Refuse
             /\ (\E j \in (i + 1)..Len(s) : s[j][1] = s[i][1]) \/ r[k] = Kept(k)[s[i][2]]

\* The last field with a key is the one that is kept.
LEMMA LastKept ==
  ASSUME NEW s \in Seq(BlockFields), ReadAll(s) # NoObject
  PROVE  AllKept(s, ReadAll(s))
<1> DEFINE T == {q \in Seq(BlockFields) : ReadAll(q) # NoObject => AllKept(q, ReadAll(q))}
<1>1. << >> \in T
  <2>1. << >> \in Seq(BlockFields) /\ Len(<< >>) = 0
    BY EmptySeq
  <2>2. AllKept(<< >>, ReadAll(<< >>))
    <3>1. ~\E i : i \in 1..0
      OBVIOUS
    <3> QED BY <2>1, <3>1, Zenon DEF AllKept
  <2> QED BY <2>1, <2>2, Zenon
<1>2. ASSUME NEW q \in Seq(BlockFields), NEW x \in BlockFields, q \in T
      PROVE  Append(q, x) \in T
  <2> DEFINE n == Len(q)
             t == Append(q, x)
             r == ReadAll(q)
             u == ReadAll(t)
  <2>1. /\ t \in Seq(BlockFields) /\ Len(t) = n + 1 /\ n \in Nat /\ t[n + 1] = x
        /\ \A i \in 1..n : t[i] = q[i]
    BY AppendProperties, LenProperties
  <2>2. u = ReadField(r, x) /\ r \in Results
    BY ReadAppend, ReadResult
  <2> SUFFICES ASSUME u # NoObject PROVE AllKept(t, u)
    BY <2>1
  <2>3. r \in Blocks /\ r # NoObject
    BY <2>2, FieldRead DEF Results
  <2>4. AllKept(q, r)
    BY <1>2, <2>3
  <2> HIDE DEF T, t, r, u, n
  <2>5. /\ x[2] = "" => u = r
        /\ x[2] # "" => \E k \in 1..7 :
             /\ Keys[k] = x[1] /\ x[2] \in DOMAIN Kept(k) /\ Kept(k)[x[2]] # Refuse
             /\ u = [r EXCEPT ![k] = Kept(k)[x[2]]]
    BY <2>2, <2>3, FieldRead
  <2>6. ASSUME NEW i \in 1..n, t[i][2] # ""
        PROVE  \E k \in 1..7 :
             /\ Keys[k] = t[i][1] /\ t[i][2] \in DOMAIN Kept(k) /\ Kept(k)[t[i][2]] # Refuse
             /\ (\E j \in (i + 1)..Len(t) : t[j][1] = t[i][1]) \/ u[k] = Kept(k)[t[i][2]]
    <3>1. t[i] = q[i] /\ i \in 1..Len(q)
      BY <2>1 DEF n
    <3>2. PICK k \in 1..7 :
             /\ Keys[k] = q[i][1] /\ q[i][2] \in DOMAIN Kept(k) /\ Kept(k)[q[i][2]] # Refuse
             /\ (\E j \in (i + 1)..Len(q) : q[j][1] = q[i][1]) \/ r[k] = Kept(k)[q[i][2]]
      BY <2>4, <2>6, <3>1 DEF AllKept
    <3>3. CASE \E j \in (i + 1)..Len(q) : q[j][1] = q[i][1]
      <4>1. PICK j \in (i + 1)..Len(q) : q[j][1] = q[i][1]
        BY <3>3
      <4>2. j \in 1..n /\ j \in (i + 1)..Len(t)
        BY <2>1, <4>1 DEF n
      <4>3. t[j] = q[j]
        BY <2>1, <4>2
      <4> QED BY <3>1, <3>2, <4>1, <4>2, <4>3
    <3>4. CASE r[k] = Kept(k)[q[i][2]] /\ x[1] = q[i][1]
      <4>1. n + 1 \in (i + 1)..Len(t)
        BY <2>1
      <4>2. t[n + 1][1] = t[i][1]
        BY <2>1, <3>1, <3>4
      <4> QED BY <3>1, <3>2, <4>1, <4>2
    <3>5. CASE r[k] = Kept(k)[q[i][2]] /\ x[1] # q[i][1]
      <4>1. u[k] = r[k]
        <5>1. CASE x[2] # ""
          <6>1. PICK m \in 1..7 : Keys[m] = x[1] /\ u = [r EXCEPT ![m] = Kept(m)[x[2]]]
            BY <2>5, <5>1
          <6>2. m # k
            BY <3>2, <3>5, <6>1
          <6> QED BY <6>1, <6>2
        <5> QED BY <2>5, <5>1
      <4> QED BY <3>1, <3>2, <3>5, <4>1
    <3> QED BY <3>2, <3>3, <3>4, <3>5
  <2>7. ASSUME x[2] # ""
        PROVE  \E k \in 1..7 :
             /\ Keys[k] = x[1] /\ x[2] \in DOMAIN Kept(k) /\ Kept(k)[x[2]] # Refuse
             /\ u[k] = Kept(k)[x[2]]
    <3>1. PICK m \in 1..7 :
             /\ Keys[m] = x[1] /\ x[2] \in DOMAIN Kept(m) /\ Kept(m)[x[2]] # Refuse
             /\ u = [r EXCEPT ![m] = Kept(m)[x[2]]]
      BY <2>5, <2>7
    <3>2. m \in DOMAIN r
      BY <2>3, SomeBlock
    <3>3. u[m] = Kept(m)[x[2]]
      BY <3>1, <3>2
    <3> QED BY <3>1, <3>3
  <2>8. \A i \in 1..Len(t) : i \in 1..n \/ i = n + 1
    BY <2>1
  <2> QED BY <2>1, <2>6, <2>7, <2>8 DEF AllKept
<1> HIDE DEF T
<1>3. Seq(BlockFields) \subseteq T
  BY <1>1, <1>2, SequenceInduction
<1> QED BY <1>3 DEF T

\* Half of a block, the first k of its members.
Half(o, k) == [j \in 1..7 |-> IF j <= k THEN o[j] ELSE Unset(j)]
Part(o, k) == IF Valid(k, o[k]) THEN FieldsOf(k, o[k]) ELSE << >>

\* What is written of a member.
LEMMA PartIs ==
  ASSUME NEW o \in Blocks, NEW k \in 1..7
  PROVE  /\ o[k] = Unset(k) => ~Valid(k, o[k])
         /\ o[k] # Unset(k) => Valid(k, o[k])
         /\ ~Valid(k, o[k]) => Part(o, k) = << >>
         /\ Valid(k, o[k]) /\ o[k] = "a,s:b" =>
              Part(o, k) = <<<<Keys[k], "a">>, <<"s", "b">>>> /\ k > 4
         /\ Valid(k, o[k]) /\ o[k] = "a*b" =>
              Part(o, k) = <<<<Keys[k], "a">>, <<"*", "b">>>> /\ k > 4
         /\ Valid(k, o[k]) /\ o[k] \notin {"a,s:b", "a*b"} =>
              /\ Part(o, k) = <<<<Keys[k], o[k]>>>>
              /\ o[k] \in DOMAIN Kept(k) /\ Kept(k)[o[k]] = o[k] /\ o[k] # Refuse /\ o[k] # ""
<1>1. o[k] \in Says(k)
  BY DEF Blocks
<1>2. Unset(k) = IF IsText(k) THEN "" ELSE "0"
  BY DEF Unset, IsText
<1>3. Valid(k, o[k]) <=> o[k] # Unset(k)
  <2>1. CASE IsText(k)
    BY <1>2, <2>1 DEF Valid
  <2>2. CASE ~IsText(k)
    BY <1>2, <2>2 DEF Valid
  <2> QED BY <2>1, <2>2
<1>10. /\ k = 1 => Says(k) = {"0", "1-2-3"} /\ Unset(k) = "0"
       /\ (k = 2 \/ k = 3 \/ k = 4) => Says(k) = {"0", "1"} /\ Unset(k) = "0"
       /\ (k = 5 \/ k = 6 \/ k = 7) => Says(k) = {"", "a", "b", "15", "a,s:b", "a*b"} /\ Unset(k) = ""
  <2>1. ASSUME k = 1 PROVE ~(k > 4)
    BY <2>1
  <2>2. ASSUME k = 2 \/ k = 3 \/ k = 4 PROVE ~(k > 4) /\ k # 1
    BY <2>2
  <2>3. ASSUME k = 5 \/ k = 6 \/ k = 7 PROVE k > 4 /\ k # 1
    BY <2>3
  <2> QED BY <2>1, <2>2, <2>3, Zenon DEF Says, Unset
<1>4. Part(o, k) = IF Valid(k, o[k]) THEN FieldsOf(k, o[k]) ELSE << >>
  BY DEF Part
<1>5. ASSUME Valid(k, o[k]), o[k] \in {"a,s:b", "a*b"} PROVE k > 4
  <2>1. k = 1 \/ (k = 2 \/ k = 3 \/ k = 4) \/ k > 4
    OBVIOUS
  <2>2. k # 1 /\ ~(k = 2 \/ k = 3 \/ k = 4)
    BY <1>1, <1>5, <1>10
  <2> QED BY <2>1, <2>2
<1>6. ASSUME Valid(k, o[k]), o[k] \notin {"a,s:b", "a*b"}
      PROVE  o[k] \in DOMAIN Kept(k) /\ Kept(k)[o[k]] = o[k] /\ o[k] # Refuse /\ o[k] # ""
  <2>1. CASE k = 1
    <3>1. Kept(k) = GroupOf
      <4>1. ~IsText(k)
        BY <2>1 DEF IsText
      <4> QED BY <2>1, <4>1 DEF Kept
    <3>2. o[k] = "1-2-3"
      BY <1>1, <1>3, <1>6, <2>1, <1>10
    <3> QED BY <3>1, <3>2 DEF GroupOf, Refuse
  <2>2. CASE k = 2 \/ k = 3 \/ k = 4
    <3>1. k # 1 /\ ~IsText(k)
      BY <2>2 DEF IsText
    <3>2. Kept(k) = NumberOf
      BY <3>1 DEF Kept
    <3>3. o[k] = "1"
      BY <1>1, <1>3, <1>6, <2>2, <1>10
    <3> QED BY <3>2, <3>3 DEF NumberOf, Refuse
  <2>3. CASE k = 5 \/ k = 6 \/ k = 7
    <3>1. k # 1 /\ IsText(k)
      BY <2>3 DEF IsText
    <3>2. Kept(k) = TextOf
      BY <3>1 DEF Kept
    <3>3. o[k] = "a" \/ o[k] = "b" \/ o[k] = "15"
      BY <1>1, <1>3, <1>6, <2>3, <1>10
    <3>4. TextOf["a"] = "a" /\ TextOf["b"] = "b" /\ TextOf["15"] = "15"
      BY DEF TextOf, Cut
    <3>5. {"a", "b", "15"} \subseteq DOMAIN TextOf
      BY DEF TextOf
    <3> QED BY <3>2, <3>3, <3>4, <3>5 DEF Refuse
  <2>4. k = 1 \/ (k = 2 \/ k = 3 \/ k = 4) \/ (k = 5 \/ k = 6 \/ k = 7)
    OBVIOUS
  <2> QED BY <2>1, <2>2, <2>3, <2>4
<1>7. ASSUME Valid(k, o[k]), o[k] = "a,s:b" PROVE Part(o, k) = <<<<Keys[k], "a">>, <<"s", "b">>>>
  BY <1>4, <1>7 DEF FieldsOf
<1>8. ASSUME Valid(k, o[k]), o[k] = "a*b" PROVE Part(o, k) = <<<<Keys[k], "a">>, <<"*", "b">>>>
  BY <1>4, <1>8 DEF FieldsOf
<1>9. ASSUME Valid(k, o[k]), o[k] \notin {"a,s:b", "a*b"} PROVE Part(o, k) = <<<<Keys[k], o[k]>>>>
  BY <1>4, <1>9 DEF FieldsOf
<1> QED BY <1>3, <1>4, <1>5, <1>6, <1>7, <1>8, <1>9

\* The fields of a block are such as the constructor reads.
LEMMA FieldOfKey ==
  ASSUME NEW k \in 1..7, NEW t, t = "" \/ t \in DOMAIN Kept(k)
  PROVE  <<Keys[k], t>> \in BlockFields
<1>1. Keys[k] \in STRING /\ t \in STRING
  BY TextsAssumption
<1>2. \A j \in 1..7 : Keys[j] = Keys[k] => j = k
  BY KeysAre
<1> QED BY <1>1, <1>2 DEF BlockFields

\* Texts without a delimiter are kept as they are.
LEMMA TextKept ==
  ASSUME NEW k \in 1..7, k > 4
  PROVE  /\ "a" \in DOMAIN Kept(k) /\ "b" \in DOMAIN Kept(k)
         /\ Kept(k)["a"] = "a" /\ Kept(k)["b"] = "b"
         /\ Kept(k)["a"] # Refuse /\ Kept(k)["b"] # Refuse
<1>1. k # 1 /\ IsText(k)
  BY DEF IsText
<1>2. Kept(k) = TextOf
  BY <1>1 DEF Kept
<1> QED BY <1>2 DEF TextOf, Cut, Refuse

\* Each member is written as a sequence of fields.
LEMMA PartFields ==
  ASSUME NEW o \in Blocks, NEW k \in 1..7
  PROVE  Part(o, k) \in Seq(BlockFields)
<1>1. CASE ~Valid(k, o[k])
  <2>1. Part(o, k) = << >>
    BY <1>1, PartIs
  <2> QED BY <2>1, EmptySeq
<1>2. CASE Valid(k, o[k]) /\ o[k] = "a,s:b"
  <2>1. Part(o, k) = <<<<Keys[k], "a">>, <<"s", "b">>>> /\ k > 4
    BY <1>2, PartIs
  <2>2. <<Keys[k], "a">> \in BlockFields
    BY <2>1, FieldOfKey, TextKept
  <2>3. <<Keys[6], "b">> \in BlockFields
    <3>1. PICK m \in 1..7 : m = 6 /\ m > 4
      OBVIOUS
    <3>2. <<Keys[m], "b">> \in BlockFields
      BY <3>1, FieldOfKey, TextKept
    <3> QED BY <3>1, <3>2
  <2>4. Keys[6] = "s"
    BY KeysAre
  <2> QED BY <2>1, <2>2, <2>3, <2>4
<1>3. CASE Valid(k, o[k]) /\ o[k] = "a*b"
  <2>1. Part(o, k) = <<<<Keys[k], "a">>, <<"*", "b">>>> /\ k > 4
    BY <1>3, PartIs
  <2>2. <<Keys[k], "a">> \in BlockFields
    BY <2>1, FieldOfKey, TextKept
  <2>3. <<"*", "b">> \in BlockFields
    BY TextsAssumption DEF BlockFields
  <2> QED BY <2>1, <2>2, <2>3
<1>4. CASE Valid(k, o[k]) /\ o[k] \notin {"a,s:b", "a*b"}
  <2>1. Part(o, k) = <<<<Keys[k], o[k]>>>> /\ o[k] \in DOMAIN Kept(k)
    BY <1>4, PartIs
  <2>2. <<Keys[k], o[k]>> \in BlockFields
    BY <2>1, FieldOfKey
  <2> QED BY <2>1, <2>2
<1> QED BY <1>1, <1>2, <1>3, <1>4

\* A pair joins two.
LEMMA PairIs ==
  ASSUME NEW S, NEW x \in S, NEW y \in S
  PROVE  <<x, y>> = <<x>> \o <<y>>
<1>1. <<x>> \in Seq(S) /\ <<y>> \in Seq(S) /\ <<x, y>> \in Seq(S)
  OBVIOUS
<1>2. <<x>>[1] = x /\ <<y>>[1] = y /\ Len(<<x>>) = 1 /\ Len(<<y>>) = 1
  OBVIOUS
<1>3. Len(<<x, y>>) = 2 /\ <<x, y>>[1] = x /\ <<x, y>>[2] = y
  OBVIOUS
<1>4. PICK a, b, p : a = <<x>> /\ b = <<y>> /\ p = <<x, y>>
  OBVIOUS
<1>5. /\ a \o b \in Seq(S) /\ Len(a \o b) = Len(a) + Len(b)
      /\ \A i \in 1..(Len(a) + Len(b)) : (a \o b)[i] = IF i <= Len(a) THEN a[i] ELSE b[i - Len(a)]
  BY <1>1, <1>4, ConcatProperties
<1>6. /\ p \in Seq(S) /\ a[1] = x /\ b[1] = y /\ Len(a) = 1 /\ Len(b) = 1
      /\ Len(p) = 2 /\ p[1] = x /\ p[2] = y
  BY <1>1, <1>2, <1>3, <1>4
<1>7. Len(a \o b) = 2 /\ (a \o b)[1] = x /\ (a \o b)[2] = y
  BY <1>5, <1>6
<1>8. \A i \in 1..2 : p[i] = (a \o b)[i]
  BY <1>6, <1>7
<1>9. p = a \o b
  BY <1>5, <1>6, <1>7, <1>8, SeqEqual
<1> QED BY <1>4, <1>9

\* One field more, or two.
LEMMA ReadOne ==
  ASSUME NEW s \in Seq(BlockFields), NEW x \in BlockFields
  PROVE  s \o <<x>> \in Seq(BlockFields) /\ ReadAll(s \o <<x>>) = ReadField(ReadAll(s), x)
<1>1. s \o <<x>> = Append(s, x) /\ Append(s, x) \in Seq(BlockFields)
  OBVIOUS
<1> QED BY <1>1, ReadAppend

\* Two fields are read one after the other.
LEMMA ReadTwo ==
  ASSUME NEW s \in Seq(BlockFields), NEW x \in BlockFields, NEW y \in BlockFields
  PROVE  ReadAll(s \o <<x, y>>) = ReadField(ReadField(ReadAll(s), x), y)
<1>1. s \o <<x, y>> = (s \o <<x>>) \o <<y>>
  <2>1. <<x>> \in Seq(BlockFields) /\ <<y>> \in Seq(BlockFields)
    OBVIOUS
  <2>2. <<x, y>> = <<x>> \o <<y>>
    BY <2>1, PairIs
  <2> QED BY <2>1, <2>2, ConcatAssociative
<1> QED BY <1>1, ReadOne

\* The keys of the members are all different.
LEMMA KeyIndex ==
  ASSUME NEW k \in 1..7
  PROVE  IndexOf(Keys[k]) = k /\ k # 0
<1>1. PICK x : x = Keys[k]
  OBVIOUS
<1>2. IndexOf(x) = k
  BY <1>1, IndexIs
<1>3. k # 0
  OBVIOUS
<1> QED BY <1>1, <1>2, <1>3

\* A field whose text is refused by nothing.
LEMMA FieldTaken ==
  ASSUME NEW o \in Blocks, NEW k \in 1..7, NEW t \in DOMAIN Kept(k), t # "", Kept(k)[t] # Refuse
  PROVE  ReadField(o, <<Keys[k], t>>) = [o EXCEPT ![k] = Kept(k)[t]]
         /\ ReadField(o, <<Keys[k], t>>) \in Blocks
<1>1. IndexOf(Keys[k]) = k /\ k # 0
  BY KeyIndex
<1>2. Keys[k] # "*" /\ o # NoObject
  BY KeysAre, SomeBlock
<1>3. ReadField(o, <<Keys[k], t>>) = [o EXCEPT ![k] = Kept(k)[t]]
  BY <1>1, <1>2 DEF ReadField
<1>4. Kept(k)[t] \in Says(k)
  BY KeptIn
<1>5. PICK v : v = Kept(k)[t]
  OBVIOUS
<1>6. [o EXCEPT ![k] = v] \in Blocks
  BY <1>4, <1>5 DEF Blocks
<1> QED BY <1>3, <1>5, <1>6

\* Half of a block is a block, and one member more is half of it as well.
LEMMA HalfIs ==
  ASSUME NEW o \in Blocks, NEW k \in 1..7
  PROVE  /\ Half(o, k - 1) \in Blocks /\ Half(o, k) \in Blocks
         /\ Half(o, k) = [Half(o, k - 1) EXCEPT ![k] = o[k]]
         /\ o[k] = Unset(k) => Half(o, k) = Half(o, k - 1)
         /\ Half(o, 0) = Initial(TagBlock) /\ Half(o, 7) = o
<1>1. \A j \in 1..7 : o[j] \in Says(j) /\ Unset(j) \in Says(j) /\ Initial(TagBlock)[j] = Unset(j)
  <2>1. \A j \in 1..7 : Initial(TagBlock)[j] = Unset(j)
    BY BlockLayout
  <2>2. Initial(TagBlock) \in Blocks
    BY BlockLayout
  <2> QED BY <2>1, <2>2 DEF Blocks
<1>2. \A m : Half(o, m) \in Blocks
  BY <1>1 DEF Half, Blocks
<1>3. \A j \in 1..7 : (j <= k <=> j <= k - 1 \/ j = k) /\ ~(j <= 0) /\ j <= 7
  OBVIOUS
<1>4. Half(o, k) = [j \in 1..7 |-> IF j = k THEN o[k] ELSE Half(o, k - 1)[j]]
  <2>1. \A j \in 1..7 : (IF j <= k THEN o[j] ELSE Unset(j)) = IF j = k THEN o[k] ELSE Half(o, k - 1)[j]
    BY <1>3, Zenon DEF Half
  <2> QED BY <2>1 DEF Half
<1>5. [Half(o, k - 1) EXCEPT ![k] = o[k]] = [j \in 1..7 |-> IF j = k THEN o[k] ELSE Half(o, k - 1)[j]]
  BY DEF Half
<1>6. ASSUME o[k] = Unset(k) PROVE Half(o, k) = Half(o, k - 1)
  <2>1. ~(k <= k - 1)
    OBVIOUS
  <2>2. Half(o, k - 1)[k] = o[k]
    BY <1>6, <2>1, Zenon DEF Half
  <2>3. Half(o, k - 1) = [j \in 1..7 |-> Half(o, k - 1)[j]]
    BY DEF Half
  <2> QED BY <1>4, <2>2, <2>3
<1>7. Half(o, 0) = Initial(TagBlock)
  <2>1. Initial(TagBlock) = [j \in 1..7 |-> Initial(TagBlock)[j]]
    BY BlockLayout, SomeBlock
  <2>2. Half(o, 0) = [j \in 1..7 |-> Half(o, 0)[j]]
    BY DEF Half
  <2>3. \A j \in 1..7 : Half(o, 0)[j] = Unset(j)
    BY <1>3, Zenon DEF Half
  <2> QED BY <1>1, <2>1, <2>2, <2>3
<1>8. Half(o, 7) = o
  <2>1. o = [j \in 1..7 |-> o[j]]
    BY SomeBlock
  <2>2. Half(o, 7) = [j \in 1..7 |-> Half(o, 7)[j]]
    BY DEF Half
  <2>3. \A j \in 1..7 : Half(o, 7)[j] = o[j]
    BY <1>3, Zenon DEF Half
  <2> QED BY <2>1, <2>2, <2>3
<1> QED BY <1>2, <1>4, <1>5, <1>6, <1>7, <1>8

\* What reading one member more makes of what is read already.
LEMMA PartRead ==
  ASSUME NEW o \in Blocks, NEW k \in 1..7, NEW s \in Seq(BlockFields), NEW q, q = s \o Part(o, k)
  PROVE  /\ q \in Seq(BlockFields)
         /\ o[k] = "a*b" \/ ReadAll(s) = NoObject => ReadAll(q) = NoObject
         /\ o[k] # "a*b" /\ ReadAll(s) # NoObject => ReadAll(q) # NoObject
         /\ o[k] \notin {"a,s:b", "a*b"} /\ ReadAll(s) = Half(o, k - 1) => ReadAll(q) = Half(o, k)
<1>1. q \in Seq(BlockFields)
  BY PartFields, ConcatProperties
<1>2. PICK r \in Results : r = ReadAll(s)
  BY ReadResult
<1>3. r = NoObject \/ (r \in Blocks /\ r # NoObject)
  BY SomeBlock DEF Results
<1>4. Half(o, k - 1) \in Blocks /\ Half(o, k - 1) # NoObject
  BY HalfIs, SomeBlock
<1>5. CASE ~Valid(k, o[k])
  <2>1. Part(o, k) = << >> /\ o[k] = Unset(k)
    BY <1>5, PartIs
  <2>2. q = s
    BY <2>1, ConcatEmptySeq
  <2>3. o[k] # "a*b"
    BY <2>1 DEF Unset
  <2>4. Half(o, k) = Half(o, k - 1)
    BY <2>1, HalfIs
  <2> QED BY <1>1, <2>2, <2>3, <2>4
<1>6. CASE Valid(k, o[k]) /\ o[k] = "a,s:b"
  <2>1. Part(o, k) = <<<<Keys[k], "a">>, <<"s", "b">>>> /\ k > 4
    BY <1>6, PartIs
  <2>2. PICK m \in 1..7 : m = 6 /\ m > 4
    OBVIOUS
  <2>3. Keys[m] = "s"
    BY <2>2, KeysAre
  <2>4. PICK x, y : x = <<Keys[k], "a">> /\ y = <<Keys[m], "b">>
    OBVIOUS
  <2>5. x \in BlockFields /\ y \in BlockFields
    BY <2>1, <2>2, <2>4, FieldOfKey, TextKept
  <2>6. q = s \o <<x, y>>
    BY <2>1, <2>3, <2>4
  <2>7. ReadAll(q) = ReadField(ReadField(r, x), y)
    BY <1>2, <2>5, <2>6, ReadTwo
  <2>8. r = NoObject => ReadAll(q) = NoObject
    <3>1. NoObject \in Results
      BY DEF Results
    <3> QED BY <2>5, <2>7, <3>1, FieldRead
  <2>9. ASSUME r \in Blocks PROVE ReadAll(q) # NoObject
    <3>1. "a" \in DOMAIN Kept(k) /\ Kept(k)["a"] # Refuse /\ "a" # ""
      BY <2>1, TextKept
    <3>2. ReadField(r, x) \in Blocks
      BY <2>4, <2>9, <3>1, FieldTaken
    <3>3. "b" \in DOMAIN Kept(m) /\ Kept(m)["b"] # Refuse /\ "b" # ""
      BY <2>2, TextKept
    <3>4. ReadField(ReadField(r, x), y) \in Blocks
      BY <2>4, <3>2, <3>3, FieldTaken
    <3> QED BY <2>7, <3>4, SomeBlock
  <2>10. o[k] # "a*b" /\ o[k] \in {"a,s:b", "a*b"}
    BY <1>6
  <2> QED BY <1>1, <1>2, <1>3, <2>8, <2>9, <2>10
<1>7. CASE Valid(k, o[k]) /\ o[k] = "a*b"
  <2>1. Part(o, k) = <<<<Keys[k], "a">>, <<"*", "b">>>> /\ k > 4
    BY <1>7, PartIs
  <2>2. PICK x, y : x = <<Keys[k], "a">> /\ y = <<"*", "b">>
    OBVIOUS
  <2>3. x \in BlockFields
    BY <2>1, <2>2, FieldOfKey, TextKept
  <2>4. y \in BlockFields /\ y[1] = "*"
    BY <2>2, TextsAssumption DEF BlockFields
  <2>8. q = s \o <<x, y>>
    BY <2>1, <2>2
  <2>5. ReadAll(q) = ReadField(ReadField(r, x), y)
    BY <1>2, <2>3, <2>4, <2>8, ReadTwo
  <2>6. ReadField(r, x) \in Results
    BY <2>3, FieldRead
  <2>7. ReadAll(q) = NoObject
    BY <2>4, <2>5, <2>6, FieldRead
  <2> QED BY <1>1, <1>7, <2>7
<1>8. CASE Valid(k, o[k]) /\ o[k] \notin {"a,s:b", "a*b"}
  <2>1. Part(o, k) = <<<<Keys[k], o[k]>>>>
    BY <1>8, PartIs
  <2>2. o[k] \in DOMAIN Kept(k) /\ Kept(k)[o[k]] = o[k] /\ o[k] # Refuse /\ o[k] # ""
    BY <1>8, PartIs
  <2>3. PICK x : x = <<Keys[k], o[k]>>
    OBVIOUS
  <2>4. x \in BlockFields
    BY <2>2, <2>3, FieldOfKey
  <2>5. ReadAll(q) = ReadField(r, x)
    BY <1>2, <2>1, <2>3, <2>4, ReadOne
  <2>6. r = NoObject => ReadAll(q) = NoObject
    <3>1. NoObject \in Results
      BY DEF Results
    <3> QED BY <2>4, <2>5, <3>1, FieldRead
  <2>7. ASSUME r \in Blocks PROVE ReadAll(q) = [r EXCEPT ![k] = o[k]] /\ ReadAll(q) \in Blocks
    <3>1. PICK t : t = o[k]
      OBVIOUS
    <3>2. t \in DOMAIN Kept(k) /\ t # "" /\ Kept(k)[t] # Refuse /\ Kept(k)[t] = t
      BY <2>2, <3>1
    <3>3. /\ ReadField(r, <<Keys[k], t>>) = [r EXCEPT ![k] = Kept(k)[t]]
          /\ ReadField(r, <<Keys[k], t>>) \in Blocks
      BY <2>7, <3>2, FieldTaken
    <3> QED BY <2>3, <2>5, <3>1, <3>2, <3>3
  <2>8. r \in Blocks => ReadAll(q) # NoObject
    BY <2>7, SomeBlock
  <2>9. r = Half(o, k - 1) => ReadAll(q) = Half(o, k)
    <3>1. Half(o, k) = [Half(o, k - 1) EXCEPT ![k] = o[k]]
      BY HalfIs
    <3>2. PICK H : H = Half(o, k - 1)
      OBVIOUS
    <3> QED BY <1>4, <2>7, <3>1, <3>2
  <2> QED BY <1>1, <1>2, <1>3, <1>8, <2>6, <2>8, <2>9
<1> QED BY <1>5, <1>6, <1>7, <1>8

\* FlattenSeq walks over the beginnings of what it makes.
LEMMA Beginnings ==
  ASSUME NEW S, NEW s \in Seq(Seq(S))
  PROVE  \E p : p[0] = << >> /\ \A i \in 1..Len(s) : p[i] = p[i - 1] \o s[i]
<1> DEFINE n == Len(s)
           f == CHOOSE g : g = [i \in 1..Len(s) |-> IF i = 1 THEN s[i] ELSE g[i-1] \o s[i]]
           p == [i \in 0..n |-> IF i = 0 THEN << >> ELSE f[i]]
<1>1. n \in Nat /\ \A i \in 1..n : s[i] \in Seq(S)
  BY LenProperties
<1>2. f = [i \in 1..Len(s) |-> IF i = 1 THEN s[i] ELSE f[i-1] \o s[i]]
  <2> HIDE DEF f
  <2> QED BY FlattenFunction, ZenonT(60) DEF f
<1> HIDE DEF f
<1>3. \A i \in 1..n : f[i] = IF i = 1 THEN s[i] ELSE f[i-1] \o s[i]
  BY <1>2 DEF n
<1> HIDE DEF n
<1>4. p[0] = << >> /\ \A i \in 1..n : p[i] = f[i]
  BY <1>1
<1> HIDE DEF p
<1>5. ASSUME NEW i \in 1..n PROVE p[i] = p[i - 1] \o s[i]
  <2>1. CASE i = 1
    <3>1. << >> \o s[i] = s[i]
      BY <1>1, ConcatEmptySeq
    <3>2. p[i - 1] = << >>
      BY <1>4, <2>1
    <3>3. p[i] = s[i]
      BY <1>3, <1>4, <2>1
    <3> QED BY <3>1, <3>2, <3>3
  <2>2. CASE i # 1
    <3>1. i - 1 \in 1..n
      BY <1>1, <2>2
    <3>2. p[i - 1] = f[i - 1] /\ p[i] = f[i] /\ f[i] = f[i-1] \o s[i]
      BY <1>3, <1>4, <2>2, <3>1
    <3> QED BY <3>2
  <2> QED BY <2>1, <2>2
<1> QED BY <1>4, <1>5 DEF n

\* The text of a block, member by member.
Walk(o, p) == p[0] = << >> /\ \A k \in 1..7 : p[k] = p[k - 1] \o Part(o, k)

\* The text of a tag block grows member by member.
LEMMA BlockWalk ==
  ASSUME NEW o \in Blocks
  PROVE  \E p : Walk(o, p) /\ WrittenBlock(o) = p[7]
<1> DEFINE s == [k \in 1..7 |-> Part(o, k)]
<1>1. s \in Seq(Seq(BlockFields)) /\ Len(s) = 7 /\ \A k \in 1..7 : s[k] = Part(o, k)
  <2>1. s \in [1..7 -> Seq(BlockFields)]
    BY PartFields
  <2>2. 7 \in Nat
    OBVIOUS
  <2>3. s \in Seq(Seq(BlockFields)) /\ Len(s) = 7
    <3> HIDE DEF s
    <3> QED BY <2>1, <2>2, FunIsSeq, ZenonT(40)
  <2> QED BY <2>3
<1>2. WrittenBlock(o) = FlattenSeq(s)
  BY DEF WrittenBlock, Part
<1> HIDE DEF s
<1>3. PICK p : p[0] = << >> /\ \A k \in 1..Len(s) : p[k] = p[k - 1] \o s[k]
  BY <1>1, Beginnings
<1>4. FlattenSeq(s) = p[Len(s)]
  BY <1>1, <1>3, FlattenIs
<1>5. Walk(o, p)
  BY <1>1, <1>3 DEF Walk
<1> QED BY <1>1, <1>2, <1>4, <1>5

\* What a constructor makes of the text of a block.
LEMMA BlockReadBack ==
  ASSUME NEW o \in Blocks, NEW w, w = WrittenBlock(o)
  PROVE  /\ w \in Seq(BlockFields)
         /\ (\E k \in 1..7 : o[k] = "a*b") => ReadAll(w) = NoObject
         /\ (\A k \in 1..7 : o[k] # "a*b") => ReadAll(w) # NoObject
         /\ (\A k \in 1..7 : o[k] \notin {"a,s:b", "a*b"}) => ReadAll(w) = o
<1>1. PICK p : Walk(o, p) /\ w = p[7]
  BY BlockWalk
<1> DEFINE Stars(k) == \E j \in 1..k : o[j] = "a*b"
           Plain(k) == \A j \in 1..k : o[j] \notin {"a,s:b", "a*b"}
           K == {k \in Nat : k <= 7 =>
                   /\ p[k] \in Seq(BlockFields)
                   /\ Stars(k) => ReadAll(p[k]) = NoObject
                   /\ ~Stars(k) => ReadAll(p[k]) # NoObject
                   /\ Plain(k) => ReadAll(p[k]) = Half(o, k)}
<1>2. 0 \in K
  <2>1. p[0] = << >> /\ << >> \in Seq(BlockFields)
    BY <1>1, EmptySeq DEF Walk
  <2>2. ReadAll(p[0]) = Initial(TagBlock) /\ Initial(TagBlock) # NoObject
    BY <2>1, ReadNothing, BlockLayout, SomeBlock
  <2>3. Half(o, 0) = Initial(TagBlock)
    <3>1. PICK k \in 1..7 : TRUE
      OBVIOUS
    <3> QED BY HalfIs
  <2>4. ~Stars(0)
    OBVIOUS
  <2> HIDE DEF Stars, Plain
  <2> QED BY <2>1, <2>2, <2>3, <2>4
<1>3. ASSUME NEW m \in Nat, m \in K PROVE m + 1 \in K
  <2> SUFFICES ASSUME m + 1 <= 7
               PROVE  /\ p[m + 1] \in Seq(BlockFields)
                      /\ Stars(m + 1) => ReadAll(p[m + 1]) = NoObject
                      /\ ~Stars(m + 1) => ReadAll(p[m + 1]) # NoObject
                      /\ Plain(m + 1) => ReadAll(p[m + 1]) = Half(o, m + 1)
    <3> HIDE DEF Stars, Plain
    <3>1. m + 1 \in Nat
      OBVIOUS
    <3> QED BY <3>1, Zenon
  <2>1. PICK k \in 1..7 : k = m + 1 /\ k - 1 = m /\ m <= 7
    OBVIOUS
  <2>2. /\ p[m] \in Seq(BlockFields)
        /\ Stars(m) => ReadAll(p[m]) = NoObject
        /\ ~Stars(m) => ReadAll(p[m]) # NoObject
        /\ Plain(m) => ReadAll(p[m]) = Half(o, m)
    BY <1>3, <2>1
  <2>3. p[k] = p[m] \o Part(o, k)
    BY <1>1, <2>1 DEF Walk
  <2>4. (Stars(k) <=> Stars(m) \/ o[k] = "a*b") /\ (Plain(k) <=> Plain(m) /\ o[k] \notin {"a,s:b", "a*b"})
    <3>1. \A j : j \in 1..k <=> j \in 1..m \/ j = k
      BY <2>1
    <3> QED BY <3>1
  <2> HIDE DEF Stars, Plain, K
  <2>5. /\ p[k] \in Seq(BlockFields)
        /\ o[k] = "a*b" \/ ReadAll(p[m]) = NoObject => ReadAll(p[k]) = NoObject
        /\ o[k] # "a*b" /\ ReadAll(p[m]) # NoObject => ReadAll(p[k]) # NoObject
        /\ o[k] \notin {"a,s:b", "a*b"} /\ ReadAll(p[m]) = Half(o, k - 1) => ReadAll(p[k]) = Half(o, k)
    BY <2>2, <2>3, PartRead
  <2>6. ReadAll(p[m]) = Half(o, m) => ReadAll(p[m]) = Half(o, k - 1)
    BY <2>1
  <2>7. /\ p[k] \in Seq(BlockFields)
        /\ Stars(k) => ReadAll(p[k]) = NoObject
        /\ ~Stars(k) => ReadAll(p[k]) # NoObject
        /\ Plain(k) => ReadAll(p[k]) = Half(o, k)
    BY <2>2, <2>4, <2>5, <2>6
  <2> QED BY <2>1, <2>7
<1> HIDE DEF K
<1>4. Nat \subseteq K
  BY <1>2, <1>3, Induction
<1>5. /\ p[7] \in Seq(BlockFields)
      /\ Stars(7) => ReadAll(p[7]) = NoObject
      /\ ~Stars(7) => ReadAll(p[7]) # NoObject
      /\ Plain(7) => ReadAll(p[7]) = Half(o, 7)
  <2> HIDE DEF Stars, Plain
  <2>1. 7 \in K /\ 7 <= 7
    BY <1>4
  <2> QED BY <2>1 DEF K
<1>6. Half(o, 7) = o
  <2>1. PICK k \in 1..7 : TRUE
    OBVIOUS
  <2> QED BY HalfIs
<1> QED BY <1>1, <1>5, <1>6

\* A valid member is written with its key.
LEMMA KeyWritten ==
  ASSUME NEW o \in Blocks, NEW k \in 1..7, Valid(k, o[k])
  PROVE  Keys[k] \in {f[1] : f \in ToSet(WrittenBlock(o))}
<1>1. PICK p : Walk(o, p) /\ WrittenBlock(o) = p[7]
  BY BlockWalk
<1> DEFINE Has(q) == q \in Seq(BlockFields) /\ \E i \in DOMAIN q : q[i][1] = Keys[k]
           K == {m \in Nat : m <= 7 => p[m] \in Seq(BlockFields) /\ (k <= m => Has(p[m]))}
<1>2. 0 \in K
  <2>1. p[0] \in Seq(BlockFields)
    BY <1>1, EmptySeq DEF Walk
  <2>2. ~(k <= 0)
    OBVIOUS
  <2> HIDE DEF Has
  <2> QED BY <2>1, <2>2
<1>3. ASSUME NEW m \in Nat, m \in K PROVE m + 1 \in K
  <2> SUFFICES ASSUME m + 1 <= 7
               PROVE  p[m + 1] \in Seq(BlockFields) /\ (k <= m + 1 => Has(p[m + 1]))
    OBVIOUS
  <2>1. PICK j \in 1..7 : j = m + 1 /\ j - 1 = m /\ m <= 7
    OBVIOUS
  <2>2. PICK q, r, t : q = p[m] /\ r = Part(o, j) /\ t = p[j]
    OBVIOUS
  <2>3. q \in Seq(BlockFields) /\ (k <= m => Has(q))
    BY <1>3, <2>1, <2>2
  <2>4. t = q \o r
    BY <1>1, <2>1, <2>2 DEF Walk
  <2>5. r \in Seq(BlockFields)
    BY <2>2, PartFields
  <2> HIDE DEF K
  <2>6. /\ t \in Seq(BlockFields) /\ Len(t) = Len(q) + Len(r) /\ Len(q) \in Nat /\ Len(r) \in Nat
        /\ \A i \in 1..(Len(q) + Len(r)) : t[i] = IF i <= Len(q) THEN q[i] ELSE r[i - Len(q)]
        /\ DOMAIN t = 1..Len(t) /\ DOMAIN q = 1..Len(q)
    BY <2>3, <2>4, <2>5, ConcatProperties, LenProperties
  <2>7. ASSUME k <= m PROVE Has(t)
    <3>1. PICK i \in 1..Len(q) : q[i][1] = Keys[k]
      BY <2>3, <2>6, <2>7
    <3>2. i \in 1..(Len(q) + Len(r)) /\ i <= Len(q)
      BY <2>6
    <3> QED BY <2>6, <3>1, <3>2
  <2>8. ASSUME k = j PROVE Has(t)
    <3>1. Len(r) > 0 /\ r[1][1] = Keys[k]
      <4>1. CASE o[k] = "a,s:b"
        <5>1. r = <<<<Keys[k], "a">>, <<"s", "b">>>>
          BY <2>2, <2>8, <4>1, PartIs
        <5> QED BY <5>1
      <4>2. CASE o[k] = "a*b"
        <5>1. r = <<<<Keys[k], "a">>, <<"*", "b">>>>
          BY <2>2, <2>8, <4>2, PartIs
        <5> QED BY <5>1
      <4>3. CASE o[k] \notin {"a,s:b", "a*b"}
        <5>1. r = <<<<Keys[k], o[k]>>>>
          BY <2>2, <2>8, <4>3, PartIs
        <5> QED BY <5>1
      <4> QED BY <4>1, <4>2, <4>3
    <3>2. PICK i \in 1..(Len(q) + Len(r)) : i = Len(q) + 1 /\ ~(i <= Len(q)) /\ i - Len(q) = 1
      BY <2>6, <3>1
    <3>3. t[i] = r[1]
      BY <2>6, <3>2
    <3> QED BY <2>6, <3>1, <3>2, <3>3
  <2>9. k <= m + 1 => k <= m \/ k = j
    BY <2>1
  <2> QED BY <2>1, <2>2, <2>6, <2>7, <2>8, <2>9
<1> HIDE DEF K
<1>4. Nat \subseteq K
  BY <1>2, <1>3, Induction
<1>5. 7 \in K /\ 7 <= 7 /\ k <= 7
  BY <1>4
<1>6. Has(p[7])
  <2> HIDE DEF Has
  <2> QED BY <1>5 DEF K
<1> QED BY <1>1, <1>6 DEF ToSet

-----------------------------------------------------------------------------
(***************************************************************************)
(* The inductive invariant: the object is sound whatever has been done, a  *)
(* line an object has written is still that object's, and what has been    *)
(* read is one of the outcomes of reading the line that is remembered.     *)
(***************************************************************************)
LayoutOf(c) == IF c = "TAG" THEN TagBlock ELSE Layouts[c]
Fitting(c, o) == IF c = "TAG" THEN o \in Blocks ELSE Sound(c, LayoutOf(c), o)
Rows(c) == IF c = "TAG" THEN Seq(BlockFields) ELSE Seq(STRING)
TextOfObject(c, o) == IF c = "TAG" THEN WrittenBlock(o) ELSE Written(LayoutOf(c), o)
ReadOf(c, row) == IF c = "TAG" THEN {ReadBlock(row)} ELSE Outcomes(LayoutOf(c), row)

IInv ==
    /\ id \in DOMAIN Layouts \cup {"TAG"}
    /\ phase \in {"object", "line", "refused"}
    /\ sets \in 0..MaxSets
    /\ Fitting(id, obj)
    /\ line \in Rows(id)
    /\ from # None =>
         /\ Fitting(id, from)
         /\ Writable(LayoutOf(id), from)
         /\ line = TextOfObject(id, from)
    /\ phase = "object" /\ (from # None \/ line # None) =>
         obj \in ReadOf(id, line) /\ obj # NoObject
    /\ phase = "refused" => NoObject \in ReadOf(id, line)

\* Every class has a layout the lemmas are about, and a tag block is no class.
LEMMA LayoutIs ==
  ASSUME id \in DOMAIN Layouts \cup {"TAG"}
  PROVE  /\ layout = LayoutOf(id) /\ (IsBlock <=> id = "TAG")
         /\ IsBlock => LayoutOf(id) = TagBlock
         /\ ~IsBlock => WellFormed(id, LayoutOf(id))
BY LayoutsAssumption DEF layout, LayoutOf, IsBlock

\* What a setter of a tag block makes of its argument.
LEMMA SetterSays ==
  ASSUME NEW k \in 1..7, NEW t \in SetterArgs(k)
  PROVE  Cut(t) \in Says(k)
<1>1. CASE k = 1
  <2>1. ~IsText(k)
    BY <1>1 DEF IsText
  <2>2. t = "0" \/ t = "1-2-3"
    BY <1>1, <2>1 DEF SetterArgs
  <2>3. Says(k) = {"0", "1-2-3"}
    BY <1>1 DEF Says
  <2> QED BY <2>2, <2>3 DEF Cut
<1>2. CASE k > 4
  <2>1. IsText(k) /\ k # 1
    BY <1>2 DEF IsText
  <2>2. t = "" \/ t = "a" \/ t = "long" \/ t = "a,s:b" \/ t = "a*b"
    BY <2>1 DEF SetterArgs
  <2>3. Says(k) = {"", "a", "b", "15", "a,s:b", "a*b"}
    BY <1>2, <2>1 DEF Says
  <2> QED BY <2>2, <2>3 DEF Cut
<1>3. CASE k # 1 /\ ~(k > 4)
  <2>1. ~IsText(k)
    BY <1>3 DEF IsText
  <2>2. t = "0" \/ t = "1"
    BY <1>3, <2>1 DEF SetterArgs
  <2>3. Says(k) = {"0", "1"}
    BY <1>3 DEF Says
  <2> QED BY <2>2, <2>3 DEF Cut
<1> QED BY <1>1, <1>2, <1>3

\* A line of its own is a sequence of texts.
LEMMA WrittenTexts ==
  ASSUME NEW c, NEW l, WellFormed(c, l), NEW o, Sound(c, l, o)
  PROVE  Written(l, o) \in Seq(STRING)
<1>1. PICK w, sh : w = Written(l, o) /\ sh = Shown(l, o)
  OBVIOUS
<1>2. PICK m : m = Length(l, o)
  OBVIOUS
<1>3. /\ m \in Nat /\ m <= Len(l.fields) /\ DOMAIN w = 1..m /\ Len(l.fields) \in Nat
      /\ \A i \in 1..m : w[i] = FieldText(l, sh, i)
  BY <1>1, <1>2, WrittenIs, Dims
<1>4. Sound(c, l, sh)
  BY <1>1, ShownIs
<1>5. ASSUME NEW i \in 1..m PROVE w[i] \in STRING
  <2>1. i \in 1..Len(l.fields)
    BY <1>3
  <2>2. PartsFit(l, i) /\ ValuesFit(c, l, i)
    BY <2>1, Fits
  <2>3. HoldsHere(l, sh, i)
    BY <1>4, <2>1 DEF Sound, SoundHere, ValidHere
  <2>4. "" \in STRING
    BY TextsAssumption
  <2>5. w[i] = FieldText(l, sh, i)
    BY <1>3
  <2>6. CASE l.fields[i].part = "unit"
    <3>1. l.fields[i].type.says[""] \in STRING
      BY <2>2, <2>6 DEF PartsFit, ValuesFit
    <3>2. w[i] = l.fields[i].type.says[""] \/ w[i] = ""
      BY <2>5, <2>6 DEF FieldText
    <3> QED BY <2>4, <3>1, <3>2
  <2>7. CASE l.fields[i].part = "unread"
    <3>1. w[i] = l.fields[i].init
      BY <2>5, <2>7 DEF FieldText
    <3> QED BY <2>2, <2>7, <3>1 DEF PartsFit
  <2>8. CASE l.fields[i].part \notin {"unit", "unread"}
    <3>1. w[i] = IF sh[i] = "" THEN "" ELSE l.fields[i].type.says[sh[i]]
      BY <2>5, <2>8 DEF FieldText
    <3>2. sh[i] = "" \/ sh[i] \in DOMAIN l.fields[i].type.says
      <4>1. sh[i] \in Holds(l, i) \/ sh[i] = ""
        BY <2>3 DEF HoldsHere
      <4> QED BY <2>2, <2>8, <4>1 DEF ValuesFit
    <3> QED BY <2>2, <2>4, <3>1, <3>2 DEF ValuesFit
  <2> QED BY <2>6, <2>7, <2>8
<1>6. w = [i \in 1..m |-> w[i]]
  BY <1>1, <1>2, <1>3 DEF Written, Length
<1>7. w \in [1..m -> STRING]
  BY <1>5, <1>6
<1>8. w \in Seq(STRING)
  BY <1>3, <1>7, FunIsSeq
<1> QED BY <1>1, <1>8

\* What is read is sound.
LEMMA ReadFits ==
  ASSUME id \in DOMAIN Layouts \cup {"TAG"}, NEW row \in Rows(id), NEW o \in ReadOf(id, row), o # NoObject
  PROVE  Fitting(id, o)
<1>1. CASE IsBlock
  <2>1. id = "TAG" /\ row \in Seq(BlockFields) /\ o = ReadBlock(row)
    BY <1>1, LayoutIs DEF Rows, ReadOf
  <2>2. o = ReadAll(row)
    BY <2>1 DEF ReadBlock, ReadAll
  <2> QED BY <2>1, <2>2, ReadResult DEF Results, Fitting
<1>2. CASE ~IsBlock
  <2>1. id # "TAG" /\ WellFormed(id, LayoutOf(id)) /\ o \in Outcomes(LayoutOf(id), row)
    BY <1>2, LayoutIs DEF ReadOf
  <2>2. Sound(id, LayoutOf(id), o)
    BY <2>1, ReadSound
  <2> QED BY <2>1, <2>2 DEF Fitting
<1> QED BY <1>1, <1>2

\* A call of a setter forgets the line.
LEMMA SetterStep ==
  ASSUME IInv, phase = "object", sets < MaxSets, Fitting(id, obj'), sets' = sets + 1,
         line' = None, from' = None, UNCHANGED <<id, phase>>
  PROVE  IInv'
<1>1. line' \in Rows(id')
  BY EmptySeq DEF Rows, None
<1>2. sets' \in 0..MaxSets
  BY BoundsAssumption DEF IInv
<1> QED BY <1>1, <1>2 DEF IInv

\* A setter preserves the invariant.
LEMMA SetStep ==
  ASSUME IInv, NEW i \in Leaders(layout), Set(i)
  PROVE  IInv'
<1> DEFINE l == LayoutOf(id)
<1>1. /\ layout = l /\ id \in DOMAIN Layouts \cup {"TAG"} /\ Fitting(id, obj)
      /\ i \in DOMAIN l.fields /\ l.fields[i].part \in {"member", "joint"} /\ l.fields[i].with = 0
  BY LayoutIs DEF IInv, Leaders
<1>2. PICK g \in Given(i) : obj' = [j \in DOMAIN obj |-> IF j \in DOMAIN g THEN g[j] ELSE obj[j]]
  BY DEF Set
<1>3. /\ DOMAIN g = Group(l, i)
      /\ \A j \in Group(l, i) :
           /\ g[j] \in l.fields[j].args
           /\ l.fields[j].part = "hemisphere"
                => g[j] = l.fields[j].sides[IF g[i] = "-1" THEN 2 ELSE 1]
  BY <1>1 DEF Given, Field
<1>4. obj' = AfterSet(obj, g)
  BY <1>2 DEF AfterSet
<1> HIDE DEF l
<1>5. CASE IsBlock
  <2>1. l = TagBlock /\ id = "TAG"
    BY <1>5, LayoutIs, <1>1 DEF l
  <2>2. i \in 1..7 /\ l.fields[i].args = {}
    BY <1>1, <2>1, BlockLayout
  <2>3. i \in Group(l, i)
    BY <1>1, <2>2 DEF Group, Leader
  <2> QED BY <1>3, <2>2, <2>3
<1>6. CASE ~IsBlock
  <2>1. WellFormed(id, l) /\ id # "TAG" /\ Sound(id, l, obj)
    BY <1>1, <1>6, LayoutIs DEF Fitting, l
  <2>2. Len(l.fields) \in Nat /\ DOMAIN l.fields = 1..Len(l.fields)
    BY <2>1, Dims
  <2>3. GivenTo(l, i, g)
    BY <1>3 DEF GivenTo
  <2>4. Len(obj) = Len(l.fields)
    BY <2>1, <2>2 DEF Sound
  <2>5. Appends(l, obj, i)
    BY <1>1, <2>4 DEF Set, Appends
  <2>6. i \in Leaders(l) /\ i \in 1..Len(l.fields)
    BY <1>1, <2>2
  <2>7. PICK p : p = obj'
    OBVIOUS
  <2>8. Sound(id, l, p)
    BY <1>4, <2>1, <2>3, <2>5, <2>6, <2>7, SetSound
  <2>9. Fitting(id, obj')
    BY <2>1, <2>7, <2>8 DEF Fitting, l
  <2> QED BY <2>9, SetterStep DEF Set
<1> QED BY <1>5, <1>6

\* A setter of a list preserves the invariant.
LEMMA SetListStep ==
  ASSUME IInv, NEW n \in layout.calls, SetList(n)
  PROVE  IInv'
<1> DEFINE l == LayoutOf(id)
           places == (l.head + 1)..(l.head + n * l.entry)
<1>1. layout = l /\ id \in DOMAIN Layouts \cup {"TAG"} /\ Fitting(id, obj)
  BY LayoutIs DEF IInv
<1>2. PICK g : /\ \A j \in places : g[j] \in l.fields[j].args
               /\ obj' = [j \in DOMAIN obj |->
                             IF j \in places THEN g[j]
                             ELSE IF j > l.head THEN "" ELSE obj[j]]
  <2>1. PICK g : /\ \A j \in (layout.head + 1)..(layout.head + n * layout.entry) : g[j] \in Field(j).args
                 /\ obj' = [j \in DOMAIN obj |->
                               IF j \in (layout.head + 1)..(layout.head + n * layout.entry) THEN g[j]
                               ELSE IF j > layout.head THEN "" ELSE obj[j]]
    BY Zenon DEF SetList
  <2>2. \A j : Field(j) = l.fields[j]
    BY <1>1 DEF Field
  <2>3. places = (layout.head + 1)..(layout.head + n * layout.entry) /\ l.head = layout.head
    BY <1>1
  <2> HIDE DEF l, places
  <2> QED BY <2>1, <2>2, <2>3, Zenon
<1> HIDE DEF l
<1>3. ~IsBlock
  <2>1. SUFFICES ASSUME IsBlock PROVE FALSE
    OBVIOUS
  <2>2. l = TagBlock
    BY <1>1, <2>1, LayoutIs DEF l
  <2> QED BY <1>1, <2>2, BlockLayout
<1>4. WellFormed(id, l) /\ id # "TAG" /\ Sound(id, l, obj)
  BY <1>1, <1>3, LayoutIs DEF Fitting, l
<1>5. n \in 0..Most(l)
  BY <1>1, <1>4 DEF WellFormed, SizesFit
<1>6. GivenToList(l, n, g)
  BY <1>2 DEF GivenToList
<1>7. obj' = AfterSetList(l, obj, n, g)
  BY <1>2 DEF AfterSetList
<1>8. PICK p : p = obj'
  OBVIOUS
<1>9. Sound(id, l, p)
  BY <1>4, <1>5, <1>6, <1>7, <1>8, SetListSound
<1>10. Fitting(id, obj')
  BY <1>4, <1>8, <1>9 DEF Fitting, l
<1> QED BY <1>10, SetterStep DEF SetList

\* A setter of a tag block preserves the invariant.
LEMMA SetBlockStep ==
  ASSUME IInv, SetBlock
  PROVE  IInv'
<1>1. id = "TAG" /\ obj \in Blocks
  BY DEF SetBlock, IsBlock, IInv, Fitting
<1>2. DOMAIN obj = 1..7
  BY <1>1, SomeBlock
<1>3. PICK k \in 1..7 : \E t \in SetterArgs(k) : obj' = [obj EXCEPT ![k] = Cut(t)]
  BY <1>2 DEF SetBlock
<1>4. PICK t \in SetterArgs(k) : obj' = [obj EXCEPT ![k] = Cut(t)]
  BY <1>3
<1>5. PICK v : v = Cut(t)
  OBVIOUS
<1>6. v \in Says(k)
  BY <1>5, SetterSays
<1>7. [obj EXCEPT ![k] = v] \in Blocks
  BY <1>1, <1>6 DEF Blocks
<1>8. Fitting(id, obj')
  BY <1>1, <1>4, <1>5, <1>7 DEF Fitting
<1> QED BY <1>8, SetterStep DEF SetBlock

\* Writing preserves the invariant: the line is the object's own.
LEMMA WriteStep ==
  ASSUME IInv, Write
  PROVE  IInv'
<1>1. /\ id \in DOMAIN Layouts \cup {"TAG"} /\ Fitting(id, obj) /\ layout = LayoutOf(id)
      /\ (IsBlock <=> id = "TAG")
  BY LayoutIs DEF IInv
<1>2. line' = TextOfObject(id, obj)
  BY <1>1 DEF Write, TextOfObject
<1>3. Writable(LayoutOf(id), obj)
  BY <1>1 DEF Write
<1>4. line' \in Rows(id)
  <2>1. CASE IsBlock
    <3>1. obj \in Blocks /\ id = "TAG"
      BY <1>1, <2>1 DEF Fitting
    <3>2. WrittenBlock(obj) \in Seq(BlockFields)
      BY <3>1, BlockReadBack
    <3> QED BY <1>2, <3>1, <3>2 DEF Rows, TextOfObject
  <2>2. CASE ~IsBlock
    <3>1. id # "TAG" /\ Sound(id, LayoutOf(id), obj) /\ WellFormed(id, LayoutOf(id))
      BY <1>1, <2>2, LayoutIs DEF Fitting
    <3>2. Written(LayoutOf(id), obj) \in Seq(STRING)
      BY <3>1, WrittenTexts
    <3> QED BY <1>2, <3>1, <3>2 DEF Rows, TextOfObject
  <2> QED BY <2>1, <2>2
<1> QED BY <1>1, <1>2, <1>3, <1>4 DEF IInv, Write

\* A line that is there to be read changes nothing else.
LEMMA ForeignStep ==
  ASSUME IInv, line' \in Rows(id), from = None, phase' = "line", UNCHANGED <<id, obj, from, sets>>
  PROVE  IInv'
BY DEF IInv

\* A line of another program preserves the invariant.
LEMMA ForeignLineStep ==
  ASSUME IInv, ForeignLine
  PROVE  IInv'
<1> DEFINE sizes == UNION {{n - 1, n, n + 1} : n \in layout.sizes}
           good(f) == CHOOSE t \in Texts(f) : t \notin {"", "?"}
           F(i) == IF i \in DOMAIN layout.fields THEN Field(i) ELSE Opt(Number)
<1>1. id \in DOMAIN Layouts \cup {"TAG"}
  BY DEF IInv
<1>2. PICK n \in sizes, full \in BOOLEAN :
        \E i \in 1..n : \E j \in {k \in i..n : k <= i + Reach} :
          \E a \in Texts(F(i)), b \in Texts(F(j)) :
            line' = [k \in 1..n |-> CASE k = i -> a
                                      [] k = j /\ j # i -> b
                                      [] OTHER -> IF full THEN good(F(k)) ELSE ""]
  BY Zenon DEF ForeignLine
<1> HIDE DEF good
<1>3. ~IsBlock
  <2>1. SUFFICES ASSUME IsBlock PROVE FALSE
    OBVIOUS
  <2>2. layout = TagBlock
    BY <1>1, <2>1, LayoutIs
  <2> QED BY <1>2, <2>2, BlockLayout
<1>4. WellFormed(id, layout) /\ id # "TAG"
  BY <1>1, <1>3, LayoutIs
<1>5. \A k \in DOMAIN layout.fields : ValuesFit(id, layout, k)
  BY <1>4, Dims, Fits
<1>6. ASSUME NEW k PROVE Texts(F(k)) \subseteq STRING /\ good(F(k)) \in STRING
  <2>1. Texts(F(k)) \subseteq STRING /\ \E t \in Texts(F(k)) : t \notin {"", "?"}
    <3>1. CASE k \in DOMAIN layout.fields
      <4>1. ValuesFit(id, layout, k) /\ F(k) = layout.fields[k]
        BY <1>5, <3>1 DEF Field
      <4>2. {""} \cup DOMAIN layout.fields[k].type.means \subseteq STRING
        BY <4>1 DEF ValuesFit
      <4>3. \E t \in {""} \cup DOMAIN layout.fields[k].type.means : t \notin {"", "?"}
        BY <4>1 DEF ValuesFit
      <4>4. Texts(F(k)) = {"", "?"} \cup DOMAIN layout.fields[k].type.means
        BY <4>1 DEF Texts
      <4> QED BY <4>2, <4>3, <4>4, TextsAssumption
    <3>2. CASE k \notin DOMAIN layout.fields
      <4>1. Texts(F(k)) = {"", "?"} \cup {"0", "1"}
        BY <3>2 DEF Texts, Opt, Member, Number, Type
      <4>2. "0" \notin {"", "?"}
        OBVIOUS
      <4> QED BY <4>1, <4>2, TextsAssumption
    <3> QED BY <3>1, <3>2
  <2> HIDE DEF F
  <2>2. good(F(k)) \in Texts(F(k))
    BY <2>1 DEF good
  <2> QED BY <2>1, <2>2
<1> HIDE DEF F
<1>15. PICK i \in 1..n :
         \E j \in {k \in i..n : k <= i + Reach} :
          \E a \in Texts(F(i)), b \in Texts(F(j)) :
            line' = [k \in 1..n |-> CASE k = i -> a
                                      [] k = j /\ j # i -> b
                                      [] OTHER -> IF full THEN good(F(k)) ELSE ""]
  BY <1>2, Zenon
<1>16. PICK j :
         \E a \in Texts(F(i)), b \in Texts(F(j)) :
            line' = [k \in 1..n |-> CASE k = i -> a
                                      [] k = j /\ j # i -> b
                                      [] OTHER -> IF full THEN good(F(k)) ELSE ""]
  BY <1>15, Zenon
<1>7. PICK a \in Texts(F(i)), b \in Texts(F(j)) :
        line' = [k \in 1..n |-> CASE k = i -> a
                                  [] k = j /\ j # i -> b
                                  [] OTHER -> IF full THEN good(F(k)) ELSE ""]
  BY <1>16, Zenon
<1>8. a \in STRING /\ b \in STRING /\ "" \in STRING
  BY <1>6, <1>7, TextsAssumption
<1>9. n \in Int
  BY <1>4 DEF WellFormed, SizesFit
<1>10. n \in Nat
  BY <1>9
<1>11. \A k : (CASE k = i -> a [] k = j /\ j # i -> b [] OTHER -> IF full THEN good(F(k)) ELSE "")
                = (IF k = i THEN a ELSE IF k = j THEN b ELSE IF full THEN good(F(k)) ELSE "")
  OBVIOUS
<1>12. line' = [k \in 1..n |-> IF k = i THEN a ELSE IF k = j THEN b ELSE IF full THEN good(F(k)) ELSE ""]
  BY <1>7, <1>11
<1>13. line' \in [1..n -> STRING]
  BY <1>6, <1>8, <1>12
<1>14. line' \in Seq(STRING)
  BY <1>10, <1>13, FunIsSeq
<1> QED BY <1>4, <1>14, ForeignStep DEF ForeignLine, Rows

\* A tag block of another program preserves the invariant.
LEMMA ForeignBlockStep ==
  ASSUME IInv, ForeignBlock
  PROVE  IInv'
<1> DEFINE known == UNION {{<<Keys[k], t>> : t \in DOMAIN Kept(k) \cup {""}} : k \in 1..7}
           any == known \cup {<<"x", "a">>, <<"x", "">>}
<1>1. id = "TAG"
  BY DEF ForeignBlock, IsBlock
<1>2. PICK n \in 0..2 : line' \in [1..n -> any]
  BY DEF ForeignBlock
<1>3. known \subseteq BlockFields
  <2> SUFFICES ASSUME NEW x \in known PROVE x \in BlockFields
    OBVIOUS
  <2>1. PICK k \in 1..7 : x \in {<<Keys[k], t>> : t \in DOMAIN Kept(k) \cup {""}}
    OBVIOUS
  <2>2. PICK t \in DOMAIN Kept(k) \cup {""} : x = <<Keys[k], t>>
    BY <2>1
  <2> QED BY <2>2, FieldOfKey
<1>4. ASSUME NEW t, t = "a" \/ t = "" PROVE <<"x", t>> \in BlockFields
  <2>1. \A k \in 1..7 : Keys[k] # "x"
    <3>1. Keys[1] = "g" /\ Keys[2] = "n" /\ Keys[3] = "r" /\ Keys[4] = "c" /\ Keys[5] = "d"
          /\ Keys[6] = "s" /\ Keys[7] = "t"
      BY DEF Keys
    <3>2. \A k \in 1..7 : k = 1 \/ k = 2 \/ k = 3 \/ k = 4 \/ k = 5 \/ k = 6 \/ k = 7
      OBVIOUS
    <3>3. \A k \in 1..7 : Keys[k] \in {"g", "n", "r", "c", "d", "s", "t"}
      BY <3>1, <3>2
    <3> QED BY <3>3
  <2> QED BY <1>4, <2>1, TextsAssumption DEF BlockFields
<1>5. any \subseteq BlockFields
  BY <1>3, <1>4
<1> HIDE DEF any, known
<1>6. line' \in [1..n -> BlockFields] /\ n \in Nat
  BY <1>2, <1>5
<1>7. line' \in Seq(BlockFields)
  BY <1>6, FunIsSeq
<1> QED BY <1>1, <1>7, ForeignStep DEF ForeignBlock, Rows

\* Reading preserves the invariant: the object is made of the line or refused.
LEMMA ReadStep ==
  ASSUME IInv, Read
  PROVE  IInv'
<1>1. /\ id \in DOMAIN Layouts \cup {"TAG"} /\ line \in Rows(id) /\ Fitting(id, obj)
      /\ layout = LayoutOf(id) /\ (IsBlock <=> id = "TAG")
  BY LayoutIs DEF IInv
<1>2. PICK o \in ReadOf(id, line) : IF o = NoObject THEN phase' = "refused" /\ obj' = obj
                                    ELSE phase' = "object" /\ obj' = o
  <2>1. (IF IsBlock THEN {ReadBlock(line)} ELSE Outcomes(layout, line)) = ReadOf(id, line)
    BY <1>1 DEF ReadOf
  <2> QED BY <2>1 DEF Read
<1>3. UNCHANGED <<id, line, from, sets>>
  BY DEF Read
<1>4. CASE o = NoObject
  <2>1. phase' = "refused" /\ obj' = obj /\ NoObject \in ReadOf(id, line)
    BY <1>2, <1>4
  <2> QED BY <1>3, <2>1 DEF IInv
<1>5. CASE o # NoObject
  <2>1. phase' = "object" /\ obj' = o /\ Fitting(id, o)
    BY <1>1, <1>2, <1>5, ReadFits
  <2> QED BY <1>2, <1>3, <1>5, <2>1 DEF IInv
<1> QED BY <1>4, <1>5

\* The invariant holds whatever is called, written and read: no setter, no
\* reading of a line and no line of another program gets an object into a state
\* its class does not have.
THEOREM ObjectsInvariant == Spec => []IInv
<1>1. ASSUME Init PROVE IInv
  <2>1. /\ id \in DOMAIN Layouts \cup {"TAG"} /\ layout = LayoutOf(id)
        /\ obj = Initial(layout) /\ line = << >> /\ from = << >> /\ phase = "object" /\ sets = 0
    BY <1>1, LayoutIs DEF Init, None
  <2>2. Fitting(id, obj)
    <3>1. CASE IsBlock
      BY <2>1, <3>1, LayoutIs, BlockLayout DEF Fitting
    <3>2. CASE ~IsBlock
      BY <2>1, <3>2, LayoutIs, InitialSound DEF Fitting
    <3> QED BY <3>1, <3>2
  <2>3. line \in Rows(id)
    BY <2>1, EmptySeq DEF Rows
  <2>4. 0 \in 0..MaxSets
    BY BoundsAssumption
  <2> QED BY <2>1, <2>2, <2>3, <2>4 DEF IInv, None
<1>2. ASSUME IInv, [Next]_vars PROVE IInv'
  <2>1. CASE \E i \in Leaders(layout) : Set(i)
    BY <1>2, <2>1, SetStep
  <2>2. CASE \E n \in layout.calls : SetList(n)
    BY <1>2, <2>2, SetListStep
  <2>3. CASE SetBlock
    BY <1>2, <2>3, SetBlockStep
  <2>4. CASE Write
    BY <1>2, <2>4, WriteStep
  <2>5. CASE ForeignLine
    BY <1>2, <2>5, ForeignLineStep
  <2>6. CASE ForeignBlock
    BY <1>2, <2>6, ForeignBlockStep
  <2>7. CASE Read
    BY <1>2, <2>7, ReadStep
  <2>8. CASE UNCHANGED vars
    BY <1>2, <2>8 DEF IInv, vars
  <2> QED BY <1>2, <2>1, <2>2, <2>3, <2>4, <2>5, <2>6, <2>7, <2>8 DEF Next
<1> QED BY <1>1, <1>2, PTL DEF Spec

\* Every member has a value of its type, and only optional members and texts are
\* unset, whatever has been set or read.
THEOREM ObjectsTypeOK == Spec => []TypeOK
<1>1. ASSUME IInv PROVE TypeOK
  <2>1. id \in DOMAIN Layouts \cup {"TAG"} /\ layout = LayoutOf(id)
    BY <1>1, LayoutIs DEF IInv
  <2>2. CASE IsBlock
    <3>1. id = "TAG" /\ obj \in Blocks /\ layout = TagBlock /\ line \in Seq(BlockFields)
          /\ (from # None => from \in Blocks)
      BY <1>1, <2>1, <2>2, LayoutIs DEF IInv, Fitting, Rows
    <3>2. DOMAIN obj = 1..7 /\ DOMAIN layout.fields = 1..7 /\ (from # None => DOMAIN from = 1..7)
      BY <3>1, BlockLayout, SomeBlock
    <3>3. ASSUME NEW k \in 1..7 PROVE MayBe(Field(k), obj[k])
      <4>1. obj[k] \in Says(k) /\ DOMAIN Field(k).type.says = Says(k)
        BY <3>1, BlockLayout DEF Blocks, Field
      <4> QED BY <4>1 DEF MayBe
    <3>4. line \in Seq(STRING \X STRING)
      <4>1. BlockFields \subseteq STRING \X STRING
        BY DEF BlockFields
      <4>2. DOMAIN line = 1..Len(line) /\ Len(line) \in Nat /\ line \in [1..Len(line) -> BlockFields]
        BY <3>1, LenProperties
      <4>3. line \in [1..Len(line) -> STRING \X STRING]
        BY <4>1, <4>2
      <4> QED BY <4>2, <4>3, FunIsSeq
    <3> QED BY <1>1, <2>2, <3>2, <3>3, <3>4 DEF TypeOK, IInv
  <2>3. CASE ~IsBlock
    <3>1. PICK l : l = layout
      OBVIOUS
    <3>2. id # "TAG" /\ WellFormed(id, l) /\ Sound(id, l, obj) /\ line \in Seq(STRING)
          /\ (from # None => Sound(id, l, from))
      BY <1>1, <2>1, <2>3, <3>1, LayoutIs DEF IInv, Fitting, Rows
    <3>3. DOMAIN l.fields = 1..Len(l.fields)
      BY <3>2, Dims
    <3>4. DOMAIN obj = DOMAIN l.fields /\ (from # None => DOMAIN from = DOMAIN l.fields)
      BY <3>2, <3>3 DEF Sound
    <3>5. ASSUME NEW i \in 1..Len(l.fields) PROVE MayBe(l.fields[i], obj[i])
      <4>1. HoldsHere(l, obj, i)
        BY <3>2 DEF Sound, SoundHere, ValidHere
      <4>2. EntriesFit(l, i)
        BY <3>2, Fits
      <4>3. CASE obj[i] \in Holds(l, i)
        BY <4>3 DEF Holds, MayBe
      <4>4. CASE obj[i] = "" /\ l.fields[i].part = "unread"
        BY <4>4 DEF MayBe
      <4>5. CASE obj[i] = "" /\ i > l.head
        BY <4>2, <4>5 DEF MayBe, EntriesFit
      <4> QED BY <4>1, <4>3, <4>4, <4>5 DEF HoldsHere
    <3> QED BY <1>1, <2>3, <3>1, <3>2, <3>3, <3>4, <3>5 DEF TypeOK, IInv, Field
  <2> QED BY <2>2, <2>3
<1> QED BY <1>1, ObjectsInvariant, PTL

\* The sign of an angle and its hemisphere agree whatever was set or read.
THEOREM PositionAlwaysAgrees == Spec => []PositionAgrees
<1>1. ASSUME IInv PROVE PositionAgrees
  <2>1. id \in DOMAIN Layouts \cup {"TAG"} /\ layout = LayoutOf(id)
    BY <1>1, LayoutIs DEF IInv
  <2>2. CASE IsBlock
    <3>1. obj \in Blocks /\ layout = TagBlock
      BY <1>1, <2>1, <2>2, LayoutIs DEF IInv, Fitting
    <3>2. \A i \in DOMAIN obj : Field(i).part = "member"
      BY <3>1, BlockLayout, SomeBlock DEF Field
    <3> QED BY <3>2 DEF PositionAgrees
  <2>3. CASE ~IsBlock
    <3>1. PICK l : l = layout
      OBVIOUS
    <3>2. Sound(id, l, obj)
      BY <1>1, <2>1, <2>3, <3>1, LayoutIs DEF IInv, Fitting
    <3>3. DOMAIN obj = 1..Len(l.fields)
      BY <3>2 DEF Sound
    <3>4. \A i \in 1..Len(l.fields) : SideHere(l, obj, i)
      BY <3>2 DEF Sound, SoundHere, ValidHere
    <3> QED BY <3>1, <3>3, <3>4 DEF PositionAgrees, SideHere, Field
  <2> QED BY <2>2, <2>3
<1> QED BY <1>1, ObjectsInvariant, PTL

\* The parsing constructor takes every line append_data_to writes, but for what is
\* Unreadable, and gives the object that has written it.
THEOREM OwnLineIsReadBack == Spec => []OwnLineReadBack
<1>1. ASSUME IInv PROVE OwnLineReadBack
  <2> SUFFICES ASSUME from # None
               PROVE  /\ phase = "refused" => Unreadable(from)
                      /\ phase = "object" =>
                           LET shown == IF IsBlock THEN from ELSE Named(layout, Shown(layout, from))
                           IN  \/ \A i \in DOMAIN obj :
                                    \/ obj[i] = shown[i]
                                    \/ Loses(Field(i), shown[i]) /\ obj[i] \in Left(Field(i))
                               \/ IsBlock /\ "a,s:b" \in ToSet(from)
    <3>1. "refused" # "object"
      OBVIOUS
    <3> QED BY <3>1, Zenon DEF OwnLineReadBack
  <2>1. /\ id \in DOMAIN Layouts \cup {"TAG"} /\ layout = LayoutOf(id) /\ (IsBlock <=> id = "TAG")
        /\ Fitting(id, from) /\ Fitting(id, obj) /\ line = TextOfObject(id, from)
        /\ Writable(layout, from)
        /\ phase = "object" => obj \in ReadOf(id, line) /\ obj # NoObject
        /\ phase = "refused" => NoObject \in ReadOf(id, line)
    BY <1>1, LayoutIs DEF IInv
  <2>2. CASE IsBlock
    <3>1. from \in Blocks /\ obj \in Blocks /\ line = WrittenBlock(from)
          /\ ReadOf(id, line) = {ReadBlock(line)}
      BY <2>1, <2>2 DEF Fitting, TextOfObject, ReadOf
    <3>2. ReadBlock(line) = IF line = << >> THEN NoObject ELSE ReadAll(line)
      BY DEF ReadBlock, ReadAll
    <3>3. /\ (\E k \in 1..7 : from[k] = "a*b") => ReadAll(line) = NoObject
          /\ (\A k \in 1..7 : from[k] # "a*b") => ReadAll(line) # NoObject
          /\ (\A k \in 1..7 : from[k] \notin {"a,s:b", "a*b"}) => ReadAll(line) = from
      BY <3>1, BlockReadBack
    <3>4. \A k \in 1..7 : from[k] \in ToSet(from)
      BY <3>1, SomeBlock DEF ToSet
    <3>5. ASSUME phase = "refused" PROVE Unreadable(from)
      <4>1. ReadBlock(line) = NoObject
        BY <2>1, <3>1, <3>5
      <4>2. CASE line = << >>
        BY <2>2, <3>1, <4>2 DEF Unreadable
      <4>3. CASE ReadAll(line) = NoObject
        <5>1. PICK k \in 1..7 : from[k] = "a*b"
          BY <3>3, <4>3
        <5> QED BY <2>2, <3>4, <5>1 DEF Unreadable
      <4> QED BY <3>2, <4>1, <4>2, <4>3
    <3>6. ASSUME phase = "object", "a,s:b" \notin ToSet(from) PROVE obj = from
      <4>1. obj = ReadAll(line) /\ obj # NoObject
        BY <2>1, <3>1, <3>2, <3>6
      <4>2. \A k \in 1..7 : from[k] \notin {"a,s:b", "a*b"}
        BY <3>3, <3>4, <3>6, <4>1
      <4> QED BY <3>3, <4>1, <4>2
    <3> QED BY <2>2, <3>5, <3>6
  <2>3. CASE ~IsBlock
    <3>1. PICK l, w, nm : l = layout /\ w = line /\ nm = Named(l, Shown(l, from))
      OBVIOUS
    <3>2. /\ WellFormed(id, l) /\ Sound(id, l, from) /\ Sound(id, l, obj) /\ w = Written(l, from)
          /\ Writable(l, from) /\ ReadOf(id, line) = Outcomes(l, w)
      BY <2>1, <2>3, <3>1, LayoutIs DEF Fitting, TextOfObject, ReadOf
    <3>3. DOMAIN from = 1..Len(l.fields) /\ DOMAIN obj = 1..Len(l.fields)
      BY <3>2 DEF Sound
    <3>4. ASSUME phase = "refused" PROVE Unreadable(from)
      <4>1. NoObject \in Outcomes(l, w)
        BY <2>1, <3>2, <3>4
      <4>2. Odd(id, l, from)
        BY <3>2, <4>1, ReadBackIs
      <4> QED BY <3>1, <3>3, <4>2 DEF Odd, Unreadable, Field
    <3>5. ASSUME phase = "object"
          PROVE  \A i \in DOMAIN obj :
                    \/ obj[i] = nm[i]
                    \/ Loses(Field(i), nm[i]) /\ obj[i] \in Left(Field(i))
      <4>1. obj \in Outcomes(l, w) /\ obj # NoObject
        BY <2>1, <3>2, <3>5
      <4>2. \A i \in 1..Len(l.fields) : BackHere(l, Named(l, Shown(l, from)), obj, i)
        BY <3>2, <4>1, ReadBackIs
      <4> QED BY <3>1, <3>3, <4>2 DEF BackHere, Field
    <3> QED BY <2>3, <3>1, <3>4, <3>5
  <2> QED BY <2>2, <2>3
<1> QED BY <1>1, ObjectsInvariant, PTL

\* What another program has sent is refused or kept, but for what is Overlooked;
\* of the fields of a tag block with the same key the last one is kept.
THEOREM NothingIsDropped == Spec => []NothingDropped
<1>1. ASSUME IInv PROVE NothingDropped
  <2> SUFFICES ASSUME phase = "object", line # None, from = None
               PROVE  IF IsBlock THEN BlockKept
                      ELSE \A i \in DOMAIN line : line[i] # "" =>
                             \/ /\ Place(i) \in DOMAIN Written(layout, obj)
                                /\ Written(layout, obj)[Place(i)] # ""
                             \/ Overlooked(i)
    BY Zenon DEF NothingDropped
  <2>1. /\ id \in DOMAIN Layouts \cup {"TAG"} /\ layout = LayoutOf(id) /\ (IsBlock <=> id = "TAG")
        /\ Fitting(id, obj) /\ line \in Rows(id) /\ obj \in ReadOf(id, line) /\ obj # NoObject
    BY <1>1, LayoutIs DEF IInv
  <2>2. CASE IsBlock
    <3>1. line \in Seq(BlockFields) /\ obj \in Blocks /\ obj = ReadBlock(line)
      BY <2>1, <2>2 DEF Fitting, Rows, ReadOf
    <3>2. obj = ReadAll(line) /\ DOMAIN line = 1..Len(line)
      BY <2>1, <3>1, LenProperties DEF ReadBlock, ReadAll
    <3>3. AllKept(line, obj)
      BY <2>1, <3>1, <3>2, LastKept
    <3>4. ASSUME NEW i \in 1..Len(line), line[i][2] \notin {"", "0"},
                 ~\E j \in (i + 1)..Len(line) : line[j][1] = line[i][1]
          PROVE  line[i][1] \in {f[1] : f \in ToSet(WrittenBlock(obj))}
      <4>1. PICK k \in 1..7 :
              /\ Keys[k] = line[i][1] /\ line[i][2] \in DOMAIN Kept(k) /\ Kept(k)[line[i][2]] # Refuse
              /\ obj[k] = Kept(k)[line[i][2]]
        BY <3>3, <3>4 DEF AllKept
      <4>2. Valid(k, obj[k])
        BY <3>4, <4>1, KeptIn
      <4> QED BY <3>1, <4>1, <4>2, KeyWritten
    <3>5. BlockKept
      BY <3>2, <3>4 DEF BlockKept
    <3> QED BY <2>2, <3>5
  <2>3. CASE ~IsBlock
    <3>1. PICK l, row, o : l = layout /\ row = line /\ o = obj
      OBVIOUS
    <3>2. /\ WellFormed(id, l) /\ row \in Seq(STRING) /\ o \in Outcomes(l, row) /\ o # NoObject
      BY <2>1, <2>3, <3>1, LayoutIs DEF Rows, ReadOf
    <3>3. DOMAIN row = 1..Len(row)
      BY <3>2, LenProperties
    <3>4. ASSUME NEW i \in DOMAIN line, line[i] # ""
          PROVE  \/ /\ Place(i) \in DOMAIN Written(layout, obj)
                    /\ Written(layout, obj)[Place(i)] # ""
                 \/ Overlooked(i)
      <4>1. Filled(row, i)
        BY <3>1, <3>3, <3>4 DEF Filled
      <4>2. KeptAt(l, o, PlaceIn(l, row, i)) \/ MissedIn(id, l, row, o, i)
        BY <3>2, <4>1, KeptIs
      <4>3. Place(i) = PlaceIn(l, row, i)
        BY <3>1 DEF Place, PlaceIn, EmptyBefore
      <4>4. CASE KeptAt(l, o, PlaceIn(l, row, i))
        BY <3>1, <4>3, <4>4 DEF KeptAt
      <4>5. CASE MissedIn(id, l, row, o, i)
        BY <3>1, <4>5 DEF MissedIn, Overlooked, Field
      <4> QED BY <4>2, <4>4, <4>5
    <3> QED BY <2>3, <3>4
  <2> QED BY <2>2, <2>3
<1> QED BY <1>1, ObjectsInvariant, PTL

=============================================================================
