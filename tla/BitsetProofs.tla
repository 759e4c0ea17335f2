---------------------------- MODULE BitsetProofs ----------------------------
(***************************************************************************)
(* Theorems about Bitset, for blocks of any size and any set of calls: the *)
(* vector holds whole blocks, enough for the bits, with zeros behind them, *)
(* and every call that keeps to Proper does what its documentation says    *)
(* (BitString).  What a call leaves in the vector is stated by one lemma   *)
(* for each operator of Bitset; the calls made of a loop (append and set   *)
(* of a set, the shifts, get, the range) rest on the facts about folds and *)
(* FlattenSeq in RecursionFacts.                                           *)
(***************************************************************************)
EXTENDS Bitset, RecursionFacts, FiniteSetTheorems, FunctionTheorems

-----------------------------------------------------------------------------
\* Sizes of whole blocks.
Whole == {n \in Nat : n % BITS = 0}

\* A number of blocks is a whole number of bits, and the other way round.
LEMMA WholeIs ==
  ASSUME NEW n \in Nat
  PROVE  n % BITS = 0 <=> \E k \in Nat : n = k * BITS
<1>1. BITS \in Nat \ {0}
  BY BitsAssumption
<1>2. ASSUME n % BITS = 0 PROVE \E k \in Nat : n = k * BITS
  <2>1. n \div BITS \in Nat /\ n = (n \div BITS) * BITS
    BY <1>1, <1>2
  <2> QED
    BY <2>1
<1>3. ASSUME NEW k \in Nat, n = k * BITS PROVE n % BITS = 0
  <2> DEFINE q == n \div BITS
             r == n % BITS
  <2>1. q \in Nat /\ r \in 0..(BITS - 1) /\ n = q * BITS + r
    BY <1>1
  <2> HIDE DEF q, r
  <2>2. (k - q) * BITS = r
    BY <1>1, <1>3, <2>1
  <2>3. k - q >= 1 => (k - q) * BITS >= BITS
    BY <1>1, <2>1
  <2>4. k - q <= -1 => (k - q) * BITS <= -BITS
    BY <1>1, <2>1
  <2>5. k - q = 0
    BY <1>1, <2>1, <2>2, <2>3, <2>4
  <2>6. r = 0
    BY <1>1, <2>2, <2>5
  <2> QED
    BY <2>6 DEF r
<1> QED
  BY <1>2, <1>3

\* Where the block of a bit begins.
LEMMA BlockFacts ==
  ASSUME NEW p \in Nat
  PROVE  /\ BlockStart(p) \in Whole
         /\ BlockStart(p) <= p /\ p < BlockStart(p) + BITS
         /\ p % BITS = p - BlockStart(p)
         /\ BITS \in Nat \ {0}
<1>1. BITS \in Nat \ {0}
  BY BitsAssumption
<1>2. p \div BITS \in Nat /\ p % BITS \in 0..(BITS - 1) /\ p = ((p \div BITS) * BITS) + (p % BITS)
  BY <1>1
<1>3. BlockStart(p) \in Nat /\ BlockStart(p) = p - (p % BITS)
  BY <1>1, <1>2 DEF BlockStart
<1>4. BlockStart(p) % BITS = 0
  BY <1>2, <1>3, WholeIs DEF BlockStart
<1> QED
  BY <1>1, <1>2, <1>3, <1>4 DEF Whole

\* No multiple of the block size lies inside of a block.
LEMMA WholeApart ==
  ASSUME NEW m \in Whole, NEW n \in Whole, m < n
  PROVE  m + BITS <= n
<1>1. BITS \in Nat \ {0}
  BY BitsAssumption
<1>2. PICK i \in Nat : m = i * BITS
  BY WholeIs DEF Whole
<1>3. PICK j \in Nat : n = j * BITS
  BY WholeIs DEF Whole
<1>4. i < j
  <2>1. i >= j => i * BITS >= j * BITS
    BY <1>1
  <2> QED
    BY <1>2, <1>3, <2>1
<1>5. (i + 1) * BITS <= j * BITS
  BY <1>1, <1>4
<1> QED
  BY <1>1, <1>2, <1>3, <1>5

\* Sums and differences of whole blocks.
LEMMA WholeSum ==
  ASSUME NEW m \in Whole, NEW n \in Whole
  PROVE  /\ m + n \in Whole
         /\ n <= m => m - n \in Whole
         /\ BITS \in Whole /\ 0 \in Whole
<1>1. BITS \in Nat \ {0}
  BY BitsAssumption
<1>2. PICK i \in Nat : m = i * BITS
  BY WholeIs DEF Whole
<1>3. PICK j \in Nat : n = j * BITS
  BY WholeIs DEF Whole
<1>4. m + n \in Nat /\ m + n = (i + j) * BITS /\ i + j \in Nat
  BY <1>1, <1>2, <1>3 DEF Whole
<1>5. ASSUME n <= m PROVE m - n \in Whole
  <2>1. j <= i
    <3>1. j > i => j * BITS > i * BITS
      BY <1>1
    <3> QED
      BY <1>2, <1>3, <1>5, <3>1
  <2>2. m - n \in Nat /\ m - n = (i - j) * BITS /\ i - j \in Nat
    BY <1>1, <1>2, <1>3, <1>5, <2>1 DEF Whole
  <2> QED
    BY <2>2, WholeIs DEF Whole
<1>6. BITS = 1 * BITS /\ 0 = 0 * BITS /\ 1 \in Nat /\ 0 \in Nat
  BY <1>1
<1> QED
  BY <1>1, <1>4, <1>5, <1>6, WholeIs DEF Whole

\* The end of the blocks that p bits need.
LEMMA UpFacts ==
  ASSUME NEW p \in Nat
  PROVE  /\ Up(p) \in Whole
         /\ p <= Up(p) /\ Up(p) < p + BITS
         /\ \A n \in Whole : p <= n => Up(p) <= n
<1>1. BITS \in Nat \ {0}
  BY BitsAssumption
<1>2. p + BITS - 1 \in Nat
  BY <1>1
<1>3. /\ Up(p) \in Whole /\ Up(p) <= p + BITS - 1 /\ p + BITS - 1 < Up(p) + BITS
  BY <1>2, BlockFacts DEF Up
<1>4. ASSUME NEW n \in Whole, p <= n PROVE Up(p) <= n
  <2>1. n < Up(p) => n + BITS <= Up(p)
    BY <1>3, WholeApart
  <2> QED
    BY <1>1, <1>3, <1>4, <2>1 DEF Whole
<1> QED
  BY <1>1, <1>3, <1>4 DEF Whole

-----------------------------------------------------------------------------
\* A vector of blocks with p bits of a set in it, zero behind them.
Bin == {0, 1}
Good(d, p) ==
  /\ d \in Seq(Bin)
  /\ Len(d) \in Whole
  /\ p \in 0..Len(d)
  /\ \A i \in (p + 1)..Len(d) : d[i] = 0

\* A function on the first numbers is a sequence.
LEMMA BinSeq ==
  ASSUME NEW n \in Nat, NEW f \in [1..n -> Bin]
  PROVE  f \in Seq(Bin) /\ Len(f) = n /\ DOMAIN f = 1..n
  OBVIOUS

\* The other way round.
LEMMA BinFun ==
  ASSUME NEW s \in Seq(Bin)
  PROVE  /\ Len(s) \in Nat /\ DOMAIN s = 1..Len(s) /\ s \in [1..Len(s) -> Bin]
         /\ \A i \in 1..Len(s) : s[i] \in Bin
  BY LenProperties

\* One string behind another.
LEMMA Concat ==
  ASSUME NEW s \in Seq(Bin), NEW t \in Seq(Bin), NEW k \in Nat, k = Len(t)
  PROVE  /\ s \o t \in Seq(Bin) /\ Len(s \o t) = Len(s) + k
         /\ \A i \in 1..(Len(s) + k) : (s \o t)[i] = IF i <= Len(s) THEN s[i] ELSE t[i - Len(s)]
  BY ConcatProperties

\* extend() adds blocks of zeros.
LEMMA ExtendedFacts ==
  ASSUME NEW d, NEW p, Good(d, p), NEW n \in Nat
  PROVE  /\ Extended(d, p, n) \in Seq(Bin)
         /\ Len(Extended(d, p, n)) = Larger(Len(d), Up(p + n))
         /\ Len(Extended(d, p, n)) \in Whole
         /\ p + n <= Len(Extended(d, p, n)) /\ Len(d) <= Len(Extended(d, p, n))
         /\ \A i \in 1..Len(d) : Extended(d, p, n)[i] = d[i]
         /\ \A i \in (p + 1)..Len(Extended(d, p, n)) : Extended(d, p, n)[i] = 0
         /\ Good(Extended(d, p, n), p)
<1> DEFINE e == Extended(d, p, n)
           k == Larger(Up(p + n) - Len(d), 0)
           z == S!Zeros(k)
<1>1. d \in Seq(Bin) /\ Len(d) \in Whole /\ Len(d) \in Nat /\ p \in Nat /\ p <= Len(d)
  BY BinFun DEF Good
<1>2. Up(p + n) \in Whole /\ Up(p + n) \in Nat /\ p + n <= Up(p + n)
  BY <1>1, UpFacts DEF Whole
<1>3. k \in Nat /\ Len(d) + k = Larger(Len(d), Up(p + n))
  BY <1>1, <1>2 DEF Larger
<1> HIDE DEF k
<1>4. z \in [1..k -> Bin] /\ \A i \in 1..k : z[i] = 0
  BY DEF S!Zeros, Bin
<1>5. z \in Seq(Bin) /\ Len(z) = k
  BY <1>3, <1>4, BinSeq
<1> HIDE DEF z
<1>6. e = d \o z
  BY DEF Extended, k, z
<1>7. /\ e \in Seq(Bin) /\ Len(e) = Len(d) + k
      /\ \A i \in 1..(Len(d) + k) : e[i] = IF i <= Len(d) THEN d[i] ELSE z[i - Len(d)]
  BY <1>1, <1>3, <1>5, <1>6, Concat
<1> HIDE DEF e
<1>8. Len(e) \in Whole
  BY <1>1, <1>2, <1>3, <1>7 DEF Larger
<1>9. \A i \in 1..Len(d) : e[i] = d[i]
  BY <1>1, <1>3, <1>7
<1>10. ASSUME NEW i \in (p + 1)..Len(e) PROVE e[i] = 0
  <2>1. i \in Nat /\ i >= 1 /\ i \in 1..(Len(d) + k)
    BY <1>1, <1>3, <1>7
  <2>2. CASE i <= Len(d)
    BY <1>1, <1>9, <2>1, <2>2 DEF Good
  <2>3. CASE i > Len(d)
    <3>1. i - Len(d) \in 1..k
      BY <1>1, <1>3, <2>1, <2>3
    <3> QED
      BY <1>1, <1>4, <1>7, <2>1, <2>3, <3>1
  <2> QED
    BY <1>1, <2>1, <2>2, <2>3
<1>11. Len(e) = Larger(Len(d), Up(p + n)) /\ p + n <= Len(e) /\ Len(d) <= Len(e) /\ p \in 0..Len(e)
  BY <1>1, <1>2, <1>3, <1>7 DEF Larger
<1>12. Good(e, p)
  BY <1>7, <1>8, <1>10, <1>11 DEF Good
<1> QED
  BY <1>7, <1>8, <1>9, <1>10, <1>11, <1>12 DEF e

\* The vector set_impl() writes to, extended or not.
LEMMA RoomFacts ==
  ASSUME NEW d, NEW p, Good(d, p), NEW n \in Nat, NEW e, e \in {d, Extended(d, p, n)}
  PROVE  /\ Len(e) \in Whole /\ p <= Len(e)
         /\ \A i \in 1..p : e[i] = d[i]
         /\ \A i \in (p + 1)..Len(e) : e[i] = 0
<1>1. Len(d) \in Whole /\ Len(d) \in Nat /\ p \in Nat /\ p <= Len(d)
      /\ \A i \in (p + 1)..Len(d) : d[i] = 0
  BY DEF Good, Whole
<1> DEFINE f == Extended(d, p, n)
<1>2. /\ Len(f) \in Whole /\ Len(f) \in Nat /\ Len(d) <= Len(f)
      /\ \A i \in 1..Len(d) : f[i] = d[i]
      /\ \A i \in (p + 1)..Len(f) : f[i] = 0
  BY <1>1, ExtendedFacts DEF Whole
<1>3. e = d \/ e = f
  OBVIOUS
<1> HIDE DEF f
<1>4. \A i \in 1..p : i \in 1..Len(d)
  BY <1>1
<1> QED
  BY <1>1, <1>2, <1>3, <1>4

\* append() of a value of bits: nothing behind them changes, and if the value has
\* nothing above them, nothing before.
LEMMA AppendedFacts ==
  ASSUME NEW d, NEW p, Good(d, p), NEW v \in Seq(Bin), NEW bits \in 1..Len(v)
  PROVE  /\ Good(Appended(d, p, v, bits), p + bits)
         /\ (\A i \in 1..(Len(v) - bits) : v[i] = 0) =>
              \A i \in 1..(p + bits) :
                Appended(d, p, v, bits)[i] = IF i <= p THEN d[i] ELSE v[(Len(v) - bits) + (i - p)]
<1> DEFINE e == Extended(d, p, bits)
           n == bits % BITS
           from == IF n = 0 THEN p ELSE Larger(BlockStart(p), p + n - BITS)
           At(q) == Len(v) - (p + bits - 1 - q)
           Digit(q) == IF At(q) >= 1 THEN v[At(q)] ELSE 0
           a == Appended(d, p, v, bits)
<1>1. /\ p \in Nat /\ bits \in Nat /\ bits >= 1 /\ Len(v) \in Nat /\ bits <= Len(v)
      /\ d \in Seq(Bin) /\ Len(d) \in Nat /\ p <= Len(d)
      /\ BITS \in Nat \ {0}
  BY BinFun, BitsAssumption DEF Good
<1>2. /\ e \in Seq(Bin) /\ Len(e) \in Whole /\ p + bits <= Len(e) /\ Len(d) <= Len(e)
      /\ \A i \in 1..Len(d) : e[i] = d[i]
      /\ \A i \in (p + 1)..Len(e) : e[i] = 0
  BY <1>1, ExtendedFacts
<1>3. n \in 0..(BITS - 1) /\ BlockStart(p) \in Nat /\ BlockStart(p) <= p
  <2>1. bits % BITS \in 0..(BITS - 1)
    BY <1>1
  <2>2. BlockStart(p) \in Nat /\ BlockStart(p) <= p
    BY <1>1, BlockFacts DEF Whole
  <2> QED
    BY <2>1, <2>2
<1> HIDE DEF n, e
<1>4. from \in Nat /\ from <= p
  BY <1>1, <1>3 DEF Larger
<1> HIDE DEF from
<1>5. DOMAIN e = 1..Len(e) /\ Len(e) \in Nat /\ \A i \in 1..Len(e) : e[i] \in Bin
  BY <1>2, BinFun
<1>6. a = [i \in 1..Len(e) |->
             IF i - 1 \in from..(p + bits - 1) THEN S!OrBit(e[i], Digit(i - 1)) ELSE e[i]]
  BY <1>5 DEF Appended, e, n, from
<1>7. \A x, y \in Bin : S!OrBit(x, y) \in Bin /\ S!OrBit(0, y) = y /\ S!OrBit(x, 0) = x
  BY DEF S!OrBit, Bin
<1>8. ASSUME NEW i \in 1..Len(e), i - 1 \in from..(p + bits - 1)
      PROVE  /\ Digit(i - 1) \in Bin
             /\ i > p => Digit(i - 1) = v[(Len(v) - bits) + (i - p)]
             /\ i <= p /\ (\A j \in 1..(Len(v) - bits) : v[j] = 0) => Digit(i - 1) = 0
  <2> DEFINE k == At(i - 1)
  <2>1. k \in Int /\ k <= Len(v) /\ k = (Len(v) - bits) + (i - p)
    BY <1>1, <1>4, <1>5, <1>8
  <2>2. i > p => k >= 1
    BY <1>1, <1>5, <2>1
  <2>3. i <= p => k <= Len(v) - bits
    BY <1>1, <1>5, <2>1
  <2>4. Digit(i - 1) = IF k >= 1 THEN v[k] ELSE 0
    OBVIOUS
  <2> HIDE DEF k, Digit
  <2>5. k >= 1 => k \in 1..Len(v) /\ v[k] \in Bin
    BY <1>1, <2>1, BinFun
  <2>6. Digit(i - 1) \in Bin
    BY <2>4, <2>5 DEF Bin
  <2>7. i <= p /\ k >= 1 => k \in 1..(Len(v) - bits)
    BY <1>1, <2>1, <2>3
  <2> QED
    BY <2>1, <2>2, <2>4, <2>6, <2>7
<1> HIDE DEF a, Digit
<1>9. a \in [1..Len(e) -> Bin]
  <2>1. ASSUME NEW i \in 1..Len(e)
        PROVE  (IF i - 1 \in from..(p + bits - 1) THEN S!OrBit(e[i], Digit(i - 1)) ELSE e[i]) \in Bin
    BY <1>5, <1>7, <1>8
  <2> QED
    BY <1>6, <2>1
<1>10. a \in Seq(Bin) /\ Len(a) = Len(e)
  BY <1>5, <1>9, BinSeq
<1>11. ASSUME NEW i \in (p + bits + 1)..Len(a) PROVE a[i] = 0
  <2>1. i \in 1..Len(e) /\ i - 1 \notin from..(p + bits - 1) /\ i \in (p + 1)..Len(e)
    BY <1>1, <1>4, <1>5, <1>10, <1>11
  <2> QED
    BY <1>2, <1>6, <2>1
<1>12. Good(a, p + bits)
  <2>1. p + bits \in 0..Len(a)
    BY <1>1, <1>2, <1>5, <1>10
  <2> QED
    BY <1>2, <1>10, <1>11, <2>1 DEF Good
<1>13. ASSUME \A i \in 1..(Len(v) - bits) : v[i] = 0, NEW i \in 1..(p + bits)
       PROVE  a[i] = IF i <= p THEN d[i] ELSE v[(Len(v) - bits) + (i - p)]
  <2>1. i \in 1..Len(e) /\ i \in Nat
    BY <1>1, <1>2, <1>5
  <2>2. CASE i <= p
    <3>1. e[i] = d[i]
      BY <1>1, <1>2, <2>1, <2>2
    <3>2. i - 1 \in from..(p + bits - 1) => S!OrBit(e[i], Digit(i - 1)) = e[i]
      BY <1>5, <1>7, <1>8, <1>13, <2>1, <2>2
    <3> QED
      BY <1>6, <2>1, <2>2, <3>1, <3>2
  <2>3. CASE i > p
    <3>1. e[i] = 0 /\ i - 1 \in from..(p + bits - 1)
      BY <1>1, <1>2, <1>4, <1>5, <2>1, <2>3
    <3>2. Digit(i - 1) = v[(Len(v) - bits) + (i - p)] /\ Digit(i - 1) \in Bin
      BY <1>8, <2>1, <2>3, <3>1
    <3>3. a[i] = Digit(i - 1)
      BY <1>6, <1>7, <2>1, <3>1, <3>2
    <3> QED
      BY <1>1, <2>1, <2>3, <3>2, <3>3
  <2> QED
    BY <1>1, <2>1, <2>2, <2>3
<1> QED
  BY <1>12, <1>13 DEF a

-----------------------------------------------------------------------------
\* get_block() of bits that are there.
LEMMA GetBlockFacts ==
  ASSUME NEW d \in Seq(Bin), NEW ofs \in Nat, NEW n \in Nat, ofs + n <= Len(d)
  PROVE  /\ GetBlock(d, ofs, n) \in [1..n -> Bin]
         /\ (ofs % BITS) + n <= BITS =>
              \A i \in 1..n : GetBlock(d, ofs, n)[i] = d[ofs + i]
<1> DEFINE u == BITS - (ofs % BITS)
           Dropped(i) == i > u /\ (i - u) + (n - u) > BITS
<1>1. GetBlock(d, ofs, n) = [i \in 1..n |-> IF Dropped(i) THEN 0 ELSE d[ofs + i]]
  BY DEF GetBlock
<1>2. \A i \in 1..n : ofs + i \in 1..Len(d) /\ d[ofs + i] \in Bin
  BY BinFun
<1> HIDE DEF Dropped
<1>3. BITS \in Nat \ {0} /\ ofs % BITS \in 0..(BITS - 1)
  <2>1. BITS \in Nat \ {0}
    BY BitsAssumption
  <2> QED
    BY <2>1
<1>4. (ofs % BITS) + n <= BITS => \A i \in 1..n : ~Dropped(i)
  BY <1>3 DEF Dropped
<1> QED
  BY <1>1, <1>2, <1>4 DEF Bin

\* A string written over another one.
LEMMA OverwrittenFacts ==
  ASSUME NEW d \in Seq(Bin), NEW ofs \in Nat, NEW v \in Seq(Bin)
  PROVE  /\ S!Overwritten(d, ofs, v) \in Seq(Bin)
         /\ Len(S!Overwritten(d, ofs, v)) = Larger(Len(d), ofs + Len(v))
         /\ \A i \in 1..Larger(Len(d), ofs + Len(v)) :
              S!Overwritten(d, ofs, v)[i] =
                IF i \in (ofs + 1)..(ofs + Len(v)) THEN v[i - ofs]
                ELSE IF i <= Len(d) THEN d[i] ELSE 0
<1> DEFINE m == Len(d)
           n == ofs + Len(v)
           E(i) == IF i \in (ofs + 1)..n THEN v[i - ofs] ELSE IF i <= m THEN d[i] ELSE 0
           o == S!Overwritten(d, ofs, v)
<1>1. Len(d) \in Nat /\ Len(v) \in Nat
  BY BinFun
<1>2. Larger(m, n) \in Nat
  BY <1>1 DEF Larger
<1>3. o = [i \in 1..Larger(m, n) |-> E(i)]
  BY DEF S!Overwritten, Larger
<1>4. ASSUME NEW i \in 1..Larger(m, n) PROVE E(i) \in Bin
  <2>1. i \in (ofs + 1)..n => v[i - ofs] \in Bin
    BY <1>1, <1>2, BinFun
  <2>2. i <= m => d[i] \in Bin
    BY <1>1, <1>2, BinFun
  <2> QED
    BY <2>1, <2>2 DEF Bin
<1> HIDE DEF E, o
<1>5. o \in [1..Larger(m, n) -> Bin] /\ \A i \in 1..Larger(m, n) : o[i] = E(i)
  BY <1>3, <1>4
<1>6. o \in Seq(Bin) /\ Len(o) = Larger(m, n)
  BY <1>2, <1>5, BinSeq
<1> QED
  BY <1>5, <1>6 DEF E, o

\* set_block() changes no bit behind those it is to set, and not the size.
LEMMA SetBlockFacts ==
  ASSUME NEW d \in Seq(Bin), NEW ofs \in Nat, NEW n \in Nat, NEW v \in [1..n -> Bin],
         ofs + n <= Len(d)
  PROVE  /\ SetBlock(d, ofs, v, n) \in Seq(Bin)
         /\ Len(SetBlock(d, ofs, v, n)) = Len(d)
         /\ \A i \in (ofs + n + 1)..Len(d) : SetBlock(d, ofs, v, n)[i] = d[i]
<1> DEFINE u == BITS - (ofs % BITS)
           Weight(q) == BITS - 1 - (q % BITS)
           Old(q) == IF Weight(q) >= n - u THEN d[q + 1] ELSE 0
           New(q) == IF Weight(q) < u THEN v[u - Weight(q)] ELSE 0
           E(i) == IF i - 1 \in BlockStart(ofs)..(BlockEnd(ofs) - 1)
                     THEN S!OrBit(Old(i - 1), New(i - 1))
                   ELSE IF i - 1 \in BlockEnd(ofs)..(ofs + n - 1) THEN v[i - ofs]
                   ELSE d[i]
           s == SetBlock(d, ofs, v, n)
           L == Len(d)
<1> HIDE DEF u, Weight, Old, New, E, s, L
<1>0. ofs + n <= L
  BY DEF L
<1>1. L \in Nat /\ DOMAIN d = 1..L /\ \A i \in 1..L : d[i] \in Bin
  BY BinFun DEF L
<1>2. v \in Seq(Bin) /\ Len(v) = n
  BY BinSeq
<1>3. CASE u >= n
  <2>1. s = S!Overwritten(d, ofs, v)
    BY <1>3 DEF SetBlock, s, u
  <2>2. Larger(L, ofs + Len(v)) = L
    BY <1>0, <1>1, <1>2 DEF Larger
  <2>3. /\ s \in Seq(Bin) /\ Len(s) = L
        /\ \A i \in 1..L : s[i] = IF i \in (ofs + 1)..(ofs + n) THEN v[i - ofs]
                                  ELSE IF i <= L THEN d[i] ELSE 0
    <3>1. /\ S!Overwritten(d, ofs, v) \in Seq(Bin)
          /\ Len(S!Overwritten(d, ofs, v)) = Larger(Len(d), ofs + Len(v))
          /\ \A i \in 1..Larger(Len(d), ofs + Len(v)) :
               S!Overwritten(d, ofs, v)[i] =
                 IF i \in (ofs + 1)..(ofs + Len(v)) THEN v[i - ofs]
                 ELSE IF i <= Len(d) THEN d[i] ELSE 0
      BY <1>2, OverwrittenFacts
    <3>2. Len(v) = n /\ Len(d) = L /\ Larger(Len(d), ofs + Len(v)) = L
      BY <1>2, <2>2 DEF L
    <3> QED
      BY <2>1, <3>1, <3>2
  <2>4. \A i \in (ofs + n + 1)..L : s[i] = d[i]
    BY <1>1, <2>3
  <2> QED
    BY <2>3, <2>4 DEF s, L
<1>4. CASE ~(u >= n)
  <2>1. s = [i \in 1..L |-> E(i)]
    BY <1>1, <1>4 DEF SetBlock, s, E, Old, New, Weight, u
  <2>2. /\ BITS \in Nat \ {0} /\ ofs % BITS \in 0..(BITS - 1)
        /\ BlockStart(ofs) \in Nat /\ BlockStart(ofs) = ofs - (ofs % BITS)
        /\ BlockEnd(ofs) = ofs + u
    <3>1. BITS \in Nat \ {0}
      BY BitsAssumption
    <3>2. ofs % BITS \in 0..(BITS - 1)
      BY <3>1
    <3>3. BlockStart(ofs) \in Nat /\ ofs % BITS = ofs - BlockStart(ofs)
      BY BlockFacts DEF Whole
    <3> DEFINE r == ofs % BITS
               b == BlockStart(ofs)
    <3>4. r \in Int /\ b \in Nat /\ r = ofs - b /\ u = BITS - r /\ BlockEnd(ofs) = b + BITS
      BY <3>2, <3>3 DEF BlockEnd, u
    <3> HIDE DEF r, b
    <3>5. b = ofs - r /\ BlockEnd(ofs) = ofs + u
      BY <3>1, <3>4
    <3> QED
      BY <3>1, <3>2, <3>3, <3>5 DEF r, b
  <2>3. u \in Nat /\ u < n
    BY <1>4, <2>2 DEF u
  <2>4. \A q \in Nat : Weight(q) \in 0..(BITS - 1)
    BY <2>2 DEF Weight
  <2>5. ASSUME NEW i \in 1..L PROVE E(i) \in Bin /\ (i > ofs + n => E(i) = d[i])
    <3>1. d[i] \in Bin /\ i \in Nat /\ i - 1 \in Nat /\ (i - 1) + 1 = i
      BY <1>1
    <3>2. Weight(i - 1) \in 0..(BITS - 1)
      BY <2>4, <3>1
    <3>3. Weight(i - 1) < u => u - Weight(i - 1) \in 1..n
      BY <2>2, <2>3, <3>2
    <3>4. Old(i - 1) \in Bin /\ New(i - 1) \in Bin
      BY <3>1, <3>3 DEF Bin, Old, New
    <3>5. i - 1 \in BlockEnd(ofs)..(ofs + n - 1) => v[i - ofs] \in Bin
      BY <2>2, <2>3, <3>1
    <3>6. \A x, y \in Bin : S!OrBit(x, y) \in Bin
      BY DEF S!OrBit, Bin
    <3>7. i > ofs + n => i - 1 \notin BlockStart(ofs)..(BlockEnd(ofs) - 1)
                         /\ i - 1 \notin BlockEnd(ofs)..(ofs + n - 1)
      BY <1>0, <1>1, <2>2, <2>3, <3>1
    <3> QED
      BY <3>1, <3>4, <3>5, <3>6, <3>7 DEF E
  <2>6. s \in [1..L -> Bin] /\ \A i \in (ofs + n + 1)..L : s[i] = d[i]
    BY <1>1, <2>1, <2>5
  <2>7. s \in Seq(Bin) /\ Len(s) = L
    BY <1>1, <2>6, BinSeq
  <2> QED
    BY <2>6, <2>7 DEF s, L
<1> QED
  BY <1>3, <1>4

\* One bit of it.
LEMMA OneBit ==
  ASSUME NEW b \in Bin
  PROVE  <<b>> \in Seq(Bin) /\ Len(<<b>>) = 1 /\ <<b>>[1] = b
  OBVIOUS

\* Zeros, and what is behind a string that is filled up with them.
LEMMA ZerosFacts ==
  ASSUME NEW k \in Nat
  PROVE  S!Zeros(k) \in Seq(Bin) /\ Len(S!Zeros(k)) = k /\ \A i \in 1..k : S!Zeros(k)[i] = 0
<1>1. S!Zeros(k) \in [1..k -> Bin] /\ \A i \in 1..k : S!Zeros(k)[i] = 0
  BY DEF S!Zeros, Bin
<1> QED
  BY <1>1, BinSeq

\* extend() makes a vector of a vector.
LEMMA ExtendedBits ==
  ASSUME NEW d \in Seq(Bin), NEW p \in Nat, NEW n \in Nat
  PROVE  Extended(d, p, n) \in Seq(Bin)
<1>1. Len(d) \in Nat /\ Up(p + n) \in Nat
  BY BinFun, UpFacts DEF Whole
<1>2. Larger(Up(p + n) - Len(d), 0) \in Nat
  BY <1>1 DEF Larger
<1> QED
  BY <1>2, ZerosFacts, Concat DEF Extended

\* Where writing a value ends; if it fits, with the value.
Fitting(ofs, n) == ofs + n <= BlockEnd(ofs) \/ (ofs + n) % BITS = 0

LEMMA WrittenFacts ==
  ASSUME NEW ofs \in Nat, NEW n \in Nat
  PROVE  /\ WrittenEnd(ofs, n) \in Nat /\ ofs + n <= WrittenEnd(ofs, n)
         /\ Fitting(ofs, n) => WrittenEnd(ofs, n) = ofs + n
<1>1. Up(ofs + n) \in Nat /\ ofs + n <= Up(ofs + n)
  BY UpFacts DEF Whole
<1>2. (ofs + n) % BITS = 0 => Up(ofs + n) <= ofs + n
  BY UpFacts DEF Whole
<1> QED
  BY <1>1, <1>2 DEF WrittenEnd, Fitting

\* The sets on the way through a call of set.
Sets == [data : Seq(Bin), pos : Nat, inside : BOOLEAN]

\* A set y that is the set x after v was written at an offset: the bits are those
\* of the value, up to where writing ends zeros, and otherwise those that were
\* there.
IsWritten(y, x, ofs, v) ==
  /\ Good(y.data, y.pos)
  /\ y.pos = Larger(x.pos, WrittenEnd(ofs, Len(v)))
  /\ \A i \in 1..y.pos :
       y.data[i] = IF i \in (ofs + 1)..(ofs + Len(v)) THEN v[i - ofs]
                   ELSE IF i \in (ofs + Len(v) + 1)..WrittenEnd(ofs, Len(v)) THEN 0
                   ELSE IF i <= x.pos THEN x.data[i] ELSE 0

\* set_impl() of a value, whether it fits or not, if nothing was written behind
\* the vector.
LEMMA SetImplFacts ==
  ASSUME NEW x \in Sets, NEW ofs \in Nat, NEW v \in Seq(Bin)
  PROVE  /\ SetImpl(x, ofs, v) \in Sets
         /\ SetImpl(x, ofs, v).inside => x.inside
         /\ SetImpl(x, ofs, v).inside /\ Good(x.data, x.pos) =>
              IsWritten(SetImpl(x, ofs, v), x, ofs, v)
<1> DEFINE end == ofs + Len(v)
           written == WrittenEnd(ofs, Len(v))
           ext == IF end > Len(x.data) THEN Extended(x.data, x.pos, end - Len(x.data)) ELSE x.data
           w == v \o S!Zeros(written - end)
           y == SetImpl(x, ofs, v)
<1>1. y = [data |-> S!Overwritten(ext, ofs, w), pos |-> Larger(x.pos, written),
           inside |-> x.inside /\ written <= Len(ext)]
  BY DEF SetImpl
<1> HIDE DEF y, w, ext
<1>2. x.data \in Seq(Bin) /\ x.pos \in Nat /\ x.inside \in BOOLEAN /\ Len(x.data) \in Nat
      /\ Len(v) \in Nat
  BY BinFun DEF Sets
<1>3. end \in Nat /\ written \in Nat /\ end <= written /\ ofs <= end
  <2>1. WrittenEnd(ofs, Len(v)) \in Nat /\ ofs + Len(v) <= WrittenEnd(ofs, Len(v))
    BY <1>2, WrittenFacts
  <2> QED
    BY <1>2, <2>1
<1> HIDE DEF end, written
<1>4. ext \in Seq(Bin) /\ Len(ext) \in Nat
  <2>1. end > Len(x.data) => end - Len(x.data) \in Nat
    BY <1>2, <1>3
  <2> QED
    BY <1>2, <2>1, ExtendedBits, BinFun DEF ext
<1>5. /\ w \in Seq(Bin) /\ Len(w) = written - ofs
      /\ \A i \in 1..(written - ofs) : w[i] = IF i <= Len(v) THEN v[i] ELSE 0
  <2>1. written - end \in Nat
    BY <1>3
  <2>2. /\ S!Zeros(written - end) \in Seq(Bin) /\ Len(S!Zeros(written - end)) = written - end
        /\ \A i \in 1..(written - end) : S!Zeros(written - end)[i] = 0
    BY <2>1, ZerosFacts
  <2>3. /\ w \in Seq(Bin) /\ Len(w) = Len(v) + (written - end)
        /\ \A i \in 1..(Len(v) + (written - end)) :
             w[i] = IF i <= Len(v) THEN v[i] ELSE S!Zeros(written - end)[i - Len(v)]
    BY <2>1, <2>2, Concat DEF w
  <2>4. Len(v) + (written - end) = written - ofs
    BY <1>2, <1>3 DEF end
  <2>5. ASSUME NEW i \in 1..(written - ofs) PROVE i > Len(v) => i - Len(v) \in 1..(written - end)
    BY <1>2, <1>3, <2>4
  <2> QED
    BY <1>2, <2>2, <2>3, <2>4, <2>5
<1>6. /\ S!Overwritten(ext, ofs, w) \in Seq(Bin)
      /\ Len(S!Overwritten(ext, ofs, w)) = Larger(Len(ext), written)
      /\ \A i \in 1..Larger(Len(ext), written) :
           S!Overwritten(ext, ofs, w)[i] =
             IF i \in (ofs + 1)..written THEN w[i - ofs]
             ELSE IF i <= Len(ext) THEN ext[i] ELSE 0
  <2>1. ofs + Len(w) = written
    BY <1>3, <1>5
  <2> QED
    <3> DEFINE o == S!Overwritten(ext, ofs, w)
               n == ofs + Len(w)
    <3>1. /\ o \in Seq(Bin) /\ Len(o) = Larger(Len(ext), n)
          /\ \A i \in 1..Larger(Len(ext), n) :
               o[i] = IF i \in (ofs + 1)..n THEN w[i - ofs] ELSE IF i <= Len(ext) THEN ext[i] ELSE 0
      BY <1>4, <1>5, OverwrittenFacts, ZenonT(60)
    <3>2. n = written
      BY <2>1
    <3> HIDE DEF n, o
    <3> QED
      BY <3>1, <3>2 DEF o
<1>7. y \in Sets /\ (y.inside => x.inside)
  <2>1. Larger(x.pos, written) \in Nat
    BY <1>2, <1>3 DEF Larger
  <2>2. (x.inside /\ written <= Len(ext)) \in BOOLEAN
    OBVIOUS
  <2> QED
    BY <1>1, <1>6, <2>1, <2>2 DEF Sets
<1>8. ASSUME y.inside, Good(x.data, x.pos)
      PROVE  /\ Good(y.data, y.pos)
             /\ y.pos = Larger(x.pos, written)
             /\ \A i \in 1..y.pos :
                  y.data[i] = IF i \in (ofs + 1)..end THEN v[i - ofs]
                              ELSE IF i \in (end + 1)..written THEN 0
                              ELSE IF i <= x.pos THEN x.data[i] ELSE 0
  <2>1. /\ Len(ext) \in Whole /\ x.pos <= Len(ext)
        /\ \A i \in 1..x.pos : ext[i] = x.data[i]
        /\ \A i \in (x.pos + 1)..Len(ext) : ext[i] = 0
    <3> DEFINE d == x.data
               p == x.pos
               k == IF end > Len(d) THEN end - Len(d) ELSE 0
    <3>1. k \in Nat /\ ext \in {d, Extended(d, p, k)} /\ Good(d, p)
      BY <1>2, <1>3, <1>8 DEF ext
    <3> HIDE DEF d, p, k
    <3> QED
      BY <3>1, RoomFacts DEF d, p
  <2>2. written <= Len(ext) /\ y.data = S!Overwritten(ext, ofs, w) /\ y.pos = Larger(x.pos, written)
    BY <1>1, <1>8
  <2>3. Larger(Len(ext), written) = Len(ext) /\ y.pos \in 0..Len(ext) /\ y.pos >= written /\ y.pos >= x.pos
    BY <1>2, <1>3, <1>4, <2>1, <2>2 DEF Larger
  <2>4. /\ y.data \in Seq(Bin) /\ Len(y.data) = Len(ext)
        /\ \A i \in 1..Len(ext) :
             y.data[i] = IF i \in (ofs + 1)..written THEN w[i - ofs]
                         ELSE IF i <= Len(ext) THEN ext[i] ELSE 0
    BY <1>6, <2>2, <2>3
  <2>5. ASSUME NEW i \in (y.pos + 1)..Len(ext) PROVE y.data[i] = 0
    <3>1. i \in 1..Len(ext) /\ i > written /\ i \in (x.pos + 1)..Len(ext)
      BY <1>2, <1>3, <1>4, <2>3
    <3> QED
      BY <1>3, <1>4, <2>1, <2>4, <3>1
  <2>6. ASSUME NEW i \in 1..y.pos
        PROVE  y.data[i] = IF i \in (ofs + 1)..end THEN v[i - ofs]
                           ELSE IF i \in (end + 1)..written THEN 0
                           ELSE IF i <= x.pos THEN x.data[i] ELSE 0
    <3>1. i \in 1..Len(ext) /\ i \in Nat
      BY <1>4, <2>3
    <3>2. CASE i \in (ofs + 1)..written
      <4>1. i - ofs \in 1..(written - ofs) /\ (i - ofs <= Len(v) <=> i <= end)
        BY <1>2, <1>3, <3>1, <3>2 DEF end
      <4>2. y.data[i] = w[i - ofs]
        BY <2>4, <3>1, <3>2
      <4>3. y.data[i] = IF i <= end THEN v[i - ofs] ELSE 0
        BY <1>5, <4>1, <4>2
      <4> QED
        BY <1>3, <3>1, <3>2, <4>3
    <3>3. CASE i \notin (ofs + 1)..written
      <4>1. y.data[i] = ext[i]
        BY <1>4, <2>4, <3>1, <3>3
      <4>2. i <= x.pos => i \in 1..x.pos /\ ext[i] = x.data[i]
        BY <1>2, <2>1, <3>1
      <4>3. ~(i <= x.pos) => i \in (x.pos + 1)..Len(ext) /\ ext[i] = 0
        BY <1>2, <1>4, <2>1, <3>1
      <4>4. i \notin (ofs + 1)..end /\ i \notin (end + 1)..written
        BY <1>3, <3>1, <3>3
      <4> QED
        BY <4>1, <4>2, <4>3, <4>4
    <3> QED
      BY <3>2, <3>3
  <2> QED
    BY <2>1, <2>2, <2>3, <2>4, <2>5, <2>6 DEF Good
<1> QED
  BY <1>7, <1>8 DEF y, end, written, IsWritten
-----------------------------------------------------------------------------
\* append() of a bit to any string.
LEMMA AppendedBit ==
  ASSUME NEW d \in Seq(Bin), NEW p \in Nat, NEW b \in Bin
  PROVE  Appended(d, p, <<b>>, 1) \in Seq(Bin)
<1> DEFINE e == Extended(d, p, 1)
           v == <<b>>
           n == 1 % BITS
           from == IF n = 0 THEN p ELSE Larger(BlockStart(p), p + n - BITS)
           Digit(q) == LET i == Len(v) - (p + 1 - 1 - q) IN IF i >= 1 THEN v[i] ELSE 0
           a == Appended(d, p, v, 1)
<1>1. e \in Seq(Bin) /\ DOMAIN e = 1..Len(e) /\ Len(e) \in Nat /\ \A i \in 1..Len(e) : e[i] \in Bin
  BY ExtendedBits, BinFun
<1>2. v \in Seq(Bin) /\ Len(v) = 1 /\ v[1] = b
  BY OneBit
<1> HIDE DEF e, v, n, from
<1>3. a = [i \in 1..Len(e) |->
             IF i - 1 \in from..(p + 1 - 1) THEN S!OrBit(e[i], Digit(i - 1)) ELSE e[i]]
  BY <1>1 DEF Appended, e, n, from
<1>4. \A x, y \in Bin : S!OrBit(x, y) \in Bin
  BY DEF S!OrBit, Bin
<1>5. ASSUME NEW i \in 1..Len(e), i - 1 <= p PROVE Digit(i - 1) \in Bin
  <2> DEFINE k == Len(v) - (p + 1 - 1 - (i - 1))
  <2>1. k \in Int /\ k <= 1 /\ (k >= 1 => k = 1)
    BY <1>1, <1>2, <1>5
  <2>2. Digit(i - 1) = IF k >= 1 THEN v[k] ELSE 0
    OBVIOUS
  <2> HIDE DEF k, Digit
  <2> QED
    BY <1>2, <2>1, <2>2 DEF Bin
<1> HIDE DEF Digit, a
<1>6. ASSUME NEW i \in 1..Len(e)
      PROVE  (IF i - 1 \in from..(p + 1 - 1) THEN S!OrBit(e[i], Digit(i - 1)) ELSE e[i]) \in Bin
  <2>1. i - 1 \in from..(p + 1 - 1) => i - 1 <= p
    BY <1>1
  <2> QED
    BY <1>1, <1>4, <1>5, <2>1
<1>7. a \in [1..Len(e) -> Bin]
  BY <1>3, <1>6
<1> QED
  BY <1>1, <1>7, BinSeq DEF a, v

\* append(bitset) appends its bits.
LEMMA AppendedSetFacts ==
  ASSUME NEW d, NEW p, Good(d, p), NEW t \in Seq(Bin)
  PROVE  /\ Good(AppendedSet(d, p, t), p + Len(t))
         /\ \A j \in 1..(p + Len(t)) :
              AppendedSet(d, p, t)[j] = IF j <= p THEN d[j] ELSE t[j - p]
<1> DEFINE n == Len(t)
           a == AppendedSet(d, p, t)
           Step(e, i) == Appended(e, p + i - 1, <<t[i]>>, 1)
           q == [i \in DOMAIN t |-> i]
           h == [x \in Seq(Bin) \X (1..n) |-> Step(x[1], x[2])]
           f == CHOOSE g : g = [s \in SUBSET (1..n) |->
                                  IF s = {} THEN d ELSE Step(g[s \ {Max(s)}], q[Max(s)])]
           P == [i \in 0..n |->
                   {e \in Seq(Bin) : /\ Good(e, p + i)
                                     /\ \A j \in 1..(p + i) :
                                          e[j] = IF j <= p THEN d[j] ELSE t[j - p]}]
<1> HIDE DEF n, q, a, h, P
<1>1. /\ d \in Seq(Bin) /\ Len(d) \in Nat /\ p \in Nat /\ n \in Nat
      /\ DOMAIN t = 1..n /\ \A i \in 1..n : t[i] \in Bin
      /\ DOMAIN q = 1..n /\ \A i \in 1..n : q[i] = i
  BY BinFun DEF Good, n, q
<1>2. a = f[1..n]
  BY <1>1 DEF a, q, AppendedSet, FoldLeft, MapThenFoldSet
<1> HIDE DEF Step
<1>3. h \in [Seq(Bin) \X (1..n) -> Seq(Bin)]
  <2> HIDE DEF f
  <2>1. ASSUME NEW e \in Seq(Bin), NEW i \in 1..n PROVE Step(e, i) \in Seq(Bin)
    <3>1. p + i - 1 \in Nat
      BY <1>1
    <3> QED
      BY <1>1, <3>1, AppendedBit DEF Step
  <2> QED
    BY <2>1 DEF h
<1>4. f = [s \in SUBSET (1..n) |-> IF s = {} THEN d ELSE Step(f[s \ {Max(s)}], Max(s))]
  <2>1. \E g \in [SUBSET (1..n) -> Seq(Bin)] : \A s \in SUBSET (1..n) :
          g[s] = IF s = {} THEN d ELSE h[<<g[s \ {Max(s)}], Max(s)>>]
    <3> HIDE DEF f
    <3>1. \E g : IsFold(g, n, Seq(Bin), d, h)
      BY <1>1, <1>3, FoldExists
    <3> QED
      BY <3>1 DEF IsFold
  <2>2. PICK g \in [SUBSET (1..n) -> Seq(Bin)] : \A s \in SUBSET (1..n) :
          g[s] = IF s = {} THEN d ELSE h[<<g[s \ {Max(s)}], Max(s)>>]
    BY <2>1
  <2>3. ASSUME NEW s \in SUBSET (1..n), s # {} PROVE q[Max(s)] = Max(s) /\ Max(s) \in 1..n
    <3> HIDE DEF f
    <3> QED
      BY <1>1, <2>3, MaxOfSome
  <2>4. ASSUME NEW s \in SUBSET (1..n)
        PROVE  g[s] = IF s = {} THEN d ELSE Step(g[s \ {Max(s)}], q[Max(s)])
    <3> HIDE DEF f
    <3> QED
      BY <2>2, <2>3 DEF h
  <2>5. g = [s \in SUBSET (1..n) |->
               IF s = {} THEN d ELSE Step(g[s \ {Max(s)}], q[Max(s)])]
    <3> HIDE DEF f
    <3>1. g = [s \in SUBSET (1..n) |-> g[s]]
      OBVIOUS
    <3> QED
      BY <2>4, <3>1
  <2>6. f = [s \in SUBSET (1..n) |->
               IF s = {} THEN d ELSE Step(f[s \ {Max(s)}], q[Max(s)])]
    BY <2>5
  <2> HIDE DEF f
  <2> QED
    BY <2>3, <2>6
<1> HIDE DEF f
<1>5. ASSUME NEW i \in 1..n, f[1..(i - 1)] \in P[i - 1] PROVE f[1..i] \in P[i]
  <2> DEFINE e == f[1..(i - 1)]
             k == p + i - 1
  <2>1. f[1..i] = Step(e, i)
    <3>1. (1..i) \in SUBSET (1..n) /\ i \in Nat /\ i > 0
      BY <1>1
    <3>2. Max(1..i) = i /\ (1..i) \ {i} = 1..(i - 1) /\ 1..i # {}
      BY <3>1, MaxOfFirst
    <3> QED
      BY <1>4, <3>1, <3>2
  <2>2. i - 1 \in 0..n /\ i \in 0..n /\ p + (i - 1) = k /\ k + 1 = p + i /\ k \in Nat
    BY <1>1
  <2> HIDE DEF k
  <2>3. /\ e \in Seq(Bin) /\ Good(e, k)
        /\ \A j \in 1..k : e[j] = IF j <= p THEN d[j] ELSE t[j - p]
    BY <1>5, <2>2 DEF P
  <2> HIDE DEF e
  <2>4. /\ <<t[i]>> \in Seq(Bin) /\ Len(<<t[i]>>) = 1 /\ <<t[i]>>[1] = t[i] /\ 1 \in 1..Len(<<t[i]>>)
    BY <1>1, OneBit
  <2> DEFINE v == <<t[i]>>
             r == Appended(e, k, v, 1)
  <2>5. \A j \in 1..(Len(v) - 1) : v[j] = 0
    BY <2>4
  <2> HIDE DEF v
  <2>6. /\ Good(r, k + 1)
        /\ \A j \in 1..(k + 1) : r[j] = IF j <= k THEN e[j] ELSE v[(Len(v) - 1) + (j - k)]
    <3>1. v \in Seq(Bin) /\ 1 \in 1..Len(v)
      BY <2>4 DEF v
    <3> QED
      BY <2>3, <2>5, <3>1, AppendedFacts
  <2>7. Step(e, i) = r
    BY <2>2 DEF Step, k, v
  <2> HIDE DEF r
  <2>8. ASSUME NEW j \in 1..(p + i) PROVE r[j] = IF j <= p THEN d[j] ELSE t[j - p]
    <3>1. CASE j <= k
      <4>1. j \in 1..k
        BY <2>2, <3>1
      <4> QED
        BY <2>2, <2>3, <2>6, <3>1, <4>1
    <3>2. CASE j > k
      <4>1. j = k + 1 /\ j - p = i /\ ~(j <= p) /\ (Len(v) - 1) + (j - k) = 1
        BY <1>1, <2>2, <2>4, <3>2 DEF v
      <4> QED
        BY <2>2, <2>4, <2>6, <4>1 DEF v
    <3> QED
      BY <2>2, <3>1, <3>2
  <2>9. r \in P[i]
    BY <2>2, <2>6, <2>8 DEF P, Good
  <2> QED
    BY <2>1, <2>7, <2>9
<1>6. f[{}] \in P[0]
  <2>1. f[{}] = d
    <3>1. {} \in SUBSET (1..n)
      OBVIOUS
    <3> QED
      BY <1>4, <3>1
  <2>2. p + 0 = p /\ 0 \in 0..n
    BY <1>1
  <2>3. d \in P[0]
    BY <1>1, <2>2 DEF P
  <2> QED
    BY <2>1, <2>3
<1>7. f[1..n] \in P[n]
  <2> QED
    BY <1>1, <1>5, <1>6, FoldSteps
<1>8. n \in 0..n
  BY <1>1
<1> QED
  BY <1>2, <1>7, <1>8 DEF a, n, P

\* set(bitset, ofs) sets its bits; if it was not called behind the vector, zeros
\* are between the end and them, and nothing else changes.
LEMMA SetSetFacts ==
  ASSUME NEW x \in Sets, NEW ofs \in Nat, NEW t \in Seq(Bin)
  PROVE  /\ SetSetImpl(x, ofs, t) \in Sets
         /\ SetSetImpl(x, ofs, t).inside => x.inside
         /\ SetSetImpl(x, ofs, t).inside /\ Good(x.data, x.pos) =>
              /\ Good(SetSetImpl(x, ofs, t).data, SetSetImpl(x, ofs, t).pos)
              /\ SetSetImpl(x, ofs, t).pos =
                   IF Len(t) = 0 THEN x.pos ELSE Larger(x.pos, ofs + Len(t))
              /\ \A j \in 1..SetSetImpl(x, ofs, t).pos :
                   SetSetImpl(x, ofs, t).data[j] =
                     IF j \in (ofs + 1)..(ofs + Len(t)) THEN t[j - ofs]
                     ELSE IF j <= x.pos THEN x.data[j] ELSE 0
<1> DEFINE n == Len(t)
           a == SetSetImpl(x, ofs, t)
           Step(y, i) == SetImpl(y, ofs + i - 1, <<t[i]>>)
           q == [i \in DOMAIN t |-> i]
           h == [y \in Sets \X (1..n) |-> Step(y[1], y[2])]
           f == CHOOSE g : g = [s \in SUBSET (1..n) |->
                                  IF s = {} THEN x ELSE Step(g[s \ {Max(s)}], q[Max(s)])]
           Is(y, i) ==
             /\ Good(y.data, y.pos)
             /\ y.pos = IF i = 0 THEN x.pos ELSE Larger(x.pos, ofs + i)
             /\ \A j \in 1..y.pos :
                  y.data[j] = IF j \in (ofs + 1)..(ofs + i) THEN t[j - ofs]
                              ELSE IF j <= x.pos THEN x.data[j] ELSE 0
           P == [i \in 0..n |->
                   {y \in Sets : /\ y.inside => x.inside
                                 /\ y.inside /\ Good(x.data, x.pos) => Is(y, i)}]
<1> HIDE DEF n, q, a, h, P, Is
<1>1. /\ n \in Nat /\ DOMAIN t = 1..n /\ \A i \in 1..n : t[i] \in Bin
      /\ DOMAIN q = 1..n /\ \A i \in 1..n : q[i] = i
      /\ x.pos \in Nat
  BY BinFun DEF n, q, Sets
<1>2. a = f[1..n]
  BY <1>1 DEF a, q, SetSetImpl, FoldLeft, MapThenFoldSet
<1> HIDE DEF Step
<1>3. h \in [Sets \X (1..n) -> Sets]
  <2> HIDE DEF f
  <2>1. ASSUME NEW y \in Sets, NEW i \in 1..n PROVE Step(y, i) \in Sets
    <3>1. ofs + i - 1 \in Nat /\ <<t[i]>> \in Seq(Bin)
      BY <1>1, OneBit
    <3> QED
      BY <3>1, SetImplFacts DEF Step
  <2> QED
    BY <2>1 DEF h
<1>4. f = [s \in SUBSET (1..n) |-> IF s = {} THEN x ELSE Step(f[s \ {Max(s)}], Max(s))]
  <2>1. \E g \in [SUBSET (1..n) -> Sets] : \A s \in SUBSET (1..n) :
          g[s] = IF s = {} THEN x ELSE h[<<g[s \ {Max(s)}], Max(s)>>]
    <3> HIDE DEF f
    <3>1. \E g : IsFold(g, n, Sets, x, h)
      BY <1>1, <1>3, FoldExists
    <3> QED
      BY <3>1 DEF IsFold
  <2>2. PICK g \in [SUBSET (1..n) -> Sets] : \A s \in SUBSET (1..n) :
          g[s] = IF s = {} THEN x ELSE h[<<g[s \ {Max(s)}], Max(s)>>]
    BY <2>1
  <2>3. ASSUME NEW s \in SUBSET (1..n), s # {} PROVE q[Max(s)] = Max(s) /\ Max(s) \in 1..n
    <3> HIDE DEF f
    <3> QED
      BY <1>1, <2>3, MaxOfSome
  <2>4. ASSUME NEW s \in SUBSET (1..n)
        PROVE  g[s] = IF s = {} THEN x ELSE Step(g[s \ {Max(s)}], q[Max(s)])
    <3> HIDE DEF f
    <3> QED
      BY <2>2, <2>3 DEF h
  <2>5. g = [s \in SUBSET (1..n) |->
               IF s = {} THEN x ELSE Step(g[s \ {Max(s)}], q[Max(s)])]
    <3> HIDE DEF f
    <3>1. g = [s \in SUBSET (1..n) |-> g[s]]
      OBVIOUS
    <3> QED
      BY <2>4, <3>1
  <2>6. f = [s \in SUBSET (1..n) |->
               IF s = {} THEN x ELSE Step(f[s \ {Max(s)}], q[Max(s)])]
    BY <2>5
  <2> HIDE DEF f
  <2> QED
    BY <2>3, <2>6
<1> HIDE DEF f
<1>5. ASSUME NEW i \in 1..n, f[1..(i - 1)] \in P[i - 1] PROVE f[1..i] \in P[i]
  <2> DEFINE y == f[1..(i - 1)]
             k == ofs + i - 1
             v == <<t[i]>>
             r == SetImpl(y, k, v)
  <2>1. f[1..i] = Step(y, i)
    <3>1. (1..i) \in SUBSET (1..n) /\ i \in Nat /\ i > 0
      BY <1>1
    <3>2. Max(1..i) = i /\ (1..i) \ {i} = 1..(i - 1) /\ 1..i # {}
      BY <3>1, MaxOfFirst
    <3> QED
      BY <1>4, <3>1, <3>2
  <2>2. Step(y, i) = r
    BY DEF Step
  <2>3. i - 1 \in 0..n /\ i \in 0..n /\ ofs + (i - 1) = k /\ k + 1 = ofs + i /\ k \in Nat /\ k >= ofs
    BY <1>1
  <2> HIDE DEF k, r, v
  <2>4. y \in Sets /\ (y.inside => x.inside) /\ (y.inside /\ Good(x.data, x.pos) => Is(y, i - 1))
    BY <1>5, <2>3 DEF P
  <2> HIDE DEF y
  <2>5. v \in Seq(Bin) /\ Len(v) = 1 /\ v[1] = t[i]
    BY <1>1, OneBit DEF v
  <2>6. WrittenEnd(k, Len(v)) = k + 1
    <3>1. k < BlockStart(k) + BITS /\ BlockStart(k) \in Nat /\ BITS \in Nat
      BY <2>3, BlockFacts DEF Whole
    <3>2. Fitting(k, 1)
      BY <2>3, <3>1 DEF Fitting, BlockEnd
    <3> QED
      BY <2>3, <2>5, <3>2, WrittenFacts
  <2>7. r \in Sets /\ (r.inside => y.inside)
    BY <2>3, <2>4, <2>5, SetImplFacts DEF r
  <2>8. ASSUME r.inside, Good(x.data, x.pos) PROVE Is(r, i)
    <3>1. Is(y, i - 1)
      BY <2>4, <2>7, <2>8
    <3>2. /\ Good(y.data, y.pos) /\ y.pos \in Nat
          /\ y.pos = IF i - 1 = 0 THEN x.pos ELSE Larger(x.pos, k)
          /\ \A j \in 1..y.pos :
               y.data[j] = IF j \in (ofs + 1)..k THEN t[j - ofs]
                           ELSE IF j <= x.pos THEN x.data[j] ELSE 0
      BY <2>3, <2>4, <3>1 DEF Is, Sets
    <3>3. /\ Good(r.data, r.pos)
          /\ r.pos = Larger(y.pos, k + 1)
          /\ \A j \in 1..r.pos :
               r.data[j] = IF j \in (k + 1)..(k + 1) THEN v[j - k]
                           ELSE IF j \in (k + 1 + 1)..(k + 1) THEN 0
                           ELSE IF j <= y.pos THEN y.data[j] ELSE 0
      <4>1. /\ Good(r.data, r.pos)
            /\ r.pos = Larger(y.pos, WrittenEnd(k, Len(v)))
            /\ \A j \in 1..r.pos :
                 r.data[j] = IF j \in (k + 1)..(k + Len(v)) THEN v[j - k]
                             ELSE IF j \in (k + Len(v) + 1)..WrittenEnd(k, Len(v)) THEN 0
                             ELSE IF j <= y.pos THEN y.data[j] ELSE 0
        <5>1. IsWritten(r, y, k, v)
          BY <2>3, <2>4, <2>5, <2>8, <3>2, SetImplFacts DEF r
        <5> QED
          BY <5>1 DEF IsWritten
      <4> QED
        BY <2>5, <2>6, <4>1
    <3>4. r.pos = Larger(x.pos, ofs + i) /\ i # 0
      <4> DEFINE da == x.pos
                 db == y.pos
                 dz == r.pos
      <4>1. da \in Nat /\ k \in Nat /\ k >= ofs /\ i \in Nat /\ i # 0 /\ ofs \in Nat
        BY <1>1, <2>3 DEF Sets
      <4>2. db = IF i - 1 = 0 THEN da ELSE Larger(da, k)
        BY <3>2
      <4>3. dz = Larger(db, k + 1) /\ k + 1 = ofs + i /\ k = ofs + (i - 1)
        BY <2>3, <3>3
      <4> HIDE DEF da, db, dz
      <4>4. dz = Larger(da, k + 1)
        BY <4>1, <4>2, <4>3 DEF Larger
      <4> QED
        BY <4>1, <4>3, <4>4 DEF da, dz
    <3>5. ASSUME NEW j \in 1..r.pos
          PROVE  r.data[j] = IF j \in (ofs + 1)..(ofs + i) THEN t[j - ofs]
                             ELSE IF j <= x.pos THEN x.data[j] ELSE 0
      <4>1. j \in Nat /\ j >= 1 /\ r.pos \in Nat
        BY <1>1, <2>3, <3>4 DEF Larger
      <4>2. CASE j = k + 1
        <5>1. j - k = 1 /\ j - ofs = i /\ j \in (k + 1)..(k + 1) /\ j \in (ofs + 1)..(ofs + i)
          BY <2>3, <4>1, <4>2 DEF k
        <5> QED
          BY <2>5, <3>3, <5>1
      <4>3. CASE j # k + 1
        <5>1. r.data[j] = IF j <= y.pos THEN y.data[j] ELSE 0
          BY <2>3, <3>3, <4>1, <4>3
        <5>2. CASE j <= y.pos
          <6>1. j \in 1..y.pos /\ (j \in (ofs + 1)..k <=> j \in (ofs + 1)..(ofs + i))
            BY <2>3, <3>2, <4>1, <4>3, <5>2
          <6> QED
            BY <3>2, <5>1, <5>2, <6>1
        <5>3. CASE j > y.pos
          <6>1. j > x.pos /\ j \notin (ofs + 1)..(ofs + i)
            <7>1. CASE i = 1
              <8>1. y.pos = x.pos /\ ofs + i = k + 1 /\ k = ofs
                BY <2>3, <3>2, <7>1
              <8> QED
                BY <1>1, <4>1, <4>3, <5>3, <8>1
            <7>2. CASE i # 1
              <8>1. y.pos = Larger(x.pos, k) /\ i - 1 # 0
                BY <1>1, <3>2, <7>2
              <8>2. y.pos >= x.pos /\ y.pos >= k
                BY <1>1, <2>3, <8>1 DEF Larger
              <8> QED
                BY <1>1, <2>3, <3>2, <4>1, <4>3, <5>3, <8>2
            <7> QED
              BY <7>1, <7>2
          <6> QED
            BY <1>1, <3>2, <4>1, <5>1, <5>3, <6>1
        <5> QED
          BY <3>2, <4>1, <5>2, <5>3
      <4> QED
        BY <4>2, <4>3
    <3> QED
      BY <3>3, <3>4, <3>5 DEF Is
  <2>9. r \in P[i]
    BY <2>3, <2>4, <2>7, <2>8 DEF P
  <2> QED
    BY <2>1, <2>2, <2>9
<1>6. f[{}] \in P[0]
  <2>1. f[{}] = x
    <3>1. {} \in SUBSET (1..n)
      OBVIOUS
    <3> QED
      BY <1>4, <3>1
  <2>2. ofs + 0 = ofs /\ 0 \in 0..n /\ \A j \in Nat : j \notin (ofs + 1)..ofs
    BY <1>1
  <2>3. Good(x.data, x.pos) => Is(x, 0)
    BY <1>1, <2>2 DEF Is
  <2> QED
    BY <2>1, <2>2, <2>3 DEF P
<1>7. f[1..n] \in P[n]
  BY <1>1, <1>5, <1>6, FoldSteps
<1>8. n \in 0..n
  BY <1>1
<1> QED
  BY <1>2, <1>7, <1>8 DEF a, n, P, Is

-----------------------------------------------------------------------------
\* Moves of bits within the first p.
MovesIn(p) ==
  {m \in [from : Int, to : Nat, bits : Nat] :
     /\ m.to + m.bits <= p
     /\ m.from # Nowhere => m.from >= 0 /\ m.from + m.bits <= p}

\* A move changes no bit behind them.
LEMMA MovedFacts ==
  ASSUME NEW d \in Seq(Bin), NEW p \in 0..Len(d), NEW m \in MovesIn(p)
  PROVE  /\ Moved(d, m) \in Seq(Bin) /\ Len(Moved(d, m)) = Len(d)
         /\ \A i \in (p + 1)..Len(d) : Moved(d, m)[i] = d[i]
<1> DEFINE v == IF m.from = Nowhere THEN S!Zeros(m.bits) ELSE GetBlock(d, m.from, m.bits)
           k == m.to
           n == m.bits
           r == SetBlock(d, k, v, n)
<1>1. /\ k \in Nat /\ n \in Nat /\ k + n <= p /\ Len(d) \in Nat
      /\ m.from # Nowhere => m.from \in Nat /\ m.from + n <= p
  BY BinFun DEF MovesIn
<1>2. v \in [1..n -> Bin]
  <2>1. S!Zeros(n) \in [1..n -> Bin]
    BY DEF S!Zeros, Bin
  <2>2. ASSUME m.from # Nowhere PROVE GetBlock(d, m.from, n) \in [1..n -> Bin]
    <3>1. m.from + n <= Len(d)
      BY <1>1, <2>2
    <3> QED
      BY <1>1, <2>2, <3>1, GetBlockFacts
  <2> QED
    BY <2>1, <2>2
<1>3. Moved(d, m) = r
  BY DEF Moved
<1> HIDE DEF k, n, v
<1>4. r \in Seq(Bin) /\ Len(r) = Len(d) /\ \A i \in (k + n + 1)..Len(d) : r[i] = d[i]
  <2>1. k + n <= Len(d)
    BY <1>1
  <2> QED
    BY <1>1, <1>2, <2>1, SetBlockFacts
<1> HIDE DEF r
<1>5. \A i \in (p + 1)..Len(d) : i \in (k + n + 1)..Len(d)
  BY <1>1
<1> QED
  BY <1>3, <1>4, <1>5

\* Neither do any number of moves.
LEMMA MovesFacts ==
  ASSUME NEW d, NEW p, Good(d, p), NEW q \in Seq(MovesIn(p))
  PROVE  Good(FoldLeft(Moved, d, q), p) /\ Len(FoldLeft(Moved, d, q)) = Len(d)
<1> DEFINE n == Len(q)
           a == FoldLeft(Moved, d, q)
           L == Len(d)
           T == {e \in Seq(Bin) : Len(e) = L}
           h == [x \in T \X (1..n) |-> Moved(x[1], q[x[2]])]
           f == CHOOSE g : g = [s \in SUBSET (1..n) |->
                                  IF s = {} THEN d ELSE Moved(g[s \ {Max(s)}], q[Max(s)])]
           R == {e \in T : \A i \in (p + 1)..L : e[i] = 0}
           P == [i \in 0..n |-> R]
<1> HIDE DEF n, a, h, P, T, L, R
<1>1. /\ n \in Nat /\ DOMAIN q = 1..n /\ \A i \in 1..n : q[i] \in MovesIn(p)
      /\ d \in T /\ L \in Nat /\ p \in 0..L /\ d \in R /\ Len(d) = L /\ L \in Whole
  BY BinFun, LenProperties DEF Good, n, L, T, R
<1>2. a = f[1..n]
  BY <1>1 DEF a, FoldLeft, MapThenFoldSet
<1>3. ASSUME NEW e \in T, NEW i \in 1..n
      PROVE  Moved(e, q[i]) \in T /\ \A j \in (p + 1)..L : Moved(e, q[i])[j] = e[j]
  <2> HIDE DEF f
  <2>1. e \in Seq(Bin) /\ Len(e) = L /\ p \in 0..Len(e)
    BY <1>1 DEF T
  <2>2. /\ Moved(e, q[i]) \in Seq(Bin) /\ Len(Moved(e, q[i])) = Len(e)
        /\ \A j \in (p + 1)..Len(e) : Moved(e, q[i])[j] = e[j]
    BY <1>1, <2>1, MovedFacts
  <2> QED
    BY <2>1, <2>2 DEF T
<1>4. f = [s \in SUBSET (1..n) |-> IF s = {} THEN d ELSE Moved(f[s \ {Max(s)}], q[Max(s)])]
  <2>1. \E g \in [SUBSET (1..n) -> T] : \A s \in SUBSET (1..n) :
          g[s] = IF s = {} THEN d ELSE h[<<g[s \ {Max(s)}], Max(s)>>]
    <3> HIDE DEF f
    <3>1. h \in [T \X (1..n) -> T]
      BY <1>3 DEF h
    <3>2. \E g : IsFold(g, n, T, d, h)
      BY <1>1, <3>1, FoldExists
    <3> QED
      BY <3>2 DEF IsFold
  <2>2. PICK g \in [SUBSET (1..n) -> T] : \A s \in SUBSET (1..n) :
          g[s] = IF s = {} THEN d ELSE h[<<g[s \ {Max(s)}], Max(s)>>]
    BY <2>1
  <2>3. ASSUME NEW s \in SUBSET (1..n)
        PROVE  g[s] = IF s = {} THEN d ELSE Moved(g[s \ {Max(s)}], q[Max(s)])
    <3> HIDE DEF f
    <3>1. s # {} => Max(s) \in 1..n /\ g[s \ {Max(s)}] \in T
      BY <1>1, MaxOfSome
    <3> QED
      BY <2>2, <3>1 DEF h
  <2>4. g = [s \in SUBSET (1..n) |-> IF s = {} THEN d ELSE Moved(g[s \ {Max(s)}], q[Max(s)])]
    <3> HIDE DEF f
    <3>1. g = [s \in SUBSET (1..n) |-> g[s]]
      OBVIOUS
    <3> QED
      BY <2>3, <3>1
  <2> QED
    BY <2>4
<1> HIDE DEF f
<1>5. ASSUME NEW i \in 1..n, f[1..(i - 1)] \in P[i - 1] PROVE f[1..i] \in P[i]
  <2> DEFINE e == f[1..(i - 1)]
  <2>1. f[1..i] = Moved(e, q[i])
    <3>1. (1..i) \in SUBSET (1..n) /\ i \in Nat /\ i > 0
      BY <1>1
    <3>2. Max(1..i) = i /\ (1..i) \ {i} = 1..(i - 1) /\ 1..i # {}
      BY <3>1, MaxOfFirst
    <3> QED
      BY <1>4, <3>1, <3>2
  <2>2. i - 1 \in 0..n /\ i \in 0..n
    BY <1>1
  <2> HIDE DEF e
  <2>3. e \in R
    BY <1>5, <2>2 DEF P, e
  <2>4. Moved(e, q[i]) \in R
    BY <1>3, <2>3 DEF R
  <2> QED
    BY <2>1, <2>2, <2>4 DEF P
<1>6. f[{}] \in P[0]
  <2>1. {} \in SUBSET (1..n) /\ 0 \in 0..n
    BY <1>1
  <2> QED
    BY <1>1, <1>4, <2>1 DEF P
<1>7. f[1..n] \in P[n]
  BY <1>1, <1>5, <1>6, FoldSteps
<1>8. a \in R
  <2>1. n \in 0..n
    BY <1>1
  <2> QED
    BY <1>2, <1>7, <2>1 DEF P
<1> QED
  BY <1>1, <1>8 DEF a, R, T, Good

\* The chunks of n bits.
LEMMA ChunkFacts ==
  ASSUME NEW n \in Nat
  PROVE  /\ Chunks(n) \in Nat
         /\ \A i \in 1..Chunks(n) : /\ Begin(i) \in Nat /\ Chunk(n, i) \in Nat
                                    /\ Begin(i) + Chunk(n, i) <= n
<1>1. BITS \in Nat \ {0}
  BY BitsAssumption
<1> DEFINE k == n + BITS - 1
           c == k \div BITS
<1>2. k \in Nat
  BY <1>1
<1>3. c \in Nat /\ c * BITS <= k
  <2> HIDE DEF k
  <2>1. c \in Nat /\ k % BITS \in 0..(BITS - 1) /\ k = (c * BITS) + (k % BITS)
    BY <1>1, <1>2
  <2> HIDE DEF c
  <2> QED
    BY <1>1, <1>2, <2>1
<1> HIDE DEF c
<1>4. ASSUME NEW i \in 1..c
      PROVE  /\ Begin(i) \in Nat /\ Chunk(n, i) \in Nat /\ Begin(i) + Chunk(n, i) <= n
  <2>1. i - 1 \in Nat /\ i <= c /\ i \in Nat
    BY <1>3
  <2>2. (i - 1) * BITS \in Nat /\ i * BITS <= c * BITS /\ (i - 1) * BITS = (i * BITS) - BITS
    BY <1>1, <1>3, <2>1
  <2> DEFINE b == (i - 1) * BITS
             e == i * BITS
             z == c * BITS
  <2>3. b \in Nat /\ e <= z /\ b = e - BITS /\ z <= n + BITS - 1 /\ e \in Int /\ z \in Int
    BY <1>1, <1>3, <2>1, <2>2
  <2> HIDE DEF b, e, z
  <2>4. b \in Nat /\ b <= n
    BY <1>1, <2>3
  <2>5. Begin(i) = b
    BY DEF b, Begin
  <2> QED
    BY <1>1, <2>4, <2>5 DEF Chunk, Smaller
<1>5. Chunks(n) = c
  BY DEF Chunks, c
<1> QED
  BY <1>3, <1>4, <1>5

\* shl and shr move bits within the set.
LEMMA ShiftMoves ==
  ASSUME NEW p \in Nat, NEW n \in Nat, n < p
  PROVE  /\ MovesLeft(p, n) \in Seq(MovesIn(p))
         /\ LastUsed(p) = p \/ LastUsed(p) + n <= p => MovesRight(p, n) \in Seq(MovesIn(p))
<1>1. p - n \in Nat /\ Chunks(p - n) \in Nat /\ Chunks(n) \in Nat
  BY ChunkFacts
<1>2. MovesLeft(p, n) \in Seq(MovesIn(p))
  <2> DEFINE kept == p - n
             a == [i \in 1..Chunks(kept) |->
                     [from |-> n + Begin(i), to |-> Begin(i), bits |-> Chunk(kept, i)]]
             b == [i \in 1..Chunks(n) |->
                     [from |-> Nowhere, to |-> kept + Begin(i), bits |-> Chunk(n, i)]]
  <2>1. MovesLeft(p, n) = a \o b
    BY DEF MovesLeft, Moves
  <2>2. ASSUME NEW i \in 1..Chunks(kept)
        PROVE  [from |-> n + Begin(i), to |-> Begin(i), bits |-> Chunk(kept, i)] \in MovesIn(p)
    <3>1. Begin(i) \in Nat /\ Chunk(kept, i) \in Nat /\ Begin(i) + Chunk(kept, i) <= kept
      BY <1>1, ChunkFacts
    <3> QED
      BY <3>1 DEF MovesIn
  <2>3. ASSUME NEW i \in 1..Chunks(n)
        PROVE  [from |-> Nowhere, to |-> kept + Begin(i), bits |-> Chunk(n, i)] \in MovesIn(p)
    <3>1. Begin(i) \in Nat /\ Chunk(n, i) \in Nat /\ Begin(i) + Chunk(n, i) <= n
      BY <1>1, ChunkFacts
    <3> QED
      BY <3>1 DEF MovesIn, Nowhere
  <2>4. a \in Seq(MovesIn(p)) /\ b \in Seq(MovesIn(p))
    BY <1>1, <2>2, <2>3
  <2> HIDE DEF a, b
  <2> QED
    BY <2>1, <2>4, ConcatProperties
<1>3. ASSUME LastUsed(p) = p \/ LastUsed(p) + n <= p PROVE MovesRight(p, n) \in Seq(MovesIn(p))
  <2> DEFINE single == LastUsed(p) = p
             first == IF single THEN p - n ELSE LastUsed(p)
             r == p - first - n
             w == r + n
             Left(k, i) == k - Begin(i) - Chunk(k, i)
             a == <<[from |-> r, to |-> w, bits |-> first]>>
             b == [i \in 1..Chunks(r) |->
                     [from |-> Left(r, i), to |-> Left(r, i) + n, bits |-> Chunk(r, i)]]
             c == [i \in 1..Chunks(n) |->
                     [from |-> Nowhere, to |-> Left(n, i), bits |-> Chunk(n, i)]]
  <2>1. MovesRight(p, n) = a \o b \o c
    BY DEF MovesRight, Moves
  <2>2. LastUsed(p) \in Nat
    <3>1. BITS \in Nat \ {0}
      BY BitsAssumption
    <3>2. p % BITS \in Nat
      BY <3>1
    <3> QED
      BY <3>1, <3>2 DEF LastUsed
  <2>3. first \in Nat /\ r \in Nat /\ w \in Nat /\ r + first <= p /\ w + first <= p /\ r + n <= p
    BY <1>3, <2>2
  <2> HIDE DEF first, r, w
  <2>4. Chunks(r) \in Nat
    BY <2>3, ChunkFacts
  <2>5. [from |-> r, to |-> w, bits |-> first] \in MovesIn(p)
    BY <2>3 DEF MovesIn
  <2>6. ASSUME NEW i \in 1..Chunks(r)
        PROVE  [from |-> Left(r, i), to |-> Left(r, i) + n, bits |-> Chunk(r, i)] \in MovesIn(p)
    <3>1. Begin(i) \in Nat /\ Chunk(r, i) \in Nat /\ Begin(i) + Chunk(r, i) <= r
      BY <2>3, ChunkFacts
    <3> QED
      BY <2>3, <3>1 DEF MovesIn
  <2>7. ASSUME NEW i \in 1..Chunks(n)
        PROVE  [from |-> Nowhere, to |-> Left(n, i), bits |-> Chunk(n, i)] \in MovesIn(p)
    <3>1. Begin(i) \in Nat /\ Chunk(n, i) \in Nat /\ Begin(i) + Chunk(n, i) <= n
      BY <1>1, ChunkFacts
    <3> QED
      BY <2>3, <3>1 DEF MovesIn, Nowhere
  <2>8. a \in Seq(MovesIn(p)) /\ b \in Seq(MovesIn(p)) /\ c \in Seq(MovesIn(p))
    BY <1>1, <2>4, <2>5, <2>6, <2>7
  <2> HIDE DEF a, b, c
  <2> QED
    BY <2>1, <2>8, ConcatProperties
<1> QED
  BY <1>2, <1>3

-----------------------------------------------------------------------------
\* A block that is read is a string.
LEMMA BlockIsString ==
  ASSUME NEW d \in Seq(Bin), NEW ofs \in Nat, NEW n \in Nat, ofs + n <= Len(d)
  PROVE  GetBlock(d, ofs, n) \in Seq(Bin) /\ Len(GetBlock(d, ofs, n)) = n
  BY GetBlockFacts, BinSeq

\* The constructor from a range: the whole blocks it begins with.
LEMMA RangeFacts ==
  ASSUME NEW d \in Seq(Bin), NEW first \in Nat, NEW n \in Nat, first + n <= Len(d)
  PROVE  /\ n % BITS \in 0..(BITS - 1) /\ n - (n % BITS) \in Nat
         /\ Good(FlattenSeq([i \in 1..(n \div BITS) |-> GetBlock(d, first + Begin(i), BITS)]),
                 n - (n % BITS))
<1> DEFINE c == n \div BITS
           rest == n % BITS
           s == [i \in 1..c |-> GetBlock(d, first + Begin(i), BITS)]
<1>1. BITS \in Nat \ {0}
  BY BitsAssumption
<1>2. c \in Nat /\ rest \in 0..(BITS - 1) /\ n = (c * BITS) + rest
  BY <1>1
<1> HIDE DEF c, rest
<1>3. ASSUME NEW i \in 1..c
      PROVE  GetBlock(d, first + Begin(i), BITS) \in Seq(Bin)
             /\ Len(GetBlock(d, first + Begin(i), BITS)) = BITS
  <2>1. i - 1 \in Nat /\ i <= c
    BY <1>2
  <2>2. (i - 1) * BITS \in Nat /\ i * BITS <= c * BITS /\ (i - 1) * BITS = (i * BITS) - BITS
    BY <1>1, <1>2, <2>1
  <2>3. Begin(i) \in Nat /\ Begin(i) + BITS <= n
    BY <1>1, <1>2, <2>2 DEF Begin
  <2>4. first + Begin(i) \in Nat /\ (first + Begin(i)) + BITS <= Len(d)
    BY <1>1, <2>3, BinFun
  <2> QED
    BY <1>1, <2>4, BlockIsString
<1>4. s \in Seq(Seq(Bin)) /\ Len(s) = c /\ \A i \in 1..Len(s) : Len(s[i]) = BITS
  BY <1>2, <1>3
<1> HIDE DEF s
<1>5. FlattenSeq(s) \in Seq(Bin) /\ Len(FlattenSeq(s)) = c * BITS
  BY <1>1, <1>4, FlattenLength
<1>6. c * BITS \in Nat /\ c * BITS = n - rest
  BY <1>1, <1>2
<1>7. c * BITS \in Whole
  <2>1. \E k \in Nat : c * BITS = k * BITS
    BY <1>2
  <2>2. (c * BITS) % BITS = 0
    BY <1>6, <2>1, WholeIs
  <2> QED
    BY <1>6, <2>2 DEF Whole
<1>8. Good(FlattenSeq(s), n - rest)
  <2> DEFINE z == FlattenSeq(s)
             k == n - rest
  <2>1. z \in Seq(Bin) /\ Len(z) = k /\ k \in Whole /\ k \in Nat
    BY <1>5, <1>6, <1>7
  <2> HIDE DEF z, k
  <2>2. k \in 0..Len(z) /\ \A i \in (k + 1)..Len(z) : z[i] = 0
    BY <2>1
  <2> QED
    BY <2>1, <2>2 DEF Good, z, k
<1> QED
  BY <1>2, <1>6, <1>8 DEF c, rest, s

\* Sums of sizes.
LEMMA Sums ==
  ASSUME NEW a \in Nat, NEW m \in Nat, NEW r \in Nat, NEW n \in Nat, n = m + r,
         NEW l \in Nat, a + n <= l
  PROVE  /\ a + m \in Nat /\ a + m <= l /\ a <= a + m /\ (a + m) - a = m
         /\ (a + m) + r = a + n /\ (a + m) + r <= l
         /\ n - r = m
OBVIOUS

\* The bits behind the whole blocks of n, and how many blocks these are.
Rest(n) == n % BITS
Blocks(n) == n \div BITS

\* Then the rest, so that a vector of the range's size is what becomes of it.
LEMMA RangeGood ==
  ASSUME NEW d \in Seq(Bin), NEW first \in Nat, NEW n \in Nat, first + n <= Len(d),
         NEW rest, rest = Rest(n),
         NEW w, w = FlattenSeq([i \in 1..Blocks(n) |-> GetBlock(d, first + Begin(i), BITS)]),
         NEW v, v = GetBlock(d, first + n - rest, rest)
  PROVE  Good(IF rest = 0 THEN w ELSE Appended(w, n - rest, v, rest), n)
<1> DEFINE m == n - rest
<1>1. rest \in 0..(BITS - 1) /\ m \in Nat /\ Good(w, m)
  BY RangeFacts DEF Rest, Blocks
<1>2. rest \in Nat /\ m + rest = n /\ Len(d) \in Nat /\ BITS \in Nat
  <2>1. Len(d) \in Nat /\ BITS \in Nat
    BY BinFun, BitsAssumption
  <2> HIDE DEF m
  <2>2. rest \in Nat
    BY <1>1, <2>1
  <2> QED
    BY <2>1, <2>2 DEF m
<1>3. m = n - rest
  OBVIOUS
<1> HIDE DEF m
<1>4. CASE rest = 0
  BY <1>1, <1>2, <1>4
<1>5. CASE rest # 0
  <2> DEFINE o == first + (n - rest)
  <2>1. o \in Nat /\ o + rest <= Len(d)
    <3>1. first + m \in Nat /\ (first + m) + rest <= Len(d)
      BY <1>1, <1>2, Sums, SMTT(60)
    <3>2. o = first + m
      BY <1>3
    <3> QED
      BY <3>1, <3>2
  <2>2. v = GetBlock(d, o, rest)
    OBVIOUS
  <2> HIDE DEF o
  <2>3. v \in Seq(Bin) /\ Len(v) = rest
    BY <1>2, <2>1, <2>2, BlockIsString
  <2>4. rest \in 1..Len(v)
    BY <1>2, <1>5, <2>3
  <2>5. Good(Appended(w, m, v, rest), m + rest)
    BY <1>1, <2>3, <2>4, AppendedFacts
  <2> QED
    BY <1>2, <1>3, <1>5, <2>5
<1> QED
  BY <1>4, <1>5

\* A set of the bits of a string and no other.
LEMMA CanonicalFacts ==
  ASSUME NEW t \in Seq(Bin)
  PROVE  /\ CanonicalData(t) \in Seq(Bin) /\ Len(CanonicalData(t)) = Up(Len(t))
         /\ Up(Len(t)) \in Nat /\ Len(t) \in Nat /\ Len(t) <= Up(Len(t))
         /\ \A i \in 1..Up(Len(t)) : CanonicalData(t)[i] = IF i <= Len(t) THEN t[i] ELSE 0
<1> DEFINE n == Len(t)
           k == Up(n) - n
           z == S!Zeros(k)
<1>1. n \in Nat /\ Up(n) \in Nat /\ k \in Nat /\ n + k = Up(n) /\ n <= Up(n)
  BY BinFun, UpFacts DEF Whole
<1>2. z \in Seq(Bin) /\ Len(z) = k /\ \A i \in 1..k : z[i] = 0
  <2> HIDE DEF k
  <2> QED
    BY <1>1, ZerosFacts
<1>3. CanonicalData(t) = t \o z
  BY DEF CanonicalData
<1> HIDE DEF z, k
<1>4. /\ t \o z \in Seq(Bin) /\ Len(t \o z) = n + k
      /\ \A i \in 1..(n + k) : (t \o z)[i] = IF i <= n THEN t[i] ELSE z[i - n]
  BY <1>1, <1>2, Concat
<1>5. ASSUME NEW i \in 1..Up(n), ~(i <= n) PROVE i - n \in 1..k
  BY <1>1, <1>5
<1> HIDE DEF n
<1> QED
  BY <1>1, <1>2, <1>3, <1>4, <1>5 DEF n

\* Two vectors combined bit by bit: h is what becomes of two bits.
Applied(r, e, c, h) ==
  /\ r = [i \in DOMAIN e |-> r[i]]
  /\ \A i \in DOMAIN e : e[i] \in Bin /\ c[i] \in Bin => r[i] = h[<<e[i], c[i]>>]

\* What operator|= and ^= do to a set of p bits.
IsCombined(r, d, p, t, h) ==
  /\ Good(r, Larger(p, Len(t)))
  /\ \A i \in 1..Larger(p, Len(t)) :
       r[i] = h[<<IF i <= p THEN d[i] ELSE 0, IF i <= Len(t) THEN t[i] ELSE 0>>]

\* They combine the blocks of both sets, this one extended if it is shorter.
LEMMA GrownFacts ==
  ASSUME NEW d, NEW p, Good(d, p), NEW t \in Seq(Bin),
         NEW h \in [Bin \X Bin -> Bin], h[<<0, 0>>] = 0,
         NEW e, e = IF p < Len(t) THEN Extended(d, p, Len(t) - p) ELSE d,
         ~(Len(e) > Len(CanonicalData(t))),
         NEW r, Applied(r, e, CanonicalData(t), h)
  PROVE  IsCombined(r, d, p, t, h)
<1> DEFINE n == Len(t)
           c == CanonicalData(t)
           m == Larger(p, n)
<1>1. /\ d \in Seq(Bin) /\ p \in Nat /\ p <= Len(d) /\ Len(d) \in Nat
      /\ c \in Seq(Bin) /\ n \in Nat /\ n <= Len(c) /\ Len(c) \in Nat
      /\ \A i \in 1..Len(c) : c[i] = IF i <= n THEN t[i] ELSE 0
  BY BinFun, CanonicalFacts DEF Good
<1> HIDE DEF c, n
<1>2. /\ e \in Seq(Bin) /\ Len(e) \in Whole /\ Len(e) \in Nat /\ p <= Len(e) /\ n <= Len(e)
      /\ \A i \in 1..p : e[i] = d[i]
      /\ \A i \in (p + 1)..Len(e) : e[i] = 0
  <2>1. CASE p < n
    <3> DEFINE k == n - p
    <3>1. k \in Nat /\ p + k = n
      BY <1>1, <2>1
    <3>2. e = Extended(d, p, k)
      BY <2>1 DEF n
    <3> HIDE DEF k
    <3>3. /\ e \in Seq(Bin) /\ Len(e) \in Whole /\ p + k <= Len(e) /\ Len(d) <= Len(e)
          /\ \A i \in 1..Len(d) : e[i] = d[i]
          /\ \A i \in (p + 1)..Len(e) : e[i] = 0
      <4> DEFINE x == Extended(d, p, k)
      <4>1. /\ x \in Seq(Bin) /\ Len(x) \in Whole /\ p + k <= Len(x) /\ Len(d) <= Len(x)
            /\ \A i \in 1..Len(d) : x[i] = d[i]
            /\ \A i \in (p + 1)..Len(x) : x[i] = 0
        BY <3>1, ExtendedFacts
      <4>2. x = e
        BY <3>2
      <4> HIDE DEF x
      <4> QED
        BY <4>1, <4>2
    <3>4. \A i \in 1..p : i \in 1..Len(d)
      BY <1>1
    <3> QED
      BY <1>1, <3>1, <3>3, <3>4 DEF Whole
  <2>2. CASE ~(p < n)
    <3>1. e = d
      BY <2>2 DEF n
    <3> QED
      BY <1>1, <2>2, <3>1 DEF Good
  <2> QED
    BY <2>1, <2>2
<1>3. m \in Nat /\ m <= Len(e) /\ p <= m /\ n <= m
  BY <1>1, <1>2 DEF Larger
<1>4. DOMAIN e = 1..Len(e) /\ \A i \in 1..Len(e) : e[i] \in Bin /\ c[i] \in Bin /\ i \in 1..Len(c)
  <2>1. \A i \in 1..Len(e) : i \in 1..Len(c)
    BY <1>1, <1>2 DEF c
  <2> QED
    BY <1>1, <1>2, <2>1, BinFun
<1>5. r = [i \in 1..Len(e) |-> r[i]] /\ \A i \in 1..Len(e) : r[i] = h[<<e[i], c[i]>>]
  BY <1>4 DEF c, Applied
<1>6. r \in [1..Len(e) -> Bin]
  <2>1. \A i \in 1..Len(e) : h[<<e[i], c[i]>>] \in Bin
    BY <1>4
  <2> QED
    BY <1>5, <2>1
<1>7. r \in Seq(Bin) /\ Len(r) = Len(e)
  BY <1>2, <1>6, BinSeq
<1> HIDE DEF m
<1>8. ASSUME NEW i \in (m + 1)..Len(e) PROVE r[i] = 0
  <2>1. i \in 1..Len(e) /\ i \in (p + 1)..Len(e) /\ ~(i <= n)
    BY <1>1, <1>2, <1>3
  <2>2. e[i] = 0 /\ c[i] = 0
    BY <1>1, <1>2, <1>4, <2>1
  <2> QED
    BY <1>5, <2>1, <2>2
<1>9. ASSUME NEW i \in 1..m
      PROVE  r[i] = h[<<IF i <= p THEN d[i] ELSE 0, IF i <= n THEN t[i] ELSE 0>>]
  <2>1. i \in 1..Len(e)
    BY <1>2, <1>3
  <2>2. e[i] = IF i <= p THEN d[i] ELSE 0
    <3>1. i <= p => i \in 1..p
      BY <1>1, <1>3
    <3>2. ~(i <= p) => i \in (p + 1)..Len(e)
      BY <1>1, <1>2, <2>1
    <3> QED
      BY <1>2, <3>1, <3>2
  <2>3. c[i] = IF i <= n THEN t[i] ELSE 0
    BY <1>1, <1>4, <2>1
  <2> QED
    BY <1>5, <2>1, <2>2, <2>3
<1>10. m \in 0..Len(r)
  BY <1>2, <1>3, <1>7
<1> QED
  BY <1>2, <1>7, <1>8, <1>9, <1>10 DEF Good, m, n, IsCombined

\* operator|=
LEMMA OrFacts ==
  ASSUME NEW d, NEW p, Good(d, p), NEW t \in Seq(Bin),
         NEW e, e = IF p < Len(t) THEN Extended(d, p, Len(t) - p) ELSE d,
         ~(Len(e) > Len(CanonicalData(t))),
         NEW r, r = [i \in DOMAIN e |-> S!OrBit(e[i], CanonicalData(t)[i])]
  PROVE  /\ Good(r, Larger(p, Len(t)))
         /\ \A i \in 1..Larger(p, Len(t)) :
              r[i] = S!OrBit(IF i <= p THEN d[i] ELSE 0, IF i <= Len(t) THEN t[i] ELSE 0)
<1> DEFINE h == [x \in Bin \X Bin |-> S!OrBit(x[1], x[2])]
<1>1. \A x, y \in Bin : S!OrBit(x, y) \in Bin /\ S!OrBit(0, 0) = 0
  BY DEF S!OrBit, Bin
<1>2. \A x, y \in Bin : h[<<x, y>>] = S!OrBit(x, y)
  OBVIOUS
<1>3. h \in [Bin \X Bin -> Bin] /\ h[<<0, 0>>] = 0
  BY <1>1 DEF Bin
<1> HIDE DEF h
<1>4. Applied(r, e, CanonicalData(t), h)
  BY <1>2 DEF Applied
<1>5. /\ Good(r, Larger(p, Len(t)))
      /\ \A i \in 1..Larger(p, Len(t)) :
           r[i] = h[<<IF i <= p THEN d[i] ELSE 0, IF i <= Len(t) THEN t[i] ELSE 0>>]
  <2>1. IsCombined(r, d, p, t, h)
    BY <1>3, <1>4, GrownFacts
  <2> QED
    BY <2>1 DEF IsCombined
<1>6. ASSUME NEW i \in 1..Larger(p, Len(t))
      PROVE  (IF i <= p THEN d[i] ELSE 0) \in Bin /\ (IF i <= Len(t) THEN t[i] ELSE 0) \in Bin
  <2>1. p \in Nat /\ p <= Len(d) /\ d \in Seq(Bin) /\ Len(d) \in Nat /\ Len(t) \in Nat
    BY BinFun DEF Good
  <2>2. i \in Nat /\ i >= 1
    BY <2>1 DEF Larger
  <2>3. i <= p => d[i] \in Bin
    BY <2>1, <2>2, BinFun
  <2>4. i <= Len(t) => t[i] \in Bin
    BY <2>1, <2>2, BinFun
  <2> QED
    BY <2>3, <2>4 DEF Bin
<1> QED
  BY <1>2, <1>5, <1>6

\* operator^=
LEMMA XorFacts ==
  ASSUME NEW d, NEW p, Good(d, p), NEW t \in Seq(Bin),
         NEW e, e = IF p < Len(t) THEN Extended(d, p, Len(t) - p) ELSE d,
         ~(Len(e) > Len(CanonicalData(t))),
         NEW r, r = [i \in DOMAIN e |-> S!XorBit(e[i], CanonicalData(t)[i])]
  PROVE  /\ Good(r, Larger(p, Len(t)))
         /\ \A i \in 1..Larger(p, Len(t)) :
              r[i] = S!XorBit(IF i <= p THEN d[i] ELSE 0, IF i <= Len(t) THEN t[i] ELSE 0)
<1> DEFINE h == [x \in Bin \X Bin |-> S!XorBit(x[1], x[2])]
<1>1. \A x, y \in Bin : S!XorBit(x, y) \in Bin /\ S!XorBit(0, 0) = 0
  BY DEF S!XorBit, Bin
<1>2. \A x, y \in Bin : h[<<x, y>>] = S!XorBit(x, y)
  OBVIOUS
<1>3. h \in [Bin \X Bin -> Bin] /\ h[<<0, 0>>] = 0
  BY <1>1 DEF Bin
<1> HIDE DEF h
<1>4. Applied(r, e, CanonicalData(t), h)
  BY <1>2 DEF Applied
<1>5. /\ Good(r, Larger(p, Len(t)))
      /\ \A i \in 1..Larger(p, Len(t)) :
           r[i] = h[<<IF i <= p THEN d[i] ELSE 0, IF i <= Len(t) THEN t[i] ELSE 0>>]
  <2>1. IsCombined(r, d, p, t, h)
    BY <1>3, <1>4, GrownFacts
  <2> QED
    BY <2>1 DEF IsCombined
<1>6. ASSUME NEW i \in 1..Larger(p, Len(t))
      PROVE  (IF i <= p THEN d[i] ELSE 0) \in Bin /\ (IF i <= Len(t) THEN t[i] ELSE 0) \in Bin
  <2>1. p \in Nat /\ p <= Len(d) /\ d \in Seq(Bin) /\ Len(d) \in Nat /\ Len(t) \in Nat
    BY BinFun DEF Good
  <2>2. i \in Nat /\ i >= 1
    BY <2>1 DEF Larger
  <2>3. i <= p => d[i] \in Bin
    BY <2>1, <2>2, BinFun
  <2>4. i <= Len(t) => t[i] \in Bin
    BY <2>1, <2>2, BinFun
  <2> QED
    BY <2>3, <2>4 DEF Bin
<1> QED
  BY <1>2, <1>5, <1>6

\* operator&=: the bits beyond the other's size are reset.
Cut(d, p, n) == [i \in DOMAIN d |-> IF i \in (n + 1)..p THEN 0 ELSE d[i]]

\* Both sets are then combined to the size of the shorter one.
LEMMA AndFacts ==
  ASSUME NEW d, NEW p, Good(d, p), NEW t \in Seq(Bin),
         NEW e, e = Cut(d, p, Len(t)),
         ~(Len(e) > Len(CanonicalData(t))),
         NEW r, r = [i \in DOMAIN e |-> S!AndBit(e[i], CanonicalData(t)[i])]
  PROVE  /\ Good(r, Smaller(p, Len(t)))
         /\ \A i \in 1..Smaller(p, Len(t)) : r[i] = S!AndBit(d[i], t[i])
<1> DEFINE n == Len(t)
           c == CanonicalData(t)
           m == Smaller(p, n)
           L == Len(d)
<1>1. /\ d \in Seq(Bin) /\ p \in Nat /\ p <= L /\ L \in Nat /\ L \in Whole
      /\ c \in Seq(Bin) /\ n \in Nat /\ n <= Len(c) /\ Len(c) \in Nat
      /\ \A i \in 1..Len(c) : c[i] = IF i <= n THEN t[i] ELSE 0
      /\ DOMAIN d = 1..L /\ \A i \in 1..L : d[i] \in Bin
      /\ \A i \in (p + 1)..L : d[i] = 0
  BY BinFun, CanonicalFacts, SMTT(60) DEF Good
<1> HIDE DEF c, n, L
<1>2. e = [i \in 1..L |-> IF i \in (n + 1)..p THEN 0 ELSE d[i]]
  BY <1>1 DEF n, Cut
<1>3. e \in [1..L -> Bin]
  BY <1>1, <1>2 DEF Bin
<1>4. Len(e) = L /\ DOMAIN e = 1..L /\ L <= Len(c)
  <2>1. Len(e) = L /\ DOMAIN e = 1..L
    BY <1>1, <1>3, BinSeq
  <2> QED
    BY <2>1 DEF c
<1>5. \A x, y \in Bin : S!AndBit(x, y) \in Bin /\ S!AndBit(0, y) = 0
  BY DEF S!AndBit, Bin
<1>6. r = [i \in 1..L |-> S!AndBit(e[i], c[i])]
  BY <1>4 DEF c
<1>7. \A i \in 1..L : i \in 1..Len(c) /\ c[i] \in Bin /\ e[i] \in Bin
  <2>1. \A i \in 1..L : i \in 1..Len(c)
    BY <1>1, <1>4
  <2> QED
    BY <1>1, <1>3, <2>1, BinFun
<1>8. r \in [1..L -> Bin]
  BY <1>5, <1>6, <1>7
<1>9. r \in Seq(Bin) /\ Len(r) = L
  BY <1>1, <1>8, BinSeq
<1>10. m \in Nat /\ m <= p /\ m <= n /\ m \in 0..L /\ (m = p \/ m = n)
  BY <1>1 DEF Smaller
<1> HIDE DEF m
<1>11. ASSUME NEW i \in (m + 1)..L PROVE r[i] = 0
  <2>1. i \in 1..L /\ i \in Nat
    BY <1>1, <1>10
  <2>2. e[i] = 0
    <3>1. i > p => i \in (p + 1)..L
      BY <1>1, <2>1
    <3>2. ~(i > p) => i \in (n + 1)..p
      BY <1>1, <1>10, <2>1
    <3>3. e[i] = IF i \in (n + 1)..p THEN 0 ELSE d[i]
      BY <1>2, <2>1
    <3>4. i > p => d[i] = 0
      BY <1>1, <3>1
    <3> QED
      BY <3>2, <3>3, <3>4
  <2> QED
    BY <1>5, <1>6, <1>7, <2>1, <2>2
<1>12. ASSUME NEW i \in 1..m PROVE r[i] = S!AndBit(d[i], t[i])
  <2>1. i \in 1..L /\ i <= n /\ i \notin (n + 1)..p
    BY <1>1, <1>10
  <2> QED
    BY <1>1, <1>2, <1>6, <1>7, <2>1
<1> QED
  BY <1>1, <1>9, <1>10, <1>11, <1>12 DEF Good, m, n

-----------------------------------------------------------------------------
\* The arguments of a call.
LEMMA CallFacts ==
  ASSUME NEW c \in Calls
  PROVE  /\ c.op \in {"append", "set"} => c.v \in Seq(Bin) /\ c.bits \in 1..Len(c.v)
         /\ c.op \in {"append_set", "set_set", "|=", "&=", "^="} => c.other \in Seq(Bin)
         /\ c.op \in {"set", "set_set", "get"} => c.ofs \in Nat
         /\ c.op \in {"set_bit", "flip"} => c.index \in Nat
         /\ c.op = "set_bit" => c.v \in Bin
         /\ c.op \in {"range", "count"} => c.first \in Nat /\ c.last \in Nat
         /\ c.op = "get" => c.bits \in Nat \ {0}
         /\ c.op \in {"shl", "shr"} => c.bits \in Nat
         /\ c.op = "reserve" => c.blocks \in Nat
<1>1. IsCall(c)
  BY CallsAssumption
<1>2. S!Bit = Bin
  BY DEF S!Bit, Bin
<1>3. c.op \in {"append", "set"} => c.v \in Seq(Bin) /\ c.bits \in 1..Len(c.v)
  BY <1>1, <1>2 DEF IsCall
<1>4. c.op \in {"append_set", "set_set", "|=", "&=", "^="} => c.other \in Seq(Bin)
  BY <1>1, <1>2 DEF IsCall
<1>5. c.op \in {"set", "set_set", "get"} => c.ofs \in Nat
  BY <1>1 DEF IsCall
<1>6. c.op \in {"set_bit", "flip"} => c.index \in Nat
  BY <1>1 DEF IsCall
<1>7. c.op = "set_bit" => c.v \in Bin
  BY <1>1, <1>2 DEF IsCall
<1>8. c.op \in {"range", "count"} => c.first \in Nat /\ c.last \in Nat
  BY <1>1 DEF IsCall
<1>9. (c.op = "get" => c.bits \in Nat \ {0}) /\ (c.op = "reserve" => c.blocks \in Nat)
  BY <1>1 DEF IsCall
<1>10. c.op \in {"shl", "shr"} => c.bits \in Nat
  BY <1>1 DEF IsCall
<1> QED
  BY <1>3, <1>4, <1>5, <1>6, <1>7, <1>8, <1>9, <1>10

\* The n rightmost bits of a value.
LEMMA LowFacts ==
  ASSUME NEW v \in Seq(Bin), NEW n \in 1..Len(v)
  PROVE  /\ S!Low(v, n) \in Seq(Bin) /\ Len(S!Low(v, n)) = n
         /\ \A i \in 1..n : S!Low(v, n)[i] = v[(Len(v) - n) + i]
<1> DEFINE a == Len(v) - n + 1
           b == Len(v)
<1>1. a \in 1..b /\ b \in Nat /\ b \in 1..b /\ b - a + 1 = n /\ a = (b - n) + 1 /\ n \in Nat
  BY BinFun
<1>2. S!Low(v, n) = SubSeq(v, a, b)
  BY DEF S!Low
<1> HIDE DEF a
<1>3. /\ SubSeq(v, a, b) \in Seq(Bin) /\ Len(SubSeq(v, a, b)) = n
      /\ \A i \in 1..n : SubSeq(v, a, b)[i] = v[a + i - 1]
  BY <1>1, SubSeqProperties
<1>4. \A i \in 1..n : a + i - 1 = (b - n) + i
  BY <1>1
<1> HIDE DEF b
<1> QED
  BY <1>2, <1>3, <1>4 DEF b

\* reset()
LEMMA ResetFacts ==
  ASSUME NEW d, NEW p, Good(d, p)
  PROVE  Good(S!Zeros(Len(d)), p)
<1>1. Len(d) \in Nat /\ Len(d) \in Whole /\ p \in 0..Len(d)
  BY BinFun DEF Good
<1> DEFINE L == Len(d)
<1> HIDE DEF L
<1>2. S!Zeros(L) \in Seq(Bin) /\ Len(S!Zeros(L)) = L /\ \A i \in 1..L : S!Zeros(L)[i] = 0
  BY <1>1, ZerosFacts DEF L
<1>3. \A i \in (p + 1)..L : i \in 1..L
  BY <1>1 DEF L
<1> QED
  BY <1>1, <1>2, <1>3 DEF Good, L

\* One bit of the set.
LEMMA ChangedFacts ==
  ASSUME NEW d, NEW p, Good(d, p), NEW k \in Nat, k < p, NEW b \in Bin
  PROVE  Good([d EXCEPT ![k + 1] = b], p)
<1>1. /\ d \in Seq(Bin) /\ Len(d) \in Whole /\ Len(d) \in Nat /\ p \in 0..Len(d)
      /\ DOMAIN d = 1..Len(d) /\ d \in [1..Len(d) -> Bin]
      /\ \A i \in (p + 1)..Len(d) : d[i] = 0
  BY BinFun DEF Good
<1> DEFINE L == Len(d)
           e == [d EXCEPT ![k + 1] = b]
<1>2. e \in [1..L -> Bin] /\ \A i \in 1..L : i # k + 1 => e[i] = d[i]
  BY <1>1
<1> HIDE DEF e, L
<1>3. e \in Seq(Bin) /\ Len(e) = L
  BY <1>1, <1>2, BinSeq DEF L
<1>4. \A i \in (p + 1)..L : i \in 1..L /\ i # k + 1
  BY <1>1 DEF L
<1> QED
  BY <1>1, <1>2, <1>3, <1>4 DEF Good, L, e

-----------------------------------------------------------------------------
\* The inductive invariant: whole blocks, and zeros behind the set.
IInv == Good(data, pos) /\ inside \in BOOLEAN

\* A call whose effect is a good vector keeps it.
LEMMA BecomesFacts ==
  ASSUME IInv, NEW c, NEW d, NEW p, Good(d, p), Becomes(c, d, p)
  PROVE  IInv'
  BY DEF IInv, Becomes, Good, Whole

\* So does one that changes nothing, or reaches outside.
LEMMA StaysFacts ==
  ASSUME IInv, UNCHANGED <<data, pos>>, inside' \in BOOLEAN
  PROVE  IInv'
  BY DEF IInv, Good, Whole

\* Every call keeps the invariant.
LEMMA StepKeepsIInv ==
  ASSUME IInv, [Next]_vars
  PROVE  IInv'
<1> USE DEF IInv
<1>1. Good(data, pos) /\ pos \in Nat /\ Len(data) \in Nat /\ pos <= Len(data) /\ data \in Seq(Bin)
      /\ Len(data) \in Whole
  BY BinFun DEF Good
<1>2. TheSet \in Sets /\ Good(TheSet.data, TheSet.pos)
  BY <1>1 DEF TheSet, Sets
<1>3. ASSUME UNCHANGED vars PROVE IInv'
  BY <1>3, StaysFacts DEF vars
<1>4. ASSUME Outside PROVE IInv'
  BY <1>4, StaysFacts DEF Outside
<1>5. ASSUME NEW c, NEW x \in Sets, x.inside => Good(x.data, x.pos), BecomesIfInside(c, x)
      PROVE  IInv'
  <2>1. CASE x.inside
    BY <1>5, <2>1, BecomesFacts DEF BecomesIfInside
  <2>2. CASE ~x.inside
    BY <1>4, <1>5, <2>2 DEF BecomesIfInside
  <2> QED
    BY <2>1, <2>2
<1>6. ASSUME NEW c, NEW result, Returns(c, result) PROVE IInv'
  BY <1>6, StaysFacts DEF Returns
<1>7. ASSUME NEW full \in Bin PROVE Good(Counted(full), pos)
  <2> DEFINE L == Len(data)
             e == Counted(full)
  <2>1. DOMAIN data = 1..L /\ \A i \in 1..L : data[i] \in Bin
    BY <1>1, BinFun
  <2>2. \A x \in Bin : 1 - x \in Bin
    BY DEF Bin
  <2>3. \E N : e = [i \in DOMAIN data |-> IF i <= pos /\ N[i] THEN 1 - data[i] ELSE data[i]]
    <3> DEFINE Stops(b) == \E q \in BlockBits(b) : data[q + 1] # full
               Carried(b) == \A a \in BlocksInUse : a > b => ~Stops(a)
               Reached(b, q) == \A r \in BlockBits(b) : r > q => data[r + 1] = full
               N == [i \in DOMAIN data |->
                       Carried((i - 1) \div BITS) /\ Reached((i - 1) \div BITS, i - 1)]
    <3>1. e = [i \in DOMAIN data |->
                 IF i <= pos /\ Carried((i - 1) \div BITS) /\ Reached((i - 1) \div BITS, i - 1)
                   THEN 1 - data[i] ELSE data[i]]
      BY DEF Counted
    <3> HIDE DEF Carried, Reached, e
    <3>2. \A i \in DOMAIN data :
            N[i] <=> Carried((i - 1) \div BITS) /\ Reached((i - 1) \div BITS, i - 1)
      OBVIOUS
    <3> HIDE DEF N
    <3> QED
      BY <3>1, <3>2
  <2> HIDE DEF e
  <2>4. PICK N : e = [i \in DOMAIN data |-> IF i <= pos /\ N[i] THEN 1 - data[i] ELSE data[i]]
    BY <2>3
  <2>5. e \in [1..L -> Bin]
    BY <2>1, <2>2, <2>4
  <2>6. e \in Seq(Bin) /\ Len(e) = L
    BY <1>1, <2>5, BinSeq
  <2>7. \A i \in (pos + 1)..L : i \in 1..L /\ ~(i <= pos)
    BY <1>1
  <2>8. \A i \in (pos + 1)..L : e[i] = 0
    BY <2>1, <2>4, <2>7 DEF Good
  <2> QED
    BY <1>1, <2>6, <2>8 DEF Good, e
<1>8. ASSUME NEW c \in Calls, AppendValue(c) PROVE IInv'
  <2>1. c.v \in Seq(Bin) /\ c.bits \in 1..Len(c.v)
    BY <1>8, CallFacts DEF AppendValue
  <2> QED
    BY <1>1, <1>8, <2>1, AppendedFacts, BecomesFacts DEF AppendValue
<1>9. ASSUME NEW c \in Calls, AppendSet(c) PROVE IInv'
  <2>1. c.other \in Seq(Bin)
    BY <1>9, CallFacts DEF AppendSet
  <2> QED
    BY <1>1, <1>9, <2>1, AppendedSetFacts, BecomesFacts DEF AppendSet
<1>10. ASSUME NEW c \in Calls, SetValue(c) PROVE IInv'
  <2>1. c.v \in Seq(Bin) /\ c.bits \in 1..Len(c.v) /\ c.ofs \in Nat
    BY <1>10, CallFacts DEF SetValue
  <2> DEFINE v == S!Low(c.v, c.bits)
             x == SetImpl(TheSet, c.ofs, v)
  <2>2. v \in Seq(Bin)
    BY <2>1, LowFacts
  <2> HIDE DEF v
  <2>3. x \in Sets /\ (x.inside => IsWritten(x, TheSet, c.ofs, v))
    BY <1>2, <2>1, <2>2, SetImplFacts
  <2>4. BecomesIfInside(c, x)
    BY <1>10 DEF SetValue, v
  <2> HIDE DEF x
  <2> QED
    BY <1>5, <2>3, <2>4 DEF IsWritten
<1>11. ASSUME NEW c \in Calls, SetSet(c) PROVE IInv'
  <2>1. c.other \in Seq(Bin) /\ c.ofs \in Nat
    BY <1>11, CallFacts DEF SetSet
  <2> DEFINE x == SetSetImpl(TheSet, c.ofs, c.other)
  <2>2. x \in Sets /\ (x.inside => Good(x.data, x.pos))
    BY <1>2, <2>1, SetSetFacts
  <2>3. BecomesIfInside(c, x)
    BY <1>11 DEF SetSet
  <2> HIDE DEF x
  <2> QED
    BY <1>5, <2>2, <2>3
<1>12. ASSUME NEW c \in Calls, SetBit(c) PROVE IInv'
  <2>1. c.index \in Nat /\ c.v \in Bin
    BY <1>12, CallFacts DEF SetBit
  <2>2. CASE c.index < pos
    BY <1>1, <1>12, <2>1, <2>2, ChangedFacts, BecomesFacts DEF SetBit
  <2>3. CASE ~(c.index < pos)
    BY <1>1, <1>12, <2>3, BecomesFacts DEF SetBit
  <2> QED
    BY <2>2, <2>3
<1>13. ASSUME NEW c \in Calls, Flip(c) PROVE IInv'
  <2>1. c.index \in Nat
    BY <1>13, CallFacts DEF Flip
  <2>2. CASE c.index < pos
    <3> DEFINE b == 1 - data[c.index + 1]
    <3>1. b \in Bin /\ [data EXCEPT ![c.index + 1] = 1 - @] = [data EXCEPT ![c.index + 1] = b]
      <4>1. c.index + 1 \in 1..Len(data)
        BY <1>1, <2>1, <2>2
      <4>2. data[c.index + 1] \in Bin
        BY <1>1, <4>1, BinFun
      <4> QED
        BY <4>2 DEF Bin
    <3> HIDE DEF b
    <3> QED
      BY <1>1, <1>13, <2>1, <2>2, <3>1, ChangedFacts, BecomesFacts DEF Flip
  <2>3. CASE ~(c.index < pos)
    BY <1>1, <1>13, <2>3, BecomesFacts DEF Flip
  <2> QED
    BY <2>2, <2>3
<1>14. ASSUME NEW c \in Calls, Reset(c) PROVE IInv'
  BY <1>1, <1>14, ResetFacts, BecomesFacts DEF Reset
<1>15. ASSUME NEW c \in Calls, Clear(c) PROVE IInv'
  <2>1. << >> \in Seq(Bin) /\ Len(<< >>) = 0 /\ 0 \in Whole
    BY <1>1, WholeSum
  <2>2. Good(<< >>, 0)
    BY <2>1 DEF Good
  <2> QED
    BY <1>15, <2>2, BecomesFacts DEF Clear
<1>16. ASSUME NEW c \in Calls, Reserve(c) PROVE IInv'
  <2>1. c.blocks \in Nat
    BY <1>16, CallFacts DEF Reserve
  <2>2. c.blocks * BITS \in Nat
    BY <2>1, BitsAssumption
  <2>3. Good(Extended(data, pos, c.blocks * BITS), pos)
    BY <1>1, <2>2, ExtendedFacts
  <2> QED
    BY <1>16, <2>3, BecomesFacts DEF Reserve
<1>17. ASSUME NEW c \in Calls, FromRange(c) PROVE IInv'
  <2> DEFINE first == Smaller(c.first, pos)
             n == Larger(Smaller(c.last, pos) - first, 0)
             rest == n % BITS
             whole == FlattenSeq([i \in 1..(n \div BITS) |-> GetBlock(data, first + Begin(i), BITS)])
             v == GetBlock(data, first + n - rest, rest)
             d == IF rest = 0 THEN whole ELSE Appended(whole, n - rest, v, rest)
  <2>1. c.first \in Nat /\ c.last \in Nat
    BY <1>17, CallFacts DEF FromRange
  <2>2. Becomes(c, d, n)
    BY <1>17 DEF FromRange
  <2>3. first \in Nat /\ n \in Nat /\ first + n <= pos /\ first + n <= Len(data)
    BY <1>1, <2>1 DEF Larger, Smaller
  <2> HIDE DEF first, n
  <2>4. Good(d, n)
    BY <1>1, <2>3, RangeGood DEF Rest, Blocks
  <2> HIDE DEF d
  <2> QED
    BY <2>2, <2>4, BecomesFacts
<1>18. ASSUME NEW c \in Calls, Get(c) \/ Count(c) PROVE IInv'
  BY <1>6, <1>18 DEF Get, Count
<1>19. ASSUME NEW c \in Calls, Increment(c) \/ Decrement(c) PROVE IInv'
  <2>1. Good(Counted(0), pos) /\ Good(Counted(1), pos)
    BY <1>7 DEF Bin
  <2> QED
    BY <1>19, <2>1, BecomesFacts DEF Increment, Decrement
<1>20. ASSUME NEW c \in Calls, Shl(c) PROVE IInv'
  <2>1. c.bits \in Nat
    BY <1>20, CallFacts DEF Shl
  <2>2. CASE c.bits >= pos
    BY <1>1, <1>20, <2>2, ResetFacts, BecomesFacts DEF Shl
  <2>3. CASE ~(c.bits >= pos)
    <3>1. MovesLeft(pos, c.bits) \in Seq(MovesIn(pos))
      BY <1>1, <2>1, <2>3, ShiftMoves
    <3>2. Good(FoldLeft(Moved, data, MovesLeft(pos, c.bits)), pos)
      BY <1>1, <3>1, MovesFacts
    <3> QED
      BY <1>20, <2>3, <3>2, BecomesFacts DEF Shl
  <2> QED
    BY <2>2, <2>3
<1>21. ASSUME NEW c \in Calls, Shr(c) PROVE IInv'
  <2>1. c.bits \in Nat
    BY <1>21, CallFacts DEF Shr
  <2>2. CASE c.bits >= pos
    BY <1>1, <1>21, <2>2, ResetFacts, BecomesFacts DEF Shr
  <2>3. CASE ~(c.bits >= pos) /\ LastUsed(pos) # pos /\ LastUsed(pos) + c.bits > pos
    BY <1>4, <1>21, <2>3 DEF Shr
  <2>4. CASE ~(c.bits >= pos) /\ ~(LastUsed(pos) # pos /\ LastUsed(pos) + c.bits > pos)
    <3>1. MovesRight(pos, c.bits) \in Seq(MovesIn(pos))
      <4>1. LastUsed(pos) \in Nat
        <5>1. BITS \in Nat \ {0}
          BY BitsAssumption
        <5>2. pos % BITS \in Nat
          BY <1>1, <5>1
        <5> QED
          BY <5>1, <5>2 DEF LastUsed
      <4> QED
        BY <1>1, <2>1, <2>4, <4>1, ShiftMoves
    <3>2. Good(FoldLeft(Moved, data, MovesRight(pos, c.bits)), pos)
      BY <1>1, <3>1, MovesFacts
    <3> QED
      BY <1>21, <2>4, <3>2, BecomesFacts DEF Shr
  <2> QED
    BY <2>2, <2>3, <2>4
<1>22. ASSUME NEW c \in Calls, Or(c) PROVE IInv'
  <2> DEFINE n == Len(c.other)
             e == IF pos < n THEN Extended(data, pos, n - pos) ELSE data
             theirs == CanonicalData(c.other)
             r == [i \in DOMAIN e |-> S!OrBit(e[i], theirs[i])]
  <2>1. c.other \in Seq(Bin)
    BY <1>22, CallFacts DEF Or
  <2>2. IF Len(e) > Len(theirs) THEN Outside ELSE Becomes(c, r, Larger(pos, n))
    BY <1>22, Zenon DEF Or, Grow
  <2>3. CASE ~(Len(e) > Len(theirs)) /\ Becomes(c, r, Larger(pos, n))
    <3>1. Good(r, Larger(pos, n))
      <4> DEFINE t == c.other
      <4>1. /\ t \in Seq(Bin) /\ ~(Len(e) > Len(CanonicalData(t)))
            /\ e = IF pos < Len(t) THEN Extended(data, pos, Len(t) - pos) ELSE data
            /\ r = [i \in DOMAIN e |-> S!OrBit(e[i], CanonicalData(t)[i])]
        BY <2>1, <2>3
      <4> HIDE DEF t, e, r
      <4>2. Good(r, Larger(pos, Len(t)))
        BY <1>1, <4>1, OrFacts
      <4> QED
        BY <4>2 DEF t
    <3> QED
      BY <2>3, <3>1, BecomesFacts
  <2> QED
    BY <1>4, <2>2, <2>3
<1>23. ASSUME NEW c \in Calls, Xor(c) PROVE IInv'
  <2> DEFINE n == Len(c.other)
             e == IF pos < n THEN Extended(data, pos, n - pos) ELSE data
             theirs == CanonicalData(c.other)
             r == [i \in DOMAIN e |-> S!XorBit(e[i], theirs[i])]
  <2>1. c.other \in Seq(Bin)
    BY <1>23, CallFacts DEF Xor
  <2>2. IF Len(e) > Len(theirs) THEN Outside ELSE Becomes(c, r, Larger(pos, n))
    BY <1>23, Zenon DEF Xor, Grow
  <2>3. CASE ~(Len(e) > Len(theirs)) /\ Becomes(c, r, Larger(pos, n))
    <3>1. Good(r, Larger(pos, n))
      <4> DEFINE t == c.other
      <4>1. /\ t \in Seq(Bin) /\ ~(Len(e) > Len(CanonicalData(t)))
            /\ e = IF pos < Len(t) THEN Extended(data, pos, Len(t) - pos) ELSE data
            /\ r = [i \in DOMAIN e |-> S!XorBit(e[i], CanonicalData(t)[i])]
        BY <2>1, <2>3
      <4> HIDE DEF t, e, r
      <4>2. Good(r, Larger(pos, Len(t)))
        BY <1>1, <4>1, XorFacts
      <4> QED
        BY <4>2 DEF t
    <3> QED
      BY <2>3, <3>1, BecomesFacts
  <2> QED
    BY <1>4, <2>2, <2>3
<1>24. ASSUME NEW c \in Calls, And(c) PROVE IInv'
  <2> DEFINE n == Len(c.other)
             e == [i \in DOMAIN data |-> IF i \in (n + 1)..pos THEN 0 ELSE data[i]]
             theirs == CanonicalData(c.other)
             r == [i \in DOMAIN e |-> S!AndBit(e[i], theirs[i])]
  <2>1. c.other \in Seq(Bin)
    BY <1>24, CallFacts DEF And
  <2>2. IF Len(e) > Len(theirs) THEN Outside ELSE Becomes(c, r, Smaller(pos, n))
    BY <1>24, Zenon DEF And
  <2>3. CASE ~(Len(e) > Len(theirs)) /\ Becomes(c, r, Smaller(pos, n))
    <3>1. Good(r, Smaller(pos, n))
      <4> DEFINE t == c.other
      <4>1. /\ t \in Seq(Bin) /\ ~(Len(e) > Len(CanonicalData(t)))
            /\ e = Cut(data, pos, Len(t))
            /\ r = [i \in DOMAIN e |-> S!AndBit(e[i], CanonicalData(t)[i])]
        BY <2>1, <2>3 DEF Cut
      <4> HIDE DEF t, e, r
      <4>2. Good(r, Smaller(pos, Len(t)))
        BY <1>1, <4>1, AndFacts
      <4> QED
        BY <4>2 DEF t
    <3> QED
      BY <2>3, <3>1, BecomesFacts
  <2> QED
    BY <1>4, <2>2, <2>3
<1>25. CASE Next
  <2>1. PICK c \in Calls :
          \/ AppendValue(c) \/ AppendSet(c) \/ SetValue(c) \/ SetSet(c) \/ SetBit(c) \/ Flip(c)
          \/ Reset(c) \/ Clear(c) \/ Reserve(c) \/ FromRange(c) \/ Get(c) \/ Count(c)
          \/ Increment(c) \/ Decrement(c) \/ Shl(c) \/ Shr(c) \/ Or(c) \/ Xor(c) \/ And(c)
    BY <1>25 DEF Next
  <2> QED
    BY <2>1, <1>8, <1>9, <1>10, <1>11, <1>12, <1>13, <1>14, <1>15, <1>16, <1>17, <1>18, <1>19,
       <1>20, <1>21, <1>22, <1>23, <1>24
<1> QED
  BY <1>3, <1>25

\* In every reachable state, whatever the size of the blocks and the calls, the
\* vector has whole blocks, enough for the bits of the set, and zeros behind them.
THEOREM BitsetIInv == Spec => []IInv
<1>1. ASSUME Init PROVE IInv
  <2>1. << >> \in Seq(Bin) /\ Len(<< >>) = 0 /\ 0 \in Whole
    <3>1. {0} # {} /\ Up(0) \in Whole
      BY UpFacts
    <3> QED
      BY <3>1, WholeSum
  <2> QED
    BY <1>1, <2>1 DEF Init, IInv, Good
<1> QED
  BY <1>1, StepKeepsIInv, PTL DEF Spec

\* Type correctness: data_ holds whole blocks, and pos_ does not leave it.
THEOREM BitsetTypeOK == Spec => []TypeOK
<1>1. ASSUME IInv PROVE TypeOK
  <2>1. S!Bit = Bin
    BY DEF S!Bit, Bin
  <2> QED
    BY <1>1, <2>1 DEF IInv, Good, Whole, TypeOK
<1> QED
  BY <1>1, BitsetIInv, PTL

\* What append, |= and ^= rely on: every call of the class, in any order, leaves
\* the unused part of the last block zero.
THEOREM BitsetTailZero == Spec => []TailZero
<1>1. ASSUME IInv PROVE TailZero
  BY <1>1 DEF IInv, Good, TailZero
<1> QED
  BY <1>1, BitsetIInv, PTL

-----------------------------------------------------------------------------
\* The first p bits of a vector.
LEMMA PrefixFacts ==
  ASSUME NEW d \in Seq(Bin), NEW p \in 0..Len(d)
  PROVE  /\ SubSeq(d, 1, p) \in Seq(Bin) /\ Len(SubSeq(d, 1, p)) = p
         /\ DOMAIN SubSeq(d, 1, p) = 1..p
         /\ \A i \in 1..p : SubSeq(d, 1, p)[i] = d[i] /\ d[i] \in Bin
<1>1. p \in Nat /\ Len(d) \in Nat /\ \A i \in 1..p : i \in 1..Len(d)
  BY BinFun
<1>2. \A i \in 1..p : d[i] \in Bin
  BY <1>1, BinFun
<1>3. SubSeq(d, 1, p) = [i \in 1..p |-> d[i]]
  <2>1. SubSeq(d, 1, p) = [i \in 1..p |-> d[i + 1 - 1]]
    BY <1>1, SubSeqProperties
  <2>2. \A i \in 1..p : i + 1 - 1 = i
    BY <1>1
  <2> QED
    BY <2>1, <2>2
<1>4. SubSeq(d, 1, p) \in [1..p -> Bin]
  BY <1>2, <1>3
<1> QED
  BY <1>1, <1>2, <1>3, <1>4, BinSeq

\* Strings of the same bits are the same.
LEMMA SameString ==
  ASSUME NEW s \in Seq(Bin), NEW t \in Seq(Bin), Len(s) = Len(t),
         \A i \in 1..Len(s) : s[i] = t[i]
  PROVE  s = t
  BY BinFun

\* The string in a vector.
LEMMA PrefixIs ==
  ASSUME NEW d \in Seq(Bin), NEW p \in 0..Len(d), NEW s \in Seq(Bin), Len(s) = p,
         \A i \in 1..p : d[i] = s[i]
  PROVE  SubSeq(d, 1, p) = s
<1> DEFINE t == SubSeq(d, 1, p)
<1>1. t \in Seq(Bin) /\ Len(t) = p /\ \A i \in 1..p : t[i] = d[i]
  BY PrefixFacts
<1> HIDE DEF t
<1>2. t = s
  BY <1>1, SameString
<1> QED
  BY <1>2 DEF t

\* The bits of a vector behind a, up to b.
Part(d, a, b) == SubSeq(d, a + 1, b)
IsPart(s, d, a, b) ==
  s \in Seq(Bin) /\ Len(s) = b - a /\ \A j \in 1..(b - a) : s[j] = d[a + j]

\* They are a part.
LEMMA PartIs ==
  ASSUME NEW d \in Seq(Bin), NEW o \in Nat, NEW e \in Nat, o <= e, e <= Len(d)
  PROVE  IsPart(Part(d, o, e), d, o, e)
<1> DEFINE f == [i \in 1..(e - o) |-> d[o + i]]
           m == e - o
<1>1. Len(d) \in Nat /\ \A i \in 1..Len(d) : d[i] \in Bin
  BY BinFun
<1>2. f \in [1..(e - o) -> Bin]
  <2>1. \A i \in 1..(e - o) : o + i \in 1..Len(d)
    BY <1>1
  <2> QED
    BY <1>1, <2>1
<1>3. SubSeq(d, o + 1, e) = f
  <2>1. SubSeq(d, o + 1, e) = [i \in 1..(1 + e - (o + 1)) |-> d[i + (o + 1) - 1]]
    BY <1>1
  <2>2. 1 + e - (o + 1) = e - o /\ \A i \in 1..(e - o) : i + (o + 1) - 1 = o + i
    OBVIOUS
  <2> QED
    BY <2>1, <2>2
<1>4. m \in Nat /\ \A i \in 1..m : f[i] = d[o + i]
  OBVIOUS
<1> HIDE DEF f
<1>5. f \in Seq(Bin) /\ Len(f) = m
  <2> HIDE DEF m
  <2>1. f \in [1..m -> Bin]
    BY <1>2 DEF m
  <2> QED
    BY <1>4, <2>1, BinSeq
<1> QED
  BY <1>3, <1>4, <1>5 DEF IsPart, Part

\* They follow those before them.
LEMMA NextPart ==
  ASSUME NEW d \in Seq(Bin), NEW o \in Nat, NEW a \in Nat, NEW b \in Nat,
         o <= a, a <= b, b <= Len(d),
         NEW s, IsPart(s, d, a, b)
  PROVE  Part(d, o, b) = Part(d, o, a) \o s
<1> DEFINE u == SubSeq(d, o + 1, a)
           v == SubSeq(d, o + 1, b)
<1>1. Len(d) \in Nat /\ \A i \in 1..Len(d) : d[i] \in Bin
  BY BinFun
<1> USE DEF IsPart
<1>2. ASSUME NEW e \in Nat, o <= e, e <= Len(d)
      PROVE  /\ SubSeq(d, o + 1, e) \in Seq(Bin) /\ Len(SubSeq(d, o + 1, e)) = e - o
             /\ \A i \in 1..(e - o) : SubSeq(d, o + 1, e)[i] = d[o + i]
  <2>1. IsPart(Part(d, o, e), d, o, e)
    BY <1>2, PartIs
  <2> QED
    BY <2>1 DEF Part
<1>3. /\ u \in Seq(Bin) /\ Len(u) = a - o /\ \A i \in 1..(a - o) : u[i] = d[o + i]
  BY <1>1, <1>2
<1>4. /\ v \in Seq(Bin) /\ Len(v) = b - o /\ \A i \in 1..(b - o) : v[i] = d[o + i]
  BY <1>1, <1>2
<1> HIDE DEF u, v
<1> DEFINE w == u \o s
           k == b - a
<1>5. k \in Nat /\ k = Len(s)
  OBVIOUS
<1>6. /\ w \in Seq(Bin) /\ Len(w) = Len(u) + k
      /\ \A i \in 1..(Len(u) + k) : w[i] = IF i <= Len(u) THEN u[i] ELSE s[i - Len(u)]
  <2> HIDE DEF k
  <2> QED
    BY <1>3, <1>5, Concat
<1> HIDE DEF w
<1>7. Len(w) = b - o /\ Len(u) + k = b - o
  BY <1>3, <1>6
<1>8. ASSUME NEW i \in 1..(b - o) PROVE w[i] = d[o + i]
  <2>1. w[i] = IF i <= a - o THEN u[i] ELSE s[i - (a - o)]
    BY <1>3, <1>6, <1>7
  <2>2. i <= a - o => i \in 1..(a - o)
    OBVIOUS
  <2>3. ~(i <= a - o) => i - (a - o) \in 1..(b - a) /\ a + (i - (a - o)) = o + i
    OBVIOUS
  <2> QED
    BY <1>3, <2>1, <2>2, <2>3
<1>9. v = w
  BY <1>4, <1>6, <1>7, <1>8, SameString
<1> QED
  BY <1>4, <1>9 DEF u, v, w, Part

\* Pieces s of a vector, from e[i - 1] to e[i] the i-th one.
IsReading(s, d, e) ==
  /\ s \in Seq(Seq(Bin))
  /\ \A i \in 0..Len(s) : e[i] \in Nat /\ e[0] <= e[i] /\ e[i] <= Len(d)
  /\ \A i \in 1..Len(s) : e[i - 1] <= e[i] /\ IsPart(s[i], d, e[i - 1], e[i])

\* They are put together to what was read.
LEMMA ReadingFacts ==
  ASSUME NEW d \in Seq(Bin), NEW s, NEW e, IsReading(s, d, e)
  PROVE  FlattenSeq(s) = Part(d, e[0], e[Len(s)])
<1> DEFINE p == [i \in 0..Len(s) |-> Part(d, e[0], e[i])]
<1>1. Len(s) \in Nat /\ s \in Seq(Seq(Bin)) /\ \A i \in 1..Len(s) : s[i] \in Seq(Bin)
  BY LenProperties DEF IsReading
<1>2. ASSUME NEW i \in 1..Len(s) PROVE p[i] = p[i - 1] \o s[i]
  <2> DEFINE o == e[0]
             a == e[i - 1]
             b == e[i]
             t == s[i]
  <2>1. i \in 0..Len(s) /\ i - 1 \in 0..Len(s) /\ 0 \in 0..Len(s)
    BY <1>1
  <2>2. /\ o \in Nat /\ a \in Nat /\ b \in Nat /\ o <= a /\ a <= b /\ b <= Len(d)
        /\ IsPart(t, d, a, b)
    BY <1>1, <2>1 DEF IsReading
  <2>3. p[i] = Part(d, o, b) /\ p[i - 1] = Part(d, o, a)
    BY <2>1
  <2> HIDE DEF o, a, b, t, p
  <2>4. Part(d, o, b) = Part(d, o, a) \o t
    BY <2>2, NextPart
  <2> QED
    BY <2>3, <2>4 DEF t
<1>3. p[0] = << >>
  <2>1. 0 \in 0..Len(s) /\ e[0] \in Nat
    BY <1>1 DEF IsReading
  <2>2. p[0] = Part(d, e[0], e[0])
    BY <2>1
  <2> HIDE DEF p
  <2> QED
    BY <2>1, <2>2, SubSeqEmpty DEF Part
<1>4. p[Len(s)] = Part(d, e[0], e[Len(s)])
  <2> DEFINE n == Len(s)
  <2>1. n \in 0..n
    BY <1>1
  <2> QED
    BY <2>1
<1> HIDE DEF p
<1> QED
  BY <1>1, <1>2, <1>3, <1>4, FlattenIs

-----------------------------------------------------------------------------
\* Reading within a block gives the bits that are there.
LEMMA BlockIsPart ==
  ASSUME NEW d \in Seq(Bin), NEW ofs \in Nat, NEW n \in Nat, ofs + n <= Len(d),
         (ofs % BITS) + n <= BITS
  PROVE  IsPart(GetBlock(d, ofs, n), d, ofs, ofs + n)
<1>1. GetBlock(d, ofs, n) \in [1..n -> Bin] /\ \A i \in 1..n : GetBlock(d, ofs, n)[i] = d[ofs + i]
  BY GetBlockFacts
<1>2. GetBlock(d, ofs, n) \in Seq(Bin) /\ Len(GetBlock(d, ofs, n)) = n
  BY <1>1, BinSeq
<1>3. (ofs + n) - ofs = n
  OBVIOUS
<1> QED
  BY <1>1, <1>2, <1>3 DEF IsPart

\* Where chunks lie, from the beginning of a block.
LEMMA ChunkPlaces ==
  ASSUME NEW n \in Nat
  PROVE  /\ n <= Begin(Chunks(n) + 1) /\ Begin(1) = 0
         /\ \A i \in 1..Chunks(n) :
              /\ Begin(i) \in Whole /\ Begin(i) < n
              /\ Begin(i + 1) = Begin(i) + BITS
              /\ Chunk(n, i) <= BITS
              /\ Begin(i) + Chunk(n, i) = Smaller(n, Begin(i + 1))
<1>1. BITS \in Nat \ {0}
  BY BitsAssumption
<1> DEFINE k == n + BITS - 1
           c == k \div BITS
<1>2. c \in Nat /\ c * BITS <= k /\ k < (c * BITS) + BITS /\ k \in Nat
  <2>1. k \in Nat
    BY <1>1
  <2> HIDE DEF k
  <2>2. c \in Nat /\ k % BITS \in 0..(BITS - 1) /\ k = (c * BITS) + (k % BITS)
    BY <1>1, <2>1
  <2> HIDE DEF c
  <2> QED
    BY <1>1, <2>1, <2>2
<1>3. Chunks(n) = c
  BY DEF Chunks
<1>4. Begin(Chunks(n) + 1) = c * BITS
  <2> HIDE DEF c
  <2>1. (c + 1) - 1 = c
    BY <1>2
  <2> QED
    BY <1>3, <2>1 DEF Begin
<1>5. n <= Begin(Chunks(n) + 1)
  <2> DEFINE z == c * BITS
  <2>1. z \in Int
    BY <1>1, <1>2
  <2> HIDE DEF c, z
  <2>2. k < z + BITS
    BY <1>2 DEF z
  <2> QED
    BY <1>1, <1>4, <2>1, <2>2 DEF z
<1> HIDE DEF c
<1>6. ASSUME NEW i \in 1..c
      PROVE  /\ Begin(i) \in Whole /\ Begin(i) < n
             /\ Begin(i + 1) = Begin(i) + BITS
             /\ Chunk(n, i) <= BITS
             /\ Begin(i) + Chunk(n, i) = Smaller(n, Begin(i + 1))
  <2> DEFINE b == (i - 1) * BITS
             e == i * BITS
             z == c * BITS
  <2>1. i - 1 \in Nat /\ i <= c /\ i \in Nat
    BY <1>2
  <2>2. b \in Nat /\ e \in Nat /\ z \in Nat /\ e <= z /\ e = b + BITS /\ z <= k
    BY <1>1, <1>2, <2>1
  <2>3. b % BITS = 0
    <3>1. \E j \in Nat : b = j * BITS
      BY <2>1
    <3> HIDE DEF b
    <3> QED
      BY <2>2, <3>1, WholeIs
  <2>4. Begin(i) = b /\ Begin(i + 1) = e
    <3>1. (i + 1) - 1 = i
      BY <2>1
    <3> QED
      BY <3>1 DEF Begin
  <2> HIDE DEF b, e, z
  <2>5. b < n
    BY <1>1, <2>2
  <2> QED
    BY <1>1, <2>2, <2>3, <2>4, <2>5 DEF Chunk, Smaller, Whole
<1>7. Begin(1) = 0
  <2>1. (1 - 1) * BITS = 0
    BY <1>1
  <2> QED
    BY <2>1 DEF Begin
<1> QED
  BY <1>3, <1>5, <1>6, <1>7

\* A sum of whole blocks.
LEMMA WholePlace ==
  ASSUME NEW m \in Whole, NEW n \in Whole
  PROVE  m + n \in Nat /\ (m + n) % BITS = 0
<1>1. m + n \in Whole
  BY WholeSum
<1> QED
  BY <1>1 DEF Whole

\* What putting x before s gives.
IsCons(T, c, x, s) ==
  /\ c \in Seq(T) /\ Len(c) = Len(s) + 1 /\ c[1] = x
  /\ \A i \in 1..Len(s) : c[i + 1] = s[i]

\* Cons gives it.
LEMMA ConsIs ==
  ASSUME NEW T, NEW x \in T, NEW s \in Seq(T)
  PROVE  IsCons(T, Cons(x, s), x, s)
BY ConsFacts DEF IsCons

\* get(): the rest of the first block, whole blocks, a part of the last one.
LEMMA GetFacts ==
  ASSUME NEW d \in Seq(Bin), NEW ofs \in Nat, NEW bits \in Nat \ {0}, ofs + bits <= Len(d),
         NEW first, first = Smaller(BITS - (ofs % BITS), bits),
         NEW q, q = [i \in 1..Chunks(bits - first) |->
                       GetBlock(d, ofs + first + Begin(i), Chunk(bits - first, i))]
  PROVE  FlattenSeq(Cons(GetBlock(d, ofs, first), q)) = Part(d, ofs, ofs + bits)
<1> DEFINE rest == bits - first
           m == Chunks(rest)
           o == ofs + first
           g == GetBlock(d, ofs, first)
           s == Cons(g, q)
           e == [i \in 0..(m + 1) |-> IF i = 0 THEN ofs ELSE o + Smaller(rest, Begin(i))]
<1>1. BITS \in Nat \ {0} /\ ofs % BITS \in 0..(BITS - 1)
  <2>1. BITS \in Nat \ {0}
    BY BitsAssumption
  <2> QED
    BY <2>1
<1>2. /\ first \in Nat /\ first >= 1 /\ first <= bits /\ (ofs % BITS) + first <= BITS
      /\ first # bits => first = BITS - (ofs % BITS)
  <2> DEFINE r == ofs % BITS
  <2> HIDE DEF r
  <2> QED
    BY <1>1 DEF Smaller, r
<1>3. /\ rest \in Nat /\ o \in Nat /\ o + rest = ofs + bits /\ Len(d) \in Nat
      /\ o + rest <= Len(d)
  <2>1. Len(d) \in Nat
    BY BinFun
  <2> QED
    BY <1>2, <2>1
<1>4. rest > 0 => o \in Whole
  <2>1. ofs % BITS = ofs - BlockStart(ofs) /\ BlockStart(ofs) \in Whole
    BY BlockFacts
  <2>2. BITS \in Whole /\ BlockStart(ofs) + BITS \in Whole
    <3>1. BITS \in Whole
      BY <2>1, WholeSum
    <3> QED
      BY <2>1, <3>1, WholeSum
  <2>3. rest > 0 => o = BlockStart(ofs) + BITS
    <3> DEFINE r == ofs % BITS
               t == BlockStart(ofs)
    <3>1. t \in Nat /\ r = ofs - t /\ (first # bits => first = BITS - r) /\ r \in Int
          /\ (rest > 0 => first # bits)
      BY <1>1, <1>2, <2>1 DEF Whole
    <3>2. BITS \in Nat /\ first \in Nat
      BY <1>1, <1>2
    <3> HIDE DEF r, t
    <3>3. ofs + (BITS - (ofs - t)) = t + BITS
      BY <3>1, <3>2
    <3>4. rest > 0 => first = BITS - (ofs - t)
      BY <3>1
    <3>5. rest > 0 => o = ofs + (BITS - (ofs - t))
      BY <3>4
    <3> QED
      BY <3>3, <3>5 DEF t
  <2> QED
    BY <2>2, <2>3
<1> HIDE DEF rest, o
<1>5. m \in Nat /\ \A i \in 1..m : Begin(i) \in Nat /\ Chunk(rest, i) \in Nat
  BY <1>3, ChunkFacts
<1>6. /\ rest <= Begin(m + 1) /\ Begin(1) = 0
      /\ \A i \in 1..m :
           /\ Begin(i) \in Whole /\ Begin(i) < rest
           /\ Begin(i + 1) = Begin(i) + BITS
           /\ Chunk(rest, i) <= BITS
           /\ Begin(i) + Chunk(rest, i) = Smaller(rest, Begin(i + 1))
  BY <1>3, ChunkPlaces
<1>7. q = [i \in 1..m |-> GetBlock(d, o + Begin(i), Chunk(rest, i))]
  BY DEF rest, o
<1> HIDE DEF m, g
<1>8. IsPart(g, d, ofs, o)
  <2>1. ofs + first <= Len(d)
    BY <1>2, BinFun
  <2> QED
    BY <1>2, <2>1, BlockIsPart DEF g, o
<1>9. ASSUME NEW i \in 1..m
      PROVE  /\ IsPart(q[i], d, o + Begin(i), (o + Begin(i)) + Chunk(rest, i))
             /\ (o + Begin(i)) + Chunk(rest, i) = o + Smaller(rest, Begin(i + 1))
             /\ o + Begin(i) = o + Smaller(rest, Begin(i))
             /\ (o + Begin(i)) + Chunk(rest, i) <= Len(d)
  <2> DEFINE a == o + Begin(i)
             n == Chunk(rest, i)
  <2>1. /\ Begin(i) \in Whole /\ Begin(i) \in Nat /\ Begin(i) < rest /\ n \in Nat /\ n <= BITS
        /\ Begin(i) + n = Smaller(rest, Begin(i + 1))
        /\ Begin(i + 1) = Begin(i) + BITS
    BY <1>5, <1>6 DEF Whole
  <2>2. o \in Whole
    BY <1>3, <1>4, <2>1
  <2>3. a \in Nat /\ a % BITS = 0
    BY <2>1, <2>2, WholePlace
  <2>4. Begin(i) + n <= rest
    BY <1>1, <1>3, <2>1 DEF Smaller
  <2>5. a + n <= Len(d) /\ (a % BITS) + n <= BITS
    BY <1>3, <2>1, <2>3, <2>4, SMTT(60)
  <2>6. q[i] = GetBlock(d, a, n)
    BY <1>7
  <2>7. a + n = o + Smaller(rest, Begin(i + 1)) /\ a = o + Smaller(rest, Begin(i))
    BY <1>3, <2>1, SMTT(60) DEF Smaller
  <2> HIDE DEF a, n
  <2>8. IsPart(q[i], d, a, a + n)
    BY <2>1, <2>3, <2>5, <2>6, BlockIsPart
  <2> QED
    BY <2>5, <2>7, <2>8 DEF a, n
<1>10. /\ g \in Seq(Bin) /\ q \in Seq(Seq(Bin)) /\ Len(q) = m
  <2>1. \A i \in 1..m : q[i] \in Seq(Bin)
    BY <1>9 DEF IsPart
  <2>2. q \in [1..m -> Seq(Bin)]
    BY <1>7, <2>1
  <2> DEFINE T == Seq(Bin)
  <2>3. q \in Seq(T) /\ Len(q) = m
    <3> HIDE DEF T
    <3>1. q \in [1..m -> T]
      BY <2>2 DEF T
    <3> QED
      BY <1>5, <3>1, FunIsSeq
  <2> QED
    BY <1>8, <2>3 DEF IsPart
<1>11. /\ s \in Seq(Seq(Bin)) /\ Len(s) = m + 1 /\ s[1] = g
       /\ \A i \in 1..m : s[i + 1] = q[i]
  <2> DEFINE T == Seq(Bin)
  <2>1. g \in T /\ q \in Seq(T) /\ Len(q) = m
    BY <1>10
  <2> HIDE DEF T
  <2>2. IsCons(T, s, g, q)
    BY <2>1, ConsIs
  <2> QED
    BY <2>1, <2>2 DEF IsCons, T
<1> HIDE DEF s
<1>12. /\ e[0] = ofs /\ e[1] = o /\ e[m + 1] = o + rest
       /\ \A i \in 1..m : e[i] = o + Smaller(rest, Begin(i)) /\ e[i + 1] = o + Smaller(rest, Begin(i + 1))
  <2>1. 0 \in 0..(m + 1) /\ 1 \in 0..(m + 1) /\ m + 1 \in 0..(m + 1) /\ m + 1 # 0
        /\ \A i \in 1..m : i \in 0..(m + 1) /\ i # 0 /\ i + 1 \in 0..(m + 1) /\ i + 1 # 0
    BY <1>5
  <2>2. o + Smaller(rest, Begin(1)) = o
    BY <1>3, <1>6 DEF Smaller
  <2>3. Smaller(rest, Begin(m + 1)) = rest
    <3>1. Begin(m + 1) \in Int
      BY <1>1, <1>5 DEF Begin
    <3> QED
      BY <1>3, <1>6, <3>1 DEF Smaller
  <2> QED
    BY <2>1, <2>2, <2>3
<1> HIDE DEF e
<1>13. IsReading(s, d, e)
  <2>1. ASSUME NEW i \in 0..(m + 1)
        PROVE  e[i] \in Nat /\ ofs <= e[i] /\ e[i] <= Len(d)
    <3>1. CASE i = 0
      BY <1>2, <1>3, <1>12, <3>1, SMTT(60) DEF o
    <3>2. CASE i = m + 1
      BY <1>2, <1>3, <1>12, <3>2, SMTT(60) DEF o
    <3>3. CASE i # 0 /\ i # m + 1
      <4>1. i \in 1..m
        BY <1>5, <3>3
      <4>2. e[i] = o + Begin(i) /\ Begin(i) \in Nat /\ Begin(i) < rest
        BY <1>5, <1>6, <1>9, <1>12, <4>1
      <4>3. ofs <= o
        BY <1>2 DEF o
      <4> QED
        BY <1>3, <4>2, <4>3
    <3> QED
      BY <3>1, <3>2, <3>3
  <2>2. ASSUME NEW i \in 1..(m + 1)
        PROVE  e[i - 1] <= e[i] /\ IsPart(s[i], d, e[i - 1], e[i])
    <3>1. CASE i = 1
      <4>1. e[i - 1] = ofs /\ e[i] = o /\ s[i] = g
        <5>1. i - 1 = 0
          BY <3>1
        <5> QED
          BY <1>11, <1>12, <3>1, <5>1
      <4>2. ofs <= o
        BY <1>2 DEF o
      <4> QED
        BY <1>8, <4>1, <4>2
    <3>2. CASE i # 1
      <4> DEFINE k == i - 1
      <4>1. k \in 1..m /\ k + 1 = i
        BY <1>5, <3>2
      <4> HIDE DEF k
      <4>2. /\ IsPart(q[k], d, o + Begin(k), (o + Begin(k)) + Chunk(rest, k))
            /\ e[k] = o + Begin(k) /\ e[k + 1] = (o + Begin(k)) + Chunk(rest, k)
            /\ s[k + 1] = q[k] /\ Begin(k) \in Nat /\ Chunk(rest, k) \in Nat
        BY <1>5, <1>9, <1>11, <1>12, <4>1
      <4>3. IsPart(s[k + 1], d, e[k], e[k + 1]) /\ e[k] <= e[k + 1]
        BY <1>3, <4>2
      <4> QED
        BY <4>1, <4>3 DEF k
    <3> QED
      BY <3>1, <3>2
  <2> QED
    BY <1>5, <1>11, <1>12, <2>1, <2>2 DEF IsReading
<1>14. FlattenSeq(s) = Part(d, e[0], e[Len(s)])
  BY <1>13, ReadingFacts
<1> QED
  BY <1>3, <1>11, <1>12, <1>14 DEF s, g

-----------------------------------------------------------------------------
\* What the documentation says a call makes of the string.
LEMMA EffectFacts ==
  ASSUME NEW s, NEW c
  PROVE  /\ c.op = "append" => S!Effect(s, c) = s \o S!Low(c.v, c.bits)
         /\ c.op = "set" => S!Effect(s, c) = S!Overwritten(s, c.ofs, S!Low(c.v, c.bits))
         /\ c.op = "set_bit" =>
              S!Effect(s, c) = IF c.index < Len(s) THEN [s EXCEPT ![c.index + 1] = c.v] ELSE s
         /\ c.op = "flip" =>
              S!Effect(s, c) = IF c.index < Len(s) THEN [s EXCEPT ![c.index + 1] = 1 - @] ELSE s
         /\ c.op = "reset" => S!Effect(s, c) = S!Zeros(Len(s))
         /\ c.op = "clear" => S!Effect(s, c) = <<>>
         /\ c.op \in {"reserve", "get", "count"} => S!Effect(s, c) = s
         /\ c.op = "append_set" => S!Effect(s, c) = s \o c.other
         /\ c.op = "set_set" =>
              S!Effect(s, c) = IF c.other = <<>> THEN s ELSE S!Overwritten(s, c.ofs, c.other)
         /\ c.op = "range" => S!Effect(s, c) = S!Slice(s, c.first, c.last)
         /\ c.op = "|=" =>
              S!Effect(s, c) = S!Combined(s, c.other, S!Longer(s, c.other), S!OrBit)
         /\ c.op = "&=" =>
              S!Effect(s, c) = S!Combined(s, c.other, S!Shorter(s, c.other), S!AndBit)
         /\ c.op = "^=" =>
              S!Effect(s, c) = S!Combined(s, c.other, S!Longer(s, c.other), S!XorBit)
BY DEF S!Effect

\* What it says the call returns.
LEMMA ResultFacts ==
  ASSUME NEW s, NEW c
  PROVE  /\ c.op = "get" => S!Result(s, c) = IF c.ofs + c.bits <= Len(s)
                                               THEN SubSeq(s, c.ofs + 1, c.ofs + c.bits) ELSE <<>>
         /\ c.op = "count" => S!Result(s, c) = <<S!Ones(S!Slice(s, c.first, c.last))>>
         /\ c.op \notin {"get", "count"} => S!Result(s, c) = <<>>
BY DEF S!Result

\* The documented step with call c.
Documented(c) ==
  /\ c \in Calls
  /\ call' = c
  /\ SubSeq(data', 1, pos') = S!Effect(SubSeq(data, 1, pos), c)
  /\ read' = S!Result(SubSeq(data, 1, pos), c)

\* It is a step of the documentation.
LEMMA DocumentedStep ==
  ASSUME NEW c, Documented(c)
  PROVE  S!Next
BY DEF Documented, S!Next

\* A call that leaves the documented bits is documented.
LEMMA BecomesDocumented ==
  ASSUME NEW c \in Calls, c.op \notin {"get", "count"},
         NEW d, NEW p, Good(d, p), Becomes(c, d, p),
         NEW s \in Seq(Bin), s = S!Effect(SubSeq(data, 1, pos), c),
         Len(s) = p, \A i \in 1..p : d[i] = s[i]
  PROVE  Documented(c)
<1>1. d \in Seq(Bin) /\ p \in 0..Len(d)
  BY DEF Good
<1>2. SubSeq(d, 1, p) = s
  BY <1>1, PrefixIs
<1>3. data' = d /\ pos' = p /\ call' = c /\ read' = <<>>
  BY DEF Becomes
<1> QED
  BY <1>2, <1>3, ResultFacts DEF Documented

\* The string, if the invariant holds.
LEMMA StringFacts ==
  ASSUME IInv
  PROVE  /\ Good(data, pos) /\ data \in Seq(Bin) /\ pos \in 0..Len(data) /\ pos \in Nat
         /\ SubSeq(data, 1, pos) \in Seq(Bin) /\ Len(SubSeq(data, 1, pos)) = pos
         /\ DOMAIN SubSeq(data, 1, pos) = 1..pos
         /\ \A i \in 1..pos : SubSeq(data, 1, pos)[i] = data[i] /\ data[i] \in Bin
<1>1. data \in Seq(Bin) /\ pos \in 0..Len(data) /\ Good(data, pos)
  BY DEF IInv, Good
<1>2. Len(data) \in Nat
  BY <1>1, BinFun
<1> QED
  BY <1>1, <1>2, PrefixFacts

\* The first p bits of a vector are a string.
Matches(d, p, s) == s \in Seq(Bin) /\ Len(s) = p /\ \A i \in 1..p : d[i] = s[i]

\* A call that leaves the documented bits is documented.
LEMMA MatchDocumented ==
  ASSUME NEW c \in Calls, c.op \notin {"get", "count"},
         NEW d, NEW p, Good(d, p), Becomes(c, d, p),
         Matches(d, p, S!Effect(SubSeq(data, 1, pos), c))
  PROVE  Documented(c)
<1> DEFINE s == S!Effect(SubSeq(data, 1, pos), c)
<1>1. s \in Seq(Bin) /\ Len(s) = p /\ \A i \in 1..p : d[i] = s[i]
  BY DEF Matches
<1>2. s = S!Effect(SubSeq(data, 1, pos), c)
  OBVIOUS
<1> HIDE DEF s
<1> QED
  BY <1>1, <1>2, BecomesDocumented

\* A string r that is s with v written over it behind ofs bits.
IsOver(r, s, ofs, v) ==
  /\ r \in Seq(Bin) /\ Len(r) = Larger(Len(s), ofs + Len(v))
  /\ \A i \in 1..Larger(Len(s), ofs + Len(v)) :
       r[i] = IF i \in (ofs + 1)..(ofs + Len(v)) THEN v[i - ofs]
              ELSE IF i <= Len(s) THEN s[i] ELSE 0

\* Overwritten is.
LEMMA OverIs ==
  ASSUME NEW s \in Seq(Bin), NEW ofs \in Nat, NEW v \in Seq(Bin)
  PROVE  IsOver(S!Overwritten(s, ofs, v), s, ofs, v)
BY OverwrittenFacts DEF IsOver

\* Two strings r made of.
IsConcat(r, s, t) ==
  /\ r \in Seq(Bin) /\ Len(r) = Len(s) + Len(t)
  /\ \A i \in 1..(Len(s) + Len(t)) : r[i] = IF i <= Len(s) THEN s[i] ELSE t[i - Len(s)]

\* s \o t is.
LEMMA ConcatIs ==
  ASSUME NEW s \in Seq(Bin), NEW t \in Seq(Bin)
  PROVE  IsConcat(s \o t, s, t)
<1>1. Len(t) \in Nat
  BY BinFun
<1> QED
  BY <1>1, Concat DEF IsConcat

\* A vector d that a set of the p bits of b becomes when those of t are appended.
IsLonger(d, b, p, t) ==
  /\ Good(d, p + Len(t))
  /\ \A i \in 1..(p + Len(t)) : d[i] = IF i <= p THEN b[i] ELSE t[i - p]

\* It holds the string and the bits appended.
LEMMA LongerMatches ==
  ASSUME NEW d, NEW b \in Seq(Bin), NEW p \in 0..Len(b), NEW t \in Seq(Bin), IsLonger(d, b, p, t)
  PROVE  Matches(d, p + Len(t), SubSeq(b, 1, p) \o t)
<1> DEFINE s == SubSeq(b, 1, p)
           r == s \o t
<1>1. s \in Seq(Bin) /\ Len(s) = p /\ \A i \in 1..p : s[i] = b[i]
  BY PrefixFacts
<1>2. Len(t) \in Nat /\ Len(b) \in Nat
  BY BinFun
<1> HIDE DEF s
<1>3. IsConcat(r, s, t)
  BY <1>1, ConcatIs
<1> HIDE DEF r
<1>4. ASSUME NEW i \in 1..(p + Len(t)) PROVE d[i] = r[i]
  <2>1. d[i] = IF i <= p THEN b[i] ELSE t[i - p]
    BY DEF IsLonger
  <2>2. r[i] = IF i <= p THEN s[i] ELSE t[i - p]
    BY <1>1, <1>3 DEF IsConcat
  <2>3. i <= p => s[i] = b[i]
    BY <1>1, <1>2
  <2> QED
    BY <2>1, <2>2, <2>3
<1>5. r \in Seq(Bin) /\ Len(r) = p + Len(t)
  BY <1>1, <1>3 DEF IsConcat
<1>6. Matches(d, p + Len(t), r)
  BY <1>4, <1>5 DEF Matches
<1> QED
  BY <1>6 DEF r, s

\* append() of bits of a value with nothing above them
LEMMA AppendedIs ==
  ASSUME NEW d, NEW p, Good(d, p), NEW v \in Seq(Bin), NEW bits \in 1..Len(v),
         \A i \in 1..(Len(v) - bits) : v[i] = 0,
         NEW l, l = S!Low(v, bits)
  PROVE  l \in Seq(Bin) /\ Len(l) = bits /\ IsLonger(Appended(d, p, v, bits), d, p, l)
<1>1. l \in Seq(Bin) /\ Len(l) = bits /\ \A i \in 1..bits : l[i] = v[(Len(v) - bits) + i]
  BY LowFacts
<1> DEFINE r == Appended(d, p, v, bits)
<1>2. /\ Good(r, p + bits)
      /\ \A i \in 1..(p + bits) :
           r[i] = IF i <= p THEN d[i] ELSE v[(Len(v) - bits) + (i - p)]
  BY AppendedFacts
<1>3. p \in Nat /\ bits \in Nat
  BY BinFun DEF Good
<1> HIDE DEF r
<1>4. ASSUME NEW i \in 1..(p + bits) PROVE r[i] = IF i <= p THEN d[i] ELSE l[i - p]
  <2>1. CASE i <= p
    BY <1>2, <2>1
  <2>2. CASE ~(i <= p)
    <3>1. i - p \in 1..bits
      BY <1>3, <2>2
    <3> QED
      BY <1>1, <1>2, <2>2, <3>1
  <2> QED
    BY <2>1, <2>2
<1>5. IsLonger(r, d, p, l)
  BY <1>1, <1>2, <1>4 DEF IsLonger
<1> QED
  BY <1>1, <1>5 DEF r

\* append() of a value that has nothing above the bits to append
LEMMA AppendDocumented ==
  ASSUME IInv, NEW c \in Calls, AppendValue(c),
         \A i \in 1..(Len(c.v) - c.bits) : c.v[i] = 0
  PROVE  Documented(c)
<1> DEFINE s == SubSeq(data, 1, pos)
           d == Appended(data, pos, c.v, c.bits)
           l == S!Low(c.v, c.bits)
<1>1. c.op = "append" /\ c.v \in Seq(Bin) /\ c.bits \in 1..Len(c.v) /\ Becomes(c, d, pos + c.bits)
  BY CallFacts DEF AppendValue
<1>2. Good(data, pos) /\ data \in Seq(Bin) /\ pos \in 0..Len(data)
  BY StringFacts
<1>3. l \in Seq(Bin) /\ Len(l) = c.bits /\ IsLonger(d, data, pos, l)
  BY <1>1, <1>2, AppendedIs
<1>4. S!Effect(s, c) = s \o l
  BY <1>1, EffectFacts
<1> HIDE DEF d, l
<1>5. Matches(d, pos + Len(l), s \o l)
  BY <1>2, <1>3, LongerMatches
<1>6. Good(d, pos + c.bits)
  BY <1>3 DEF IsLonger
<1> QED
  BY <1>1, <1>3, <1>4, <1>5, <1>6, MatchDocumented

\* append() of a set
LEMMA AppendedSetIs ==
  ASSUME NEW d, NEW p, Good(d, p), NEW t \in Seq(Bin)
  PROVE  IsLonger(AppendedSet(d, p, t), d, p, t)
BY AppendedSetFacts DEF IsLonger

\* append(bitset)
LEMMA AppendSetDocumented ==
  ASSUME IInv, NEW c \in Calls, AppendSet(c)
  PROVE  Documented(c)
<1> DEFINE s == SubSeq(data, 1, pos)
           d == AppendedSet(data, pos, c.other)
           t == c.other
<1>1. c.op = "append_set" /\ t \in Seq(Bin) /\ Becomes(c, d, pos + Len(t))
  BY CallFacts DEF AppendSet
<1>2. Good(data, pos) /\ data \in Seq(Bin) /\ pos \in 0..Len(data)
  BY StringFacts
<1>3. IsLonger(d, data, pos, t)
  BY <1>1, <1>2, AppendedSetIs
<1>4. S!Effect(s, c) = s \o t
  BY <1>1, EffectFacts
<1> HIDE DEF d, t
<1>5. Matches(d, pos + Len(t), s \o t)
  BY <1>1, <1>2, <1>3, LongerMatches
<1>6. Good(d, pos + Len(t))
  BY <1>3 DEF IsLonger
<1> QED
  BY <1>1, <1>4, <1>5, <1>6, MatchDocumented

\* A set y that the set x becomes when t is written over it.
IsSetTo(y, x, ofs, t) ==
  /\ Good(y.data, y.pos) /\ y.pos = Larger(x.pos, ofs + Len(t))
  /\ \A i \in 1..y.pos :
       y.data[i] = IF i \in (ofs + 1)..(ofs + Len(t)) THEN t[i - ofs]
                   ELSE IF i <= x.pos THEN x.data[i] ELSE 0

\* It holds the string with t written over it.
LEMMA SetToMatches ==
  ASSUME NEW x \in Sets, Good(x.data, x.pos), NEW y \in Sets, NEW ofs \in Nat, NEW t \in Seq(Bin),
         IsSetTo(y, x, ofs, t)
  PROVE  Matches(y.data, y.pos, S!Overwritten(SubSeq(x.data, 1, x.pos), ofs, t))
<1> DEFINE s == SubSeq(x.data, 1, x.pos)
           e == S!Overwritten(s, ofs, t)
<1>1. /\ s \in Seq(Bin) /\ Len(s) = x.pos /\ x.pos \in Nat
      /\ \A i \in 1..x.pos : s[i] = x.data[i]
  BY PrefixFacts DEF Good, Sets
<1> HIDE DEF s
<1>2. IsOver(e, s, ofs, t)
  BY <1>1, OverIs
<1> HIDE DEF e
<1>3. e \in Seq(Bin) /\ Len(e) = y.pos
  BY <1>1, <1>2 DEF IsOver, IsSetTo
<1>4. ASSUME NEW i \in 1..y.pos PROVE y.data[i] = e[i]
  <2>1. y.data[i] = IF i \in (ofs + 1)..(ofs + Len(t)) THEN t[i - ofs]
                    ELSE IF i <= x.pos THEN x.data[i] ELSE 0
    BY DEF IsSetTo
  <2>2. e[i] = IF i \in (ofs + 1)..(ofs + Len(t)) THEN t[i - ofs]
               ELSE IF i <= x.pos THEN s[i] ELSE 0
    BY <1>1, <1>2 DEF IsOver, IsSetTo
  <2>3. i <= x.pos => s[i] = x.data[i]
    <3>1. i \in Nat /\ i >= 1
      BY DEF Sets
    <3> QED
      BY <1>1, <3>1
  <2> QED
    BY <2>1, <2>2, <2>3
<1>5. Matches(y.data, y.pos, e)
  BY <1>3, <1>4 DEF Matches
<1> QED
  BY <1>5 DEF e, s

\* set_impl() of a value that fits
LEMMA FittingIs ==
  ASSUME NEW y, NEW x \in Sets, Good(x.data, x.pos), NEW ofs \in Nat, NEW v \in Seq(Bin),
         Fitting(ofs, Len(v)), IsWritten(y, x, ofs, v)
  PROVE  IsSetTo(y, x, ofs, v)
<1>1. Len(v) \in Nat /\ x.pos \in Nat
  BY BinFun DEF Sets
<1>2. WrittenEnd(ofs, Len(v)) = ofs + Len(v)
  BY <1>1, WrittenFacts
<1>3. Good(y.data, y.pos) /\ y.pos = Larger(x.pos, ofs + Len(v))
  BY <1>2 DEF IsWritten
<1>4. ASSUME NEW i \in 1..y.pos
      PROVE  y.data[i] = IF i \in (ofs + 1)..(ofs + Len(v)) THEN v[i - ofs]
                         ELSE IF i <= x.pos THEN x.data[i] ELSE 0
  <2>1. ~(i \in (ofs + Len(v) + 1)..(ofs + Len(v)))
    BY <1>1
  <2> QED
    BY <1>2, <2>1 DEF IsWritten
<1> QED
  BY <1>3, <1>4 DEF IsSetTo

\* The set that a call finds.
LEMMA TheSetFacts ==
  ASSUME IInv
  PROVE  /\ TheSet \in Sets /\ TheSet.data = data /\ TheSet.pos = pos
         /\ Good(TheSet.data, TheSet.pos)
BY StringFacts DEF TheSet, Sets

\* set(v, ofs, bits) of a value that fits
LEMMA SetDocumented ==
  ASSUME IInv, NEW c \in Calls, SetValue(c), inside', Fitting(c.ofs, c.bits)
  PROVE  Documented(c)
<1> DEFINE s == SubSeq(data, 1, pos)
           l == S!Low(c.v, c.bits)
           y == SetImpl(TheSet, c.ofs, l)
<1>1. /\ c.op = "set" /\ c.v \in Seq(Bin) /\ c.bits \in 1..Len(c.v) /\ c.ofs \in Nat
      /\ BecomesIfInside(c, y)
  BY CallFacts DEF SetValue
<1>2. l \in Seq(Bin) /\ Len(l) = c.bits
  BY <1>1, LowFacts
<1>3. y.inside /\ Becomes(c, y.data, y.pos)
  BY <1>1 DEF BecomesIfInside, Outside
<1>4. S!Effect(s, c) = S!Overwritten(s, c.ofs, l)
  BY <1>1, EffectFacts
<1> HIDE DEF l
<1>5. y \in Sets /\ IsWritten(y, TheSet, c.ofs, l)
  BY <1>1, <1>2, <1>3, TheSetFacts, SetImplFacts
<1> HIDE DEF y
<1>6. IsSetTo(y, TheSet, c.ofs, l)
  BY <1>1, <1>2, <1>5, TheSetFacts, FittingIs
<1>7. Matches(y.data, y.pos, S!Overwritten(s, c.ofs, l))
  BY <1>1, <1>2, <1>5, <1>6, TheSetFacts, SetToMatches
<1>8. Good(y.data, y.pos)
  BY <1>6 DEF IsSetTo
<1> QED
  BY <1>1, <1>3, <1>4, <1>7, <1>8, MatchDocumented

\* set(bitset, ofs)
LEMMA SetSetDocumented ==
  ASSUME IInv, NEW c \in Calls, SetSet(c), inside'
  PROVE  Documented(c)
<1> DEFINE s == SubSeq(data, 1, pos)
           t == c.other
           y == SetSetImpl(TheSet, c.ofs, t)
<1>1. c.op = "set_set" /\ t \in Seq(Bin) /\ c.ofs \in Nat /\ BecomesIfInside(c, y)
  BY CallFacts DEF SetSet
<1>2. y.inside /\ Becomes(c, y.data, y.pos)
  BY <1>1 DEF BecomesIfInside, Outside
<1>3. S!Effect(s, c) = IF t = <<>> THEN s ELSE S!Overwritten(s, c.ofs, t)
  BY <1>1, EffectFacts
<1>4. t = <<>> <=> Len(t) = 0
  BY <1>1
<1> HIDE DEF t
<1>5. /\ y \in Sets /\ Good(y.data, y.pos)
      /\ y.pos = IF Len(t) = 0 THEN TheSet.pos ELSE Larger(TheSet.pos, c.ofs + Len(t))
      /\ \A j \in 1..y.pos :
           y.data[j] = IF j \in (c.ofs + 1)..(c.ofs + Len(t)) THEN t[j - c.ofs]
                       ELSE IF j <= TheSet.pos THEN TheSet.data[j] ELSE 0
  BY <1>1, <1>2, TheSetFacts, SetSetFacts
<1> HIDE DEF y
<1>6. CASE Len(t) = 0
  <2>1. S!Effect(s, c) = s /\ y.pos = pos
    BY <1>3, <1>4, <1>5, <1>6, TheSetFacts
  <2>2. s \in Seq(Bin) /\ Len(s) = pos /\ \A i \in 1..pos : s[i] = data[i]
    BY StringFacts
  <2> HIDE DEF s
  <2>3. ASSUME NEW i \in 1..y.pos PROVE y.data[i] = s[i]
    <3>1. i \in 1..pos /\ i <= pos /\ ~(i \in (c.ofs + 1)..(c.ofs + Len(t)))
      BY <1>1, <1>6, <2>1, StringFacts
    <3>2. y.data[i] = data[i]
      BY <1>5, <3>1, TheSetFacts
    <3> QED
      BY <2>2, <3>1, <3>2
  <2>4. Matches(y.data, y.pos, s)
    BY <2>1, <2>2, <2>3 DEF Matches
  <2> QED
    BY <1>1, <1>2, <1>5, <2>1, <2>4, MatchDocumented DEF s
<1>7. CASE Len(t) # 0
  <2>1. IsSetTo(y, TheSet, c.ofs, t)
    BY <1>5, <1>7 DEF IsSetTo
  <2>2. Matches(y.data, y.pos, S!Overwritten(s, c.ofs, t))
    BY <1>1, <1>5, <2>1, TheSetFacts, SetToMatches
  <2>3. S!Effect(s, c) = S!Overwritten(s, c.ofs, t)
    BY <1>3, <1>4, <1>7
  <2> QED
    BY <1>1, <1>2, <1>5, <2>2, <2>3, MatchDocumented
<1> QED
  BY <1>6, <1>7

\* The bits that a vector begins with.
LEMMA MatchesItself ==
  ASSUME NEW d, NEW p, Good(d, p)
  PROVE  Matches(d, p, SubSeq(d, 1, p))
BY PrefixFacts DEF Matches, Good

\* One bit changed
LEMMA ChangedMatches ==
  ASSUME NEW d, NEW p, Good(d, p), NEW k \in Nat, k < p, NEW b \in Bin
  PROVE  Matches([d EXCEPT ![k + 1] = b], p, [SubSeq(d, 1, p) EXCEPT ![k + 1] = b])
<1> DEFINE s == SubSeq(d, 1, p)
           j == k + 1
<1>1. /\ s \in Seq(Bin) /\ Len(s) = p /\ p \in Nat /\ DOMAIN s = 1..p /\ p <= Len(d)
      /\ \A i \in 1..p : s[i] = d[i]
  <2>1. d \in Seq(Bin) /\ p \in 0..Len(d)
    BY DEF Good
  <2>2. Len(d) \in Nat
    BY <2>1, BinFun
  <2> QED
    BY <2>1, <2>2, PrefixFacts
<1>2. j \in 1..p
  BY <1>1
<1>3. DOMAIN d = 1..Len(d) /\ Len(d) \in Nat
  BY BinFun DEF Good
<1> HIDE DEF s, j
<1> DEFINE r == [s EXCEPT ![j] = b]
<1>4. r \in [1..p -> Bin] /\ \A i \in 1..p : r[i] = IF i = j THEN b ELSE s[i]
  BY <1>1, <1>2
<1>5. \A i \in 1..p : [d EXCEPT ![j] = b][i] = IF i = j THEN b ELSE d[i]
  BY <1>1, <1>3
<1> HIDE DEF r
<1>6. r \in Seq(Bin) /\ Len(r) = p
  BY <1>1, <1>4, BinSeq
<1>7. Matches([d EXCEPT ![j] = b], p, r)
  BY <1>1, <1>4, <1>5, <1>6 DEF Matches
<1> QED
  BY <1>7 DEF r, s, j

\* The documented effect of changing one bit.
LEMMA BitEffects ==
  ASSUME NEW s \in Seq(Bin), NEW c, c.index < Len(s), NEW j, j = c.index + 1
  PROVE  /\ c.op = "set_bit" => S!Effect(s, c) = [s EXCEPT ![j] = c.v]
         /\ c.op = "flip" /\ j \in DOMAIN s => S!Effect(s, c) = [s EXCEPT ![j] = 1 - s[j]]
BY EffectFacts

\* set_bit
LEMMA SetBitDocumented ==
  ASSUME IInv, NEW c \in Calls, SetBit(c)
  PROVE  Documented(c)
<1> DEFINE s == SubSeq(data, 1, pos)
<1>1. c.op = "set_bit" /\ c.index \in Nat /\ c.v \in Bin
  BY CallFacts DEF SetBit
<1>2. Good(data, pos) /\ Len(s) = pos
  BY StringFacts
<1>3. CASE c.index < pos
  <2>1. Becomes(c, [data EXCEPT ![c.index + 1] = c.v], pos)
    BY <1>3 DEF SetBit
  <2>2. S!Effect(s, c) = [s EXCEPT ![c.index + 1] = c.v]
    <3>1. s \in Seq(Bin)
      BY StringFacts
    <3> HIDE DEF s
    <3> QED
      BY <1>1, <1>2, <1>3, <3>1, BitEffects
  <2> QED
    BY <1>1, <1>2, <1>3, <2>1, <2>2, ChangedFacts, ChangedMatches, MatchDocumented
<1>4. CASE ~(c.index < pos)
  <2>1. Becomes(c, data, pos)
    BY <1>4 DEF SetBit
  <2>2. S!Effect(s, c) = s
    BY <1>1, <1>2, <1>4, EffectFacts
  <2> QED
    BY <1>1, <1>2, <2>1, <2>2, MatchesItself, MatchDocumented
<1> QED
  BY <1>3, <1>4

\* flip
LEMMA FlipDocumented ==
  ASSUME IInv, NEW c \in Calls, Flip(c)
  PROVE  Documented(c)
<1> DEFINE s == SubSeq(data, 1, pos)
           b == 1 - data[c.index + 1]
<1>1. c.op = "flip" /\ c.index \in Nat
  BY CallFacts DEF Flip
<1>2. Good(data, pos) /\ Len(s) = pos
  BY StringFacts
<1>3. CASE c.index < pos
  <2>1. c.index + 1 \in 1..pos /\ c.index + 1 \in DOMAIN s /\ c.index + 1 \in DOMAIN data
    BY <1>1, <1>3, StringFacts, BinFun
  <2>2. s[c.index + 1] = data[c.index + 1] /\ data[c.index + 1] \in Bin
    BY <2>1, StringFacts
  <2>3. b \in Bin
    BY <2>2 DEF Bin
  <2>4. Becomes(c, [data EXCEPT ![c.index + 1] = b], pos)
    BY <1>3, <2>1 DEF Flip
  <2>5. S!Effect(s, c) = [s EXCEPT ![c.index + 1] = b]
    <3>1. s \in Seq(Bin)
      BY StringFacts
    <3> HIDE DEF s
    <3>2. S!Effect(s, c) = [s EXCEPT ![c.index + 1] = 1 - s[c.index + 1]]
      BY <1>1, <1>2, <1>3, <2>1, <3>1, BitEffects
    <3> QED
      BY <2>2, <3>2
  <2> HIDE DEF b
  <2> QED
    BY <1>1, <1>2, <1>3, <2>3, <2>4, <2>5, ChangedFacts, ChangedMatches, MatchDocumented
<1>4. CASE ~(c.index < pos)
  <2>1. Becomes(c, data, pos)
    BY <1>4 DEF Flip
  <2>2. S!Effect(s, c) = s
    BY <1>1, <1>2, <1>4, EffectFacts
  <2> QED
    BY <1>1, <1>2, <2>1, <2>2, MatchesItself, MatchDocumented
<1> QED
  BY <1>3, <1>4

\* reset, clear and reserve
LEMMA PlainDocumented ==
  ASSUME IInv, NEW c \in Calls, Reset(c) \/ Clear(c) \/ Reserve(c)
  PROVE  Documented(c)
<1> DEFINE s == SubSeq(data, 1, pos)
<1>1. Good(data, pos) /\ Len(s) = pos /\ pos \in Nat
  BY StringFacts
<1>2. CASE Reset(c)
  <2>1. c.op = "reset" /\ Becomes(c, S!Zeros(Len(data)), pos)
    BY <1>2 DEF Reset
  <2>2. S!Effect(s, c) = S!Zeros(pos)
    BY <1>1, <2>1, EffectFacts, ZenonT(60)
  <2>3. Good(S!Zeros(Len(data)), pos)
    BY <1>1, ResetFacts
  <2>4. Matches(S!Zeros(Len(data)), pos, S!Zeros(pos))
    <3>1. Len(data) \in Nat /\ pos <= Len(data)
      BY <1>1, StringFacts, BinFun
    <3>2. \A i \in 1..pos : i \in 1..Len(data)
      BY <1>1, <3>1
    <3>3. S!Zeros(pos) \in Seq(Bin) /\ Len(S!Zeros(pos)) = pos /\ \A i \in 1..pos : S!Zeros(pos)[i] = 0
      BY <1>1, ZerosFacts
    <3>4. \A i \in 1..Len(data) : S!Zeros(Len(data))[i] = 0
      BY <3>1, ZerosFacts
    <3> QED
      BY <3>2, <3>3, <3>4 DEF Matches
  <2> QED
    BY <2>1, <2>2, <2>3, <2>4, MatchDocumented
<1>3. CASE Clear(c)
  <2>1. c.op = "clear" /\ Becomes(c, <<>>, 0)
    BY <1>3 DEF Clear
  <2>2. S!Effect(s, c) = <<>>
    BY <2>1, EffectFacts
  <2>3. Good(<<>>, 0)
    <3>1. 0 \in Whole
      BY WholeSum, UpFacts
    <3> QED
      BY <3>1 DEF Good
  <2>4. Matches(<<>>, 0, <<>>)
    BY DEF Matches
  <2> QED
    BY <2>1, <2>2, <2>3, <2>4, MatchDocumented
<1>4. CASE Reserve(c)
  <2> DEFINE n == c.blocks * BITS
             d == Extended(data, pos, n)
  <2>1. c.op = "reserve" /\ c.blocks \in Nat /\ Becomes(c, d, pos)
    BY <1>4, CallFacts DEF Reserve
  <2>2. n \in Nat
    BY <2>1, BitsAssumption
  <2>3. S!Effect(s, c) = s
    BY <2>1, EffectFacts
  <2> HIDE DEF n
  <2>4. Good(d, pos) /\ \A i \in 1..Len(data) : d[i] = data[i]
    BY <1>1, <2>2, ExtendedFacts
  <2> HIDE DEF d
  <2>5. Matches(d, pos, s)
    <3>1. Len(data) \in Nat /\ pos <= Len(data)
      BY <1>1, StringFacts, BinFun
    <3>2. \A i \in 1..pos : i \in 1..Len(data)
      BY <1>1, <3>1
    <3>3. s \in Seq(Bin) /\ \A i \in 1..pos : s[i] = data[i]
      BY StringFacts
    <3> HIDE DEF s
    <3> QED
      BY <1>1, <2>4, <3>2, <3>3 DEF Matches
  <2> QED
    BY <2>1, <2>3, <2>4, <2>5, MatchDocumented
<1> QED
  BY <1>2, <1>3, <1>4

-----------------------------------------------------------------------------
\* The bits r[1] to r[n] are those of the first p of d and those of t, combined as
\* the table h says.
IsTabled(r, n, d, p, t, h) ==
  \A i \in 1..n : r[i] = h[<<IF i <= p THEN d[i] ELSE 0, IF i <= Len(t) THEN t[i] ELSE 0>>]

\* The string that the documentation says.
Tabled(n, s, t, h) ==
  [i \in 1..n |-> h[<<IF i \in DOMAIN s THEN s[i] ELSE 0, IF i \in DOMAIN t THEN t[i] ELSE 0>>]]

\* It is what the vector begins with.
LEMMA TabledMatches ==
  ASSUME NEW d, NEW p, Good(d, p), NEW t \in Seq(Bin), NEW n \in Nat,
         NEW h \in [Bin \X Bin -> Bin], NEW r, IsTabled(r, n, d, p, t, h)
  PROVE  Matches(r, n, Tabled(n, SubSeq(d, 1, p), t, h))
<1> DEFINE s == SubSeq(d, 1, p)
           w == Tabled(n, s, t, h)
<1>1. /\ d \in Seq(Bin) /\ p \in 0..Len(d) /\ DOMAIN s = 1..p
      /\ \A i \in 1..p : s[i] = d[i] /\ d[i] \in Bin
  BY PrefixFacts DEF Good
<1>2. p \in Nat /\ Len(t) \in Nat /\ DOMAIN t = 1..Len(t) /\ \A i \in 1..Len(t) : t[i] \in Bin
  BY <1>1, BinFun
<1> HIDE DEF s
<1>3. ASSUME NEW i \in 1..n PROVE w[i] = r[i] /\ w[i] \in Bin
  <2> DEFINE x == IF i \in DOMAIN s THEN s[i] ELSE 0
             y == IF i \in DOMAIN t THEN t[i] ELSE 0
  <2>1. x \in Bin /\ x = IF i <= p THEN d[i] ELSE 0
    BY <1>1, <1>2 DEF Bin
  <2>2. y \in Bin /\ y = IF i <= Len(t) THEN t[i] ELSE 0
    BY <1>2 DEF Bin
  <2>3. w[i] = h[<<x, y>>]
    BY DEF Tabled
  <2> HIDE DEF x, y, w
  <2>4. r[i] = h[<<x, y>>]
    BY <2>1, <2>2 DEF IsTabled
  <2>5. <<x, y>> \in Bin \X Bin
    BY <2>1, <2>2
  <2> QED
    BY <2>3, <2>4, <2>5
<1>4. w \in [1..n -> Bin]
  <2>1. w = [i \in 1..n |-> w[i]]
    BY DEF Tabled
  <2> HIDE DEF w
  <2> QED
    BY <1>3, <2>1
<1> HIDE DEF w
<1>5. w \in Seq(Bin) /\ Len(w) = n
  BY <1>4, BinSeq
<1> QED
  BY <1>3, <1>5 DEF Matches, w, s

\* operator|=, operator^= and operator&= as tables.
OrTable == [x \in Bin \X Bin |-> S!OrBit(x[1], x[2])]
XorTable == [x \in Bin \X Bin |-> S!XorBit(x[1], x[2])]
AndTable == [x \in Bin \X Bin |-> S!AndBit(x[1], x[2])]

\* They are the tables of the operators.
LEMMA TableFacts ==
  /\ OrTable \in [Bin \X Bin -> Bin] /\ XorTable \in [Bin \X Bin -> Bin]
  /\ AndTable \in [Bin \X Bin -> Bin]
  /\ \A a \in Bin : \A b \in Bin : /\ OrTable[<<a, b>>] = S!OrBit(a, b)
                                   /\ XorTable[<<a, b>>] = S!XorBit(a, b)
                                   /\ AndTable[<<a, b>>] = S!AndBit(a, b)
<1>1. \A a \in Bin : \A b \in Bin : S!OrBit(a, b) \in Bin /\ S!XorBit(a, b) \in Bin /\ S!AndBit(a, b) \in Bin
  BY DEF S!OrBit, S!XorBit, S!AndBit, Bin
<1> QED
  BY <1>1 DEF OrTable, XorTable, AndTable

\* The documentation of the three operators.
LEMMA CombinedFacts ==
  ASSUME NEW s \in Seq(Bin), NEW t \in Seq(Bin), NEW n \in Nat
  PROVE  /\ S!Combined(s, t, n, S!OrBit) = Tabled(n, s, t, OrTable)
         /\ S!Combined(s, t, n, S!XorBit) = Tabled(n, s, t, XorTable)
         /\ S!Combined(s, t, n, S!AndBit) = Tabled(n, s, t, AndTable)
<1> DEFINE X(i) == IF i \in DOMAIN s THEN s[i] ELSE 0
           Y(i) == IF i \in DOMAIN t THEN t[i] ELSE 0
<1>1. \A i : X(i) \in Bin /\ Y(i) \in Bin
  BY BinFun DEF Bin
<1>2. /\ S!Combined(s, t, n, S!OrBit) = [i \in 1..n |-> S!OrBit(X(i), Y(i))]
      /\ S!Combined(s, t, n, S!XorBit) = [i \in 1..n |-> S!XorBit(X(i), Y(i))]
      /\ S!Combined(s, t, n, S!AndBit) = [i \in 1..n |-> S!AndBit(X(i), Y(i))]
  BY DEF S!Combined
<1>3. /\ Tabled(n, s, t, OrTable) = [i \in 1..n |-> OrTable[<<X(i), Y(i)>>]]
      /\ Tabled(n, s, t, XorTable) = [i \in 1..n |-> XorTable[<<X(i), Y(i)>>]]
      /\ Tabled(n, s, t, AndTable) = [i \in 1..n |-> AndTable[<<X(i), Y(i)>>]]
  BY DEF Tabled
<1> HIDE DEF X, Y
<1>4. \A i : /\ OrTable[<<X(i), Y(i)>>] = S!OrBit(X(i), Y(i))
             /\ XorTable[<<X(i), Y(i)>>] = S!XorBit(X(i), Y(i))
             /\ AndTable[<<X(i), Y(i)>>] = S!AndBit(X(i), Y(i))
  BY <1>1, TableFacts
<1> QED
  BY <1>2, <1>3, <1>4

\* What operator|=, ^= and &= leave in the vector.
LEMMA OrTabled ==
  ASSUME NEW d, NEW p, Good(d, p), NEW t \in Seq(Bin),
         NEW e, e = IF p < Len(t) THEN Extended(d, p, Len(t) - p) ELSE d,
         ~(Len(e) > Len(CanonicalData(t))),
         NEW r, r = [i \in DOMAIN e |-> S!OrBit(e[i], CanonicalData(t)[i])]
  PROVE  Good(r, Larger(p, Len(t))) /\ IsTabled(r, Larger(p, Len(t)), d, p, t, OrTable)
<1> DEFINE n == Larger(p, Len(t))
<1>1. /\ Good(r, n)
      /\ \A i \in 1..n :
           r[i] = S!OrBit(IF i <= p THEN d[i] ELSE 0, IF i <= Len(t) THEN t[i] ELSE 0)
  BY OrFacts
<1>2. d \in Seq(Bin) /\ p \in 0..Len(d)
  BY DEF Good
<1> HIDE DEF n
<1>3. ASSUME NEW i \in 1..n
      PROVE  r[i] = OrTable[<<IF i <= p THEN d[i] ELSE 0, IF i <= Len(t) THEN t[i] ELSE 0>>]
  <2> DEFINE x == IF i <= p THEN d[i] ELSE 0
             y == IF i <= Len(t) THEN t[i] ELSE 0
  <2>1. x \in Bin /\ y \in Bin
    BY <1>2, BinFun DEF Bin
  <2>2. r[i] = S!OrBit(x, y)
    BY <1>1
  <2> HIDE DEF x, y
  <2>3. r[i] = OrTable[<<x, y>>]
    BY <2>1, <2>2, TableFacts
  <2> QED
    BY <2>3 DEF x, y
<1> QED
  BY <1>1, <1>3 DEF IsTabled, n

\* operator^=
LEMMA XorTabled ==
  ASSUME NEW d, NEW p, Good(d, p), NEW t \in Seq(Bin),
         NEW e, e = IF p < Len(t) THEN Extended(d, p, Len(t) - p) ELSE d,
         ~(Len(e) > Len(CanonicalData(t))),
         NEW r, r = [i \in DOMAIN e |-> S!XorBit(e[i], CanonicalData(t)[i])]
  PROVE  Good(r, Larger(p, Len(t))) /\ IsTabled(r, Larger(p, Len(t)), d, p, t, XorTable)
<1> DEFINE n == Larger(p, Len(t))
<1>1. /\ Good(r, n)
      /\ \A i \in 1..n :
           r[i] = S!XorBit(IF i <= p THEN d[i] ELSE 0, IF i <= Len(t) THEN t[i] ELSE 0)
  BY XorFacts
<1>2. d \in Seq(Bin) /\ p \in 0..Len(d)
  BY DEF Good
<1> HIDE DEF n
<1>3. ASSUME NEW i \in 1..n
      PROVE  r[i] = XorTable[<<IF i <= p THEN d[i] ELSE 0, IF i <= Len(t) THEN t[i] ELSE 0>>]
  <2> DEFINE x == IF i <= p THEN d[i] ELSE 0
             y == IF i <= Len(t) THEN t[i] ELSE 0
  <2>1. x \in Bin /\ y \in Bin
    BY <1>2, BinFun DEF Bin
  <2>2. r[i] = S!XorBit(x, y)
    BY <1>1
  <2> HIDE DEF x, y
  <2>3. r[i] = XorTable[<<x, y>>]
    BY <2>1, <2>2, TableFacts
  <2> QED
    BY <2>3 DEF x, y
<1> QED
  BY <1>1, <1>3 DEF IsTabled, n

\* operator&=
LEMMA AndTabled ==
  ASSUME NEW d, NEW p, Good(d, p), NEW t \in Seq(Bin),
         NEW e, e = Cut(d, p, Len(t)),
         ~(Len(e) > Len(CanonicalData(t))),
         NEW r, r = [i \in DOMAIN e |-> S!AndBit(e[i], CanonicalData(t)[i])]
  PROVE  Good(r, Smaller(p, Len(t))) /\ IsTabled(r, Smaller(p, Len(t)), d, p, t, AndTable)
<1> DEFINE n == Smaller(p, Len(t))
<1>1. Good(r, n) /\ \A i \in 1..n : r[i] = S!AndBit(d[i], t[i])
  BY AndFacts
<1>2. d \in Seq(Bin) /\ p \in 0..Len(d) /\ Len(d) \in Nat /\ Len(t) \in Nat
  BY BinFun DEF Good
<1>3. ASSUME NEW i \in 1..n PROVE i <= p /\ i <= Len(t) /\ i \in 1..Len(d) /\ i \in 1..Len(t)
  BY <1>2 DEF Smaller
<1> HIDE DEF n
<1>4. ASSUME NEW i \in 1..n
      PROVE  r[i] = AndTable[<<IF i <= p THEN d[i] ELSE 0, IF i <= Len(t) THEN t[i] ELSE 0>>]
  <2>1. d[i] \in Bin /\ t[i] \in Bin
    BY <1>2, <1>3, BinFun
  <2>2. r[i] = AndTable[<<d[i], t[i]>>]
    BY <1>1, <2>1, TableFacts
  <2> QED
    BY <1>3, <2>2
<1> QED
  BY <1>1, <1>4 DEF IsTabled, n

\* A part of the string is a part of the vector.
LEMMA PartOfPrefix ==
  ASSUME NEW d \in Seq(Bin), NEW p \in 0..Len(d), NEW a \in Nat, NEW b \in Nat, a <= b, b <= p
  PROVE  SubSeq(SubSeq(d, 1, p), a + 1, b) = Part(d, a, b)
<1> DEFINE s == SubSeq(d, 1, p)
<1>1. s \in Seq(Bin) /\ Len(s) = p /\ p \in Nat /\ \A i \in 1..p : s[i] = d[i]
  BY PrefixFacts, BinFun
<1>2. d \in Seq(Bin) /\ Len(d) \in Nat /\ p <= Len(d)
  BY BinFun
<1> HIDE DEF s
<1> DEFINE x == SubSeq(s, a + 1, b)
           y == SubSeq(d, a + 1, b)
<1>3. IsPart(x, s, a, b) /\ IsPart(y, d, a, b)
  BY <1>1, <1>2, PartIs DEF Part
<1> HIDE DEF x, y
<1>4. /\ x \in Seq(Bin) /\ Len(x) = b - a /\ y \in Seq(Bin) /\ Len(y) = b - a
      /\ \A i \in 1..(b - a) : x[i] = s[a + i] /\ y[i] = d[a + i]
  BY <1>3 DEF IsPart
<1>5. \A i \in 1..(b - a) : a + i \in 1..p
  BY <1>1
<1>6. x = y
  <2>1. \A i \in 1..Len(x) : x[i] = y[i]
    BY <1>1, <1>4, <1>5
  <2>2. Len(x) = Len(y)
    BY <1>4
  <2> QED
    BY <1>4, <2>1, <2>2, SameString
<1> QED
  BY <1>6 DEF x, y, s, Part

\* operator|=
LEMMA OrDocumented ==
  ASSUME IInv, NEW c \in Calls, Or(c), inside'
  PROVE  Documented(c)
<1> DEFINE s == SubSeq(data, 1, pos)
           t == c.other
           n == Larger(pos, Len(t))
           e == IF pos < Len(t) THEN Extended(data, pos, Len(t) - pos) ELSE data
           r == [i \in DOMAIN e |-> S!OrBit(e[i], CanonicalData(t)[i])]
<1>1. c.op = "|=" /\ t \in Seq(Bin) /\ Len(t) \in Nat
  <2>1. c.op = "|=" /\ t \in Seq(Bin)
    BY CallFacts DEF Or
  <2> QED
    BY <2>1, BinFun
<1>2. Good(data, pos) /\ s \in Seq(Bin) /\ Len(s) = pos /\ pos \in Nat
  BY StringFacts
<1>3. ~(Len(e) > Len(CanonicalData(t))) /\ Becomes(c, r, n)
  <2>1. IF Len(e) > Len(CanonicalData(t)) THEN Outside ELSE Becomes(c, r, n)
    BY Zenon DEF Or, Grow
  <2>2. ~Outside
    BY DEF Outside
  <2> HIDE DEF e, r, n
  <2> QED
    BY <2>1, <2>2
<1>4. S!Effect(s, c) = S!Combined(s, t, n, S!OrBit)
  <2>1. n = S!Longer(s, t)
    BY <1>2 DEF Larger, S!Longer
  <2> HIDE DEF n, s
  <2> QED
    BY <1>1, <2>1, EffectFacts
<1>5. n \in Nat
  BY <1>1, <1>2 DEF Larger
<1>6. e = IF pos < Len(t) THEN Extended(data, pos, Len(t) - pos) ELSE data
  OBVIOUS
<1>7. r = [i \in DOMAIN e |-> S!OrBit(e[i], CanonicalData(t)[i])]
  OBVIOUS
<1> HIDE DEF t, e, r
<1>8. Good(r, n) /\ IsTabled(r, n, data, pos, t, OrTable)
  BY <1>1, <1>2, <1>3, <1>6, <1>7, OrTabled
<1> HIDE DEF n
<1>9. Matches(r, n, Tabled(n, s, t, OrTable))
  BY <1>1, <1>2, <1>5, <1>8, TableFacts, TabledMatches
<1>10. S!Combined(s, t, n, S!OrBit) = Tabled(n, s, t, OrTable)
  BY <1>1, <1>2, <1>5, CombinedFacts
<1>11. Matches(r, n, S!Effect(s, c))
  BY <1>4, <1>9, <1>10
<1> QED
  BY <1>1, <1>3, <1>8, <1>11, MatchDocumented

\* operator^=
LEMMA XorDocumented ==
  ASSUME IInv, NEW c \in Calls, Xor(c), inside'
  PROVE  Documented(c)
<1> DEFINE s == SubSeq(data, 1, pos)
           t == c.other
           n == Larger(pos, Len(t))
           e == IF pos < Len(t) THEN Extended(data, pos, Len(t) - pos) ELSE data
           r == [i \in DOMAIN e |-> S!XorBit(e[i], CanonicalData(t)[i])]
<1>1. c.op = "^=" /\ t \in Seq(Bin) /\ Len(t) \in Nat
  <2>1. c.op = "^=" /\ t \in Seq(Bin)
    BY CallFacts DEF Xor
  <2> QED
    BY <2>1, BinFun
<1>2. Good(data, pos) /\ s \in Seq(Bin) /\ Len(s) = pos /\ pos \in Nat
  BY StringFacts
<1>3. ~(Len(e) > Len(CanonicalData(t))) /\ Becomes(c, r, n)
  <2>1. IF Len(e) > Len(CanonicalData(t)) THEN Outside ELSE Becomes(c, r, n)
    BY Zenon DEF Xor, Grow
  <2>2. ~Outside
    BY DEF Outside
  <2> HIDE DEF e, r, n
  <2> QED
    BY <2>1, <2>2
<1>4. S!Effect(s, c) = S!Combined(s, t, n, S!XorBit)
  <2>1. n = S!Longer(s, t)
    BY <1>2 DEF Larger, S!Longer
  <2> HIDE DEF n, s
  <2> QED
    BY <1>1, <2>1, EffectFacts
<1>5. n \in Nat
  BY <1>1, <1>2 DEF Larger
<1>6. e = IF pos < Len(t) THEN Extended(data, pos, Len(t) - pos) ELSE data
  OBVIOUS
<1>7. r = [i \in DOMAIN e |-> S!XorBit(e[i], CanonicalData(t)[i])]
  OBVIOUS
<1> HIDE DEF t, e, r
<1>8. Good(r, n) /\ IsTabled(r, n, data, pos, t, XorTable)
  BY <1>1, <1>2, <1>3, <1>6, <1>7, XorTabled
<1> HIDE DEF n
<1>9. Matches(r, n, Tabled(n, s, t, XorTable))
  BY <1>1, <1>2, <1>5, <1>8, TableFacts, TabledMatches
<1>10. S!Combined(s, t, n, S!XorBit) = Tabled(n, s, t, XorTable)
  BY <1>1, <1>2, <1>5, CombinedFacts
<1>11. Matches(r, n, S!Effect(s, c))
  BY <1>4, <1>9, <1>10
<1> QED
  BY <1>1, <1>3, <1>8, <1>11, MatchDocumented

\* operator&=
LEMMA AndDocumented ==
  ASSUME IInv, NEW c \in Calls, And(c), inside'
  PROVE  Documented(c)
<1> DEFINE s == SubSeq(data, 1, pos)
           t == c.other
           n == Smaller(pos, Len(t))
           e == [i \in DOMAIN data |-> IF i \in (Len(t) + 1)..pos THEN 0 ELSE data[i]]
           r == [i \in DOMAIN e |-> S!AndBit(e[i], CanonicalData(t)[i])]
<1>1. c.op = "&=" /\ t \in Seq(Bin) /\ Len(t) \in Nat
  <2>1. c.op = "&=" /\ t \in Seq(Bin)
    BY CallFacts DEF And
  <2> QED
    BY <2>1, BinFun
<1>2. Good(data, pos) /\ s \in Seq(Bin) /\ Len(s) = pos /\ pos \in Nat
  BY StringFacts
<1>3. ~(Len(e) > Len(CanonicalData(t))) /\ Becomes(c, r, n)
  <2>1. IF Len(e) > Len(CanonicalData(t)) THEN Outside ELSE Becomes(c, r, n)
    BY Zenon DEF And
  <2>2. ~Outside
    BY DEF Outside
  <2> HIDE DEF e, r, n
  <2> QED
    BY <2>1, <2>2
<1>4. S!Effect(s, c) = S!Combined(s, t, n, S!AndBit)
  <2>1. n = S!Shorter(s, t)
    BY <1>2 DEF Smaller, S!Shorter
  <2> HIDE DEF n, s
  <2> QED
    BY <1>1, <2>1, EffectFacts
<1>5. n \in Nat
  BY <1>1, <1>2 DEF Smaller
<1>6. e = Cut(data, pos, Len(t))
  BY DEF Cut
<1>7. r = [i \in DOMAIN e |-> S!AndBit(e[i], CanonicalData(t)[i])]
  OBVIOUS
<1> HIDE DEF t, e, r
<1>8. Good(r, n) /\ IsTabled(r, n, data, pos, t, AndTable)
  BY <1>1, <1>2, <1>3, <1>6, <1>7, AndTabled
<1> HIDE DEF n
<1>9. Matches(r, n, Tabled(n, s, t, AndTable))
  BY <1>1, <1>2, <1>5, <1>8, TableFacts, TabledMatches
<1>10. S!Combined(s, t, n, S!AndBit) = Tabled(n, s, t, AndTable)
  BY <1>1, <1>2, <1>5, CombinedFacts
<1>11. Matches(r, n, S!Effect(s, c))
  BY <1>4, <1>9, <1>10
<1> QED
  BY <1>1, <1>3, <1>8, <1>11, MatchDocumented

\* get(ofs, bits)
LEMMA GetDocumented ==
  ASSUME IInv, NEW c \in Calls, Get(c)
  PROVE  Documented(c)
<1> DEFINE s == SubSeq(data, 1, pos)
           first == Smaller(BITS - (c.ofs % BITS), c.bits)
           q == [i \in 1..Chunks(c.bits - first) |->
                   GetBlock(data, c.ofs + first + Begin(i), Chunk(c.bits - first, i))]
           f == FlattenSeq(Cons(GetBlock(data, c.ofs, first), q))
<1>1. c.op = "get" /\ c.ofs \in Nat /\ c.bits \in Nat \ {0}
  BY CallFacts DEF Get
<1>2. /\ data \in Seq(Bin) /\ pos \in 0..Len(data) /\ pos \in Nat /\ Len(s) = pos
      /\ Len(data) \in Nat /\ pos <= Len(data)
  BY StringFacts, BinFun
<1>3. Returns(c, IF c.ofs + c.bits > pos THEN <<>> ELSE f)
  BY DEF Get
<1>4. S!Effect(s, c) = s /\ UNCHANGED <<pos, data>> /\ call' = c
  BY <1>1, <1>3, EffectFacts DEF Returns
<1>5. S!Result(s, c) = IF c.ofs + c.bits <= pos THEN SubSeq(s, c.ofs + 1, c.ofs + c.bits) ELSE <<>>
  BY <1>1, <1>2, ResultFacts
<1>6. CASE c.ofs + c.bits > pos
  <2>1. read' = <<>>
    BY <1>3, <1>6 DEF Returns
  <2>2. S!Result(s, c) = <<>>
    BY <1>1, <1>2, <1>5, <1>6
  <2> QED
    BY <1>4, <2>1, <2>2 DEF Documented
<1>7. CASE ~(c.ofs + c.bits > pos)
  <2>1. read' = f
    BY <1>3, <1>7 DEF Returns
  <2>2. c.ofs + c.bits <= pos /\ c.ofs + c.bits <= Len(data)
    BY <1>1, <1>2, <1>7
  <2>3. f = Part(data, c.ofs, c.ofs + c.bits)
    <3>1. /\ first = Smaller(BITS - (c.ofs % BITS), c.bits)
          /\ q = [i \in 1..Chunks(c.bits - first) |->
                    GetBlock(data, c.ofs + first + Begin(i), Chunk(c.bits - first, i))]
      OBVIOUS
    <3> HIDE DEF first, q
    <3> QED
      BY <1>1, <1>2, <2>2, <3>1, GetFacts
  <2>4. S!Result(s, c) = SubSeq(s, c.ofs + 1, c.ofs + c.bits)
    BY <1>5, <2>2
  <2>5. SubSeq(s, c.ofs + 1, c.ofs + c.bits) = Part(data, c.ofs, c.ofs + c.bits)
    <3> DEFINE a == c.ofs
               b == c.ofs + c.bits
    <3>1. a \in Nat /\ b \in Nat /\ a <= b /\ b <= pos
      BY <1>1, <1>2, <2>2
    <3> HIDE DEF a, b
    <3>2. SubSeq(SubSeq(data, 1, pos), a + 1, b) = Part(data, a, b)
      BY <1>2, <3>1, PartOfPrefix
    <3> QED
      BY <3>2 DEF a, b
  <2> QED
    BY <1>4, <2>1, <2>3, <2>4, <2>5 DEF Documented
<1> QED
  BY <1>6, <1>7

\* The constructor from a range that begins with a block: its whole blocks hold
\* the bits of the range.
LEMMA RangeBlocks ==
  ASSUME NEW d \in Seq(Bin), NEW first \in Whole, NEW k \in Nat, first + k * BITS <= Len(d),
         NEW q, q = [i \in 1..k |-> GetBlock(d, first + Begin(i), BITS)]
  PROVE  FlattenSeq(q) = Part(d, first, first + k * BITS)
<1> DEFINE e == [i \in 0..k |-> first + i * BITS]
<1>1. BITS \in Nat \ {0} /\ first \in Nat
  BY BitsAssumption DEF Whole
<1>2. Len(d) \in Nat
  BY BinFun
<1>3. \A i \in 0..k : e[i] = first + i * BITS
  OBVIOUS
<1> HIDE DEF e
<1>4. ASSUME NEW i \in 0..k PROVE e[i] \in Nat /\ first <= e[i] /\ e[i] <= Len(d)
  <2> DEFINE x == i * BITS
             y == k * BITS
  <2>1. x \in Nat /\ y \in Nat /\ x <= y
    BY <1>1
  <2>2. e[i] = first + x /\ first + y <= Len(d)
    BY <1>3
  <2> HIDE DEF x, y
  <2> QED
    BY <1>1, <1>2, <2>1, <2>2
<1>5. e[0] = first
  <2>1. 0 \in 0..k /\ 0 * BITS = 0
    BY <1>1
  <2> QED
    BY <1>1, <1>3, <2>1
<1>6. ASSUME NEW i \in 1..k
      PROVE  e[i - 1] <= e[i] /\ IsPart(q[i], d, e[i - 1], e[i])
  <2> DEFINE x == (i - 1) * BITS
             a == first + x
  <2>1. i - 1 \in 0..k /\ i \in 0..k /\ i - 1 \in Nat
    OBVIOUS
  <2>2. x \in Nat /\ i * BITS = x + BITS
    BY <1>1, <2>1
  <2>3. e[i - 1] = a
    BY <1>3, <2>1
  <2>4. e[i] = first + (i * BITS)
    BY <1>3, <2>1
  <2>5. x % BITS = 0
    BY <2>1, <2>2, WholeIs
  <2>6. q[i] = GetBlock(d, a, BITS)
    BY DEF Begin
  <2>7. a \in Nat /\ a % BITS = 0
    <3>1. x \in Whole
      BY <2>2, <2>5 DEF Whole
    <3> HIDE DEF x
    <3> QED
      BY <3>1, WholePlace
  <2> HIDE DEF x, a
  <2>8. e[i] = a + BITS
    BY <1>1, <2>2, <2>4 DEF a
  <2>9. a + BITS <= Len(d)
    BY <1>4, <2>1, <2>8
  <2>10. (a % BITS) + BITS <= BITS
    BY <1>1, <2>7
  <2>11. IsPart(GetBlock(d, a, BITS), d, a, a + BITS)
    BY <1>1, <2>7, <2>9, <2>10, BlockIsPart
  <2> QED
    BY <1>1, <2>3, <2>6, <2>7, <2>8, <2>11
<1>7. q \in Seq(Seq(Bin)) /\ Len(q) = k
  <2> DEFINE T == Seq(Bin)
  <2>1. \A i \in 1..k : q[i] \in T
    BY <1>6 DEF IsPart
  <2>2. q \in [1..k -> T]
    <3>1. q = [i \in 1..k |-> q[i]]
      OBVIOUS
    <3> HIDE DEF T
    <3> QED
      BY <2>1, <3>1
  <2> HIDE DEF T
  <2>3. q \in Seq(T) /\ Len(q) = k
    BY <2>2, FunIsSeq
  <2> QED
    BY <2>3 DEF T
<1>8. IsReading(q, d, e)
  BY <1>4, <1>5, <1>6, <1>7 DEF IsReading
<1>9. FlattenSeq(q) = Part(d, e[0], e[Len(q)])
  BY <1>8, ReadingFacts
<1>10. e[k] = first + k * BITS
  BY <1>3
<1> QED
  BY <1>5, <1>7, <1>9, <1>10

\* append() of all bits of a value
LEMMA AppendedAll ==
  ASSUME NEW d, NEW p, Good(d, p), NEW v \in Seq(Bin), NEW n \in Nat, n = Len(v), n # 0
  PROVE  IsLonger(Appended(d, p, v, n), d, p, v)
<1> DEFINE l == S!Low(v, n)
<1>1. n \in 1..Len(v) /\ \A i \in 1..(Len(v) - n) : v[i] = 0
  OBVIOUS
<1>2. l = S!Low(v, n)
  OBVIOUS
<1> HIDE DEF l
<1>3. l \in Seq(Bin) /\ Len(l) = n /\ IsLonger(Appended(d, p, v, n), d, p, l)
  BY <1>1, <1>2, AppendedIs
<1>4. l = v
  <2>1. \A i \in 1..n : l[i] = v[(Len(v) - n) + i]
    BY <1>1, <1>2, LowFacts
  <2>2. \A i \in 1..Len(l) : l[i] = v[i]
    BY <1>3, <2>1
  <2> QED
    BY <1>3, <2>2, SameString
<1> QED
  BY <1>3, <1>4

\* The rest of the range is appended.
LEMMA RangeRest ==
  ASSUME NEW d \in Seq(Bin), NEW first \in Whole, NEW m \in Whole, NEW rest \in 1..(BITS - 1),
         (first + m) + rest <= Len(d),
         NEW w, Good(w, m), w = Part(d, first, first + m),
         NEW v, v = GetBlock(d, first + m, rest)
  PROVE  /\ Good(Appended(w, m, v, rest), m + rest)
         /\ Matches(Appended(w, m, v, rest), m + rest, Part(d, first, (first + m) + rest))
<1> DEFINE a == first + m
           r == Appended(w, m, v, rest)
<1>1. /\ BITS \in Nat \ {0} /\ first \in Nat /\ m \in Nat /\ Len(d) \in Nat /\ rest \in Nat
      /\ rest # 0
  BY BitsAssumption, BinFun DEF Whole
<1>2. a \in Nat /\ a % BITS = 0 /\ first <= a
  BY <1>1, WholePlace
<1>3. w = Part(d, first, a) /\ v = GetBlock(d, a, rest) /\ a + rest <= Len(d) /\ a - first = m
  BY <1>1
<1> HIDE DEF a
<1>4. IsPart(v, d, a, a + rest)
  <2>1. (a % BITS) + rest <= BITS
    BY <1>1, <1>2
  <2> QED
    BY <1>1, <1>2, <1>3, <2>1, BlockIsPart
<1>5. v \in Seq(Bin) /\ Len(v) = rest
  <2>1. (a + rest) - a = rest
    BY <1>1, <1>2
  <2> QED
    BY <1>4, <2>1 DEF IsPart
<1>6. w \in Seq(Bin) /\ Len(w) = m
  <2>1. IsPart(w, d, first, a)
    BY <1>1, <1>2, <1>3, PartIs
  <2> QED
    BY <1>3, <2>1 DEF IsPart
<1>7. IsLonger(r, w, m, v)
  BY <1>1, <1>5, AppendedAll
<1> HIDE DEF r
<1>8. Matches(r, m + rest, SubSeq(w, 1, m) \o v)
  <2>1. m \in 0..Len(w)
    BY <1>1, <1>6
  <2> QED
    BY <1>5, <1>6, <1>7, <2>1, LongerMatches
<1>9. SubSeq(w, 1, m) = w
  <2>1. m \in 0..Len(w) /\ \A i \in 1..m : w[i] = w[i]
    BY <1>1, <1>6
  <2> QED
    BY <1>6, <2>1, PrefixIs
<1>10. Part(d, first, a + rest) = w \o v
  <2> DEFINE b == a + rest
  <2>1. b \in Nat /\ a <= b /\ b <= Len(d)
    BY <1>1, <1>2, <1>3
  <2>2. IsPart(v, d, a, b)
    BY <1>4
  <2> HIDE DEF b
  <2>3. \A x : IsPart(x, d, a, b) => Part(d, first, b) = Part(d, first, a) \o x
    BY <1>1, <1>2, <2>1, NextPart, SMTT(60)
  <2>4. Part(d, first, b) = Part(d, first, a) \o v
    BY <2>2, <2>3
  <2> QED
    BY <1>3, <2>4 DEF b
<1>11. Good(r, m + rest)
  BY <1>5, <1>7 DEF IsLonger
<1> QED
  BY <1>8, <1>9, <1>10, <1>11 DEF a, r

\* Whole blocks and what is left of a number.
LEMMA Divided ==
  ASSUME NEW n \in Nat, NEW k, k = n \div BITS, NEW rest, rest = n % BITS
  PROVE  /\ k \in Nat /\ rest \in 0..(BITS - 1) /\ rest \in Nat /\ k * BITS \in Whole
         /\ n = k * BITS + rest /\ n - rest = k * BITS
<1>1. BITS \in Nat \ {0}
  BY BitsAssumption
<1>2. k \in Nat /\ rest \in 0..(BITS - 1) /\ n = (k * BITS) + rest
  BY <1>1
<1> DEFINE z == k * BITS
<1>3. z \in Nat
  BY <1>1, <1>2
<1>4. z % BITS = 0
  BY <1>2, <1>3, WholeIs
<1>5. rest \in Nat /\ n = z + rest
  BY <1>1, <1>2
<1> HIDE DEF z
<1>6. n - rest = z
  BY <1>3, <1>5
<1> QED
  BY <1>2, <1>3, <1>4, <1>5, <1>6 DEF z, Whole

\* All of it.
LEMMA RangeIs ==
  ASSUME NEW d \in Seq(Bin), NEW first \in Whole, NEW n \in Nat, first + n <= Len(d),
         NEW rest, rest = Rest(n), NEW k, k = Blocks(n),
         NEW w, w = FlattenSeq([i \in 1..k |-> GetBlock(d, first + Begin(i), BITS)]),
         NEW v, v = GetBlock(d, first + n - rest, rest),
         NEW r, r = IF rest = 0 THEN w ELSE Appended(w, n - rest, v, rest)
  PROVE  Good(r, n) /\ Matches(r, n, Part(d, first, first + n))
<1> DEFINE m == k * BITS
           q == [i \in 1..k |-> GetBlock(d, first + Begin(i), BITS)]
<1>1. first \in Nat /\ Len(d) \in Nat /\ BITS \in Nat \ {0}
  BY BinFun, BitsAssumption DEF Whole
<1>2. k \in Nat /\ rest \in 0..(BITS - 1) /\ rest \in Nat /\ m \in Whole /\ n = m + rest /\ n - rest = m
  BY Divided DEF Rest, Blocks
<1>3. Good(w, m)
  <2>1. w = FlattenSeq([i \in 1..Blocks(n) |-> GetBlock(d, first + Begin(i), BITS)])
    OBVIOUS
  <2>2. m = n - Rest(n)
    BY <1>2
  <2> HIDE DEF m
  <2> QED
    BY <1>1, <2>1, <2>2, RangeFacts DEF Rest, Blocks
<1>4. m \in Nat /\ first + m <= Len(d)
  <2> HIDE DEF m
  <2>1. m \in Nat
    BY <1>2 DEF Whole
  <2> QED
    BY <1>1, <1>2, <2>1, SMTT(60)
<1>5. w = Part(d, first, first + m)
  <2>1. first + k * BITS <= Len(d) /\ q = [i \in 1..k |-> GetBlock(d, first + Begin(i), BITS)]
    BY <1>4
  <2>2. w = FlattenSeq(q)
    OBVIOUS
  <2> HIDE DEF q
  <2>3. FlattenSeq(q) = Part(d, first, first + k * BITS)
    BY <1>2, <2>1, RangeBlocks
  <2> QED
    BY <2>2, <2>3
<1> HIDE DEF m, q
<1>6. CASE rest = 0
  <2>1. r = w /\ m = n
    BY <1>2, <1>4, <1>6
  <2>2. IsPart(w, d, first, first + m) /\ (first + m) - first = m
    BY <1>1, <1>4, <1>5, PartIs
  <2>3. w \in Seq(Bin) /\ Len(w) = m
    BY <2>2 DEF IsPart
  <2> QED
    BY <1>3, <1>5, <2>1, <2>3 DEF Matches
<1>7. CASE rest # 0
  <2>1. rest \in 1..(BITS - 1) /\ r = Appended(w, m, v, rest)
    BY <1>1, <1>2, <1>7
  <2>2. (first + m) + rest = first + n
    BY <1>1, <1>2, <1>4, Sums
  <2>3. v = GetBlock(d, first + m, rest)
    BY <1>2
  <2>4. (first + m) + rest <= Len(d)
    BY <2>2
  <2>5. Good(r, m + rest) /\ Matches(r, m + rest, Part(d, first, (first + m) + rest))
    BY <1>2, <1>3, <1>5, <2>1, <2>3, <2>4, RangeRest
  <2> QED
    BY <1>2, <2>2, <2>5
<1> QED
  BY <1>6, <1>7

\* The constructor from a range that begins with a block, or behind the set
LEMMA RangeDocumented ==
  ASSUME IInv, NEW c \in Calls, FromRange(c), c.first % BITS = 0
  PROVE  Documented(c)
<1> DEFINE s == SubSeq(data, 1, pos)
           first == Smaller(c.first, pos)
           last == Smaller(c.last, pos)
           n == Larger(last - first, 0)
           rest == n % BITS
           w == FlattenSeq([i \in 1..(n \div BITS) |-> GetBlock(data, first + Begin(i), BITS)])
           v == GetBlock(data, first + n - rest, rest)
           r == IF rest = 0 THEN w ELSE Appended(w, n - rest, v, rest)
<1>1. c.op = "range" /\ c.first \in Nat /\ c.last \in Nat /\ Becomes(c, r, n)
  BY CallFacts DEF FromRange
<1>2. /\ data \in Seq(Bin) /\ pos \in 0..Len(data) /\ pos \in Nat /\ Len(s) = pos
      /\ Len(data) \in Nat /\ pos <= Len(data)
  BY StringFacts, BinFun
<1>3. S!Effect(s, c) = SubSeq(s, c.first + 1, last)
  <2>1. S!Effect(s, c) = S!Slice(s, c.first, c.last)
    BY <1>1, EffectFacts
  <2> QED
    BY <1>2, <2>1 DEF S!Slice, Smaller
<1>4. /\ first \in Nat /\ first <= pos /\ first <= c.first /\ last \in Nat /\ last <= pos /\ n \in Nat
      /\ n # 0 => first = c.first /\ last = first + n
      /\ n = 0 => last <= c.first
      /\ first + n <= Len(data)
  BY <1>1, <1>2 DEF Smaller, Larger
<1>5. CASE n = 0
  <2>1. SubSeq(s, c.first + 1, last) = <<>>
    <3>1. c.first + 1 \in Int /\ last \in Int /\ last < c.first + 1
      BY <1>1, <1>4, <1>5
    <3> HIDE DEF s, last
    <3>2. 1..((1 + last) - (c.first + 1)) = {}
      BY <1>1, <1>4, <3>1
    <3> QED
      BY <1>1, <1>4, <3>1, <3>2
  <2>2. Good(r, n)
    <3> HIDE DEF first, n
    <3> QED
      BY <1>2, <1>4, RangeGood DEF Rest, Blocks
  <2>3. Matches(r, 0, <<>>)
    BY DEF Matches
  <2> QED
    BY <1>1, <1>3, <1>5, <2>1, <2>2, <2>3, MatchDocumented
<1>6. CASE n # 0
  <2>1. first \in Whole
    BY <1>1, <1>4, <1>6 DEF Whole
  <2>2. /\ rest = Rest(n)
        /\ w = FlattenSeq([i \in 1..Blocks(n) |-> GetBlock(data, first + Begin(i), BITS)])
        /\ v = GetBlock(data, first + n - rest, rest)
        /\ r = IF rest = 0 THEN w ELSE Appended(w, n - rest, v, rest)
    BY DEF Rest, Blocks
  <2> HIDE DEF rest, w, v, r
  <2>3. Good(r, n) /\ Matches(r, n, Part(data, first, first + n))
    <3> HIDE DEF first, n
    <3> QED
      BY <1>2, <1>4, <2>1, <2>2, RangeIs
  <2>4. SubSeq(s, c.first + 1, last) = Part(data, first, first + n)
    <3>1. first = c.first /\ last = first + n /\ first <= last
      BY <1>4, <1>6
    <3> HIDE DEF first, n, last
    <3>2. SubSeq(SubSeq(data, 1, pos), first + 1, last) = Part(data, first, last)
      BY <1>2, <1>4, <3>1, PartOfPrefix, ZenonT(60)
    <3> QED
      BY <3>1, <3>2
  <2> HIDE DEF s, n
  <2> QED
    BY <1>1, <1>3, <2>3, <2>4, MatchDocumented DEF s
<1> QED
  BY <1>5, <1>6

\* How many ones a string has.
LEMMA OnesAre ==
  ASSUME NEW s
  PROVE  S!Ones(s) = Cardinality({i \in DOMAIN s : s[i] = 1})
<1>1. \A X : S!Cardinality(X) = Cardinality(X)
  BY DEF S!Cardinality, Cardinality
<1>2. S!Ones(s) = S!Cardinality({i \in DOMAIN s : s[i] = 1})
  BY Zenon DEF S!Ones
<1> QED
  BY <1>1, <1>2

\* The ones of a part are those of the vector that lie in it.
LEMMA OnesOfPart ==
  ASSUME NEW d \in Seq(Bin), NEW a \in Nat, NEW b \in Nat, a <= b, b <= Len(d)
  PROVE  S!Ones(Part(d, a, b)) = Cardinality({i \in (a + 1)..b : d[i] = 1})
<1> DEFINE s == Part(d, a, b)
           X == {i \in DOMAIN s : s[i] = 1}
           Y == {i \in (a + 1)..b : d[i] = 1}
           f == [i \in X |-> a + i]
<1>1. s \in Seq(Bin) /\ Len(s) = b - a /\ \A i \in 1..(b - a) : s[i] = d[a + i]
  BY PartIs DEF IsPart
<1>2. DOMAIN s = 1..(b - a)
  BY <1>1, BinFun
<1> HIDE DEF s
<1>3. \A i \in X : i \in 1..(b - a) /\ d[a + i] = 1
  BY <1>1, <1>2
<1>4. f \in [X -> Y]
  <2>1. \A i \in X : a + i \in Y
    BY <1>3
  <2> HIDE DEF X, Y
  <2> QED
    BY <2>1
<1>5. \A i \in X : \A j \in X : f[i] = f[j] => i = j
  <2>1. \A i \in X : i \in Nat
    BY <1>3
  <2> HIDE DEF X
  <2> QED
    BY <2>1
<1>6. \A y \in Y : \E i \in X : f[i] = y
  <2> SUFFICES ASSUME NEW y \in Y PROVE \E i \in X : f[i] = y
    OBVIOUS
  <2> DEFINE i == y - a
  <2>1. i \in 1..(b - a) /\ a + i = y /\ d[y] = 1
    OBVIOUS
  <2>2. i \in X
    BY <1>1, <1>2, <2>1
  <2> HIDE DEF X, i
  <2> QED
    BY <2>1, <2>2
<1>7. IsFiniteSet(X)
  <2>1. IsFiniteSet(1..(b - a)) /\ X \in SUBSET (1..(b - a))
    BY <1>2, FS_Interval
  <2> HIDE DEF X
  <2> QED
    BY <2>1, FS_Subset
<1>8. ExistsBijection(X, Y)
  <2> HIDE DEF X, Y, f
  <2>1. f \in Bijection(X, Y)
    BY <1>4, <1>5, <1>6, Fun_IsBij
  <2> QED
    BY <2>1, Fun_ExistsBij
<1>9. Cardinality(X) = Cardinality(Y)
  <2> HIDE DEF X, Y, f
  <2> QED
    BY <1>7, <1>8, FS_Bijection
<1>10. S!Ones(s) = Cardinality(X)
  BY OnesAre, Zenon
<1> HIDE DEF X
<1> QED
  BY <1>9, <1>10 DEF s

\* count(first, last)
LEMMA CountDocumented ==
  ASSUME IInv, NEW c \in Calls, Count(c)
  PROVE  Documented(c)
<1> DEFINE s == SubSeq(data, 1, pos)
           last == Smaller(c.last, pos)
           n == Cardinality({i \in (c.first + 1)..last : data[i] = 1})
           t == SubSeq(s, c.first + 1, last)
<1>1. c.op = "count" /\ c.first \in Nat /\ c.last \in Nat /\ Returns(c, <<n>>)
  BY CallFacts DEF Count
<1>2. /\ data \in Seq(Bin) /\ pos \in 0..Len(data) /\ pos \in Nat /\ Len(s) = pos
      /\ Len(data) \in Nat /\ pos <= Len(data)
  BY StringFacts, BinFun
<1>3. last \in Nat /\ last <= pos /\ last <= Len(data)
  BY <1>1, <1>2 DEF Smaller
<1>4. S!Result(s, c) = <<S!Ones(t)>>
  <2>1. S!Slice(s, c.first, c.last) = t
    BY <1>2 DEF S!Slice, Smaller
  <2> QED
    BY <1>1, <2>1, ResultFacts
<1>5. S!Effect(s, c) = s /\ UNCHANGED <<pos, data>> /\ call' = c /\ read' = <<n>>
  BY <1>1, EffectFacts DEF Returns
<1>6. S!Ones(t) = n
  <2>1. CASE c.first <= last
    <3> DEFINE a == c.first
    <3>1. a \in Nat /\ a <= last
      BY <1>1, <2>1
    <3> HIDE DEF a, last
    <3>2. SubSeq(SubSeq(data, 1, pos), a + 1, last) = Part(data, a, last)
      BY <1>2, <1>3, <3>1, PartOfPrefix
    <3>3. S!Ones(Part(data, a, last)) = Cardinality({i \in (a + 1)..last : data[i] = 1})
      BY <1>2, <1>3, <3>1, OnesOfPart
    <3> QED
      BY <3>2, <3>3 DEF a
  <2>2. CASE ~(c.first <= last)
    <3>1. {i \in (c.first + 1)..last : data[i] = 1} = {}
      BY <1>1, <1>3, <2>2
    <3>2. {i \in DOMAIN t : t[i] = 1} = {}
      <4>1. 1..((1 + last) - (c.first + 1)) = {}
        BY <1>1, <1>3, <2>2
      <4>2. DOMAIN t = {}
        <5> HIDE DEF s, last
        <5> QED
          BY <1>1, <1>3, <4>1
      <4> HIDE DEF t
      <4> QED
        BY <4>2
    <3> QED
      <4>1. S!Ones(t) = Cardinality({i \in DOMAIN t : t[i] = 1})
        BY OnesAre, Zenon
      <4> HIDE DEF t
      <4> QED
        BY <3>1, <3>2, <4>1
  <2> QED
    BY <2>1, <2>2
<1> QED
  BY <1>4, <1>5, <1>6 DEF Documented

-----------------------------------------------------------------------------
\* Calls for which the class does what its documentation says.  A value has
\* nothing above the bits to append, and fits its first block or ends with a
\* block when it is written; a range begins with a block.  Counting up and down
\* is not among them because its documentation is about numbers, and shifting is
\* not because what crosses into another block is masked wrongly there.
Proper(c) ==
  /\ c.op \notin {"++", "--", "shl", "shr"}
  /\ c.op = "append" => \A i \in 1..(Len(c.v) - c.bits) : c.v[i] = 0
  /\ c.op = "set" => Fitting(c.ofs, c.bits)
  /\ c.op = "range" => c.first % BITS = 0

\* What the calls keep to.
OnlyProper == \A c \in Calls : Proper(c)

\* Every such call is documented, unless it reached outside the vector.
LEMMA CallDocumented ==
  ASSUME IInv, Next, inside', OnlyProper
  PROVE  \E c \in Calls : Documented(c)
<1>1. PICK c \in Calls :
        \/ AppendValue(c) \/ AppendSet(c) \/ SetValue(c) \/ SetSet(c) \/ SetBit(c) \/ Flip(c)
        \/ Reset(c) \/ Clear(c) \/ Reserve(c) \/ FromRange(c) \/ Get(c) \/ Count(c)
        \/ Increment(c) \/ Decrement(c) \/ Shl(c) \/ Shr(c) \/ Or(c) \/ Xor(c) \/ And(c)
  BY DEF Next
<1>2. /\ c.op \notin {"++", "--", "shl", "shr"}
      /\ c.op = "append" => \A i \in 1..(Len(c.v) - c.bits) : c.v[i] = 0
      /\ c.op = "set" => Fitting(c.ofs, c.bits)
      /\ c.op = "range" => c.first % BITS = 0
  BY DEF OnlyProper, Proper
<1>3. ~Increment(c) /\ ~Decrement(c) /\ ~Shl(c) /\ ~Shr(c)
  BY <1>2 DEF Increment, Decrement, Shl, Shr
<1>4. CASE AppendValue(c)
  BY <1>2, <1>4, AppendDocumented DEF AppendValue
<1>5. CASE SetValue(c)
  BY <1>2, <1>5, SetDocumented DEF SetValue
<1>6. CASE FromRange(c)
  BY <1>2, <1>6, RangeDocumented DEF FromRange
<1>7. CASE AppendSet(c) \/ SetSet(c) \/ SetBit(c) \/ Flip(c) \/ Reset(c) \/ Clear(c) \/ Reserve(c)
  BY <1>7, AppendSetDocumented, SetSetDocumented, SetBitDocumented, FlipDocumented, PlainDocumented
<1>8. CASE Get(c) \/ Count(c) \/ Or(c) \/ Xor(c) \/ And(c)
  BY <1>8, GetDocumented, CountDocumented, OrDocumented, XorDocumented, AndDocumented
<1> QED
  BY <1>1, <1>3, <1>4, <1>5, <1>6, <1>7, <1>8

\* A step after which nothing is known changes nothing before.
LEMMA ReachesOutside ==
  ASSUME Next, ~inside'
  PROVE  Outside
<1>1. inside
  BY DEF Next
<1>2. PICK c \in Calls :
        \/ AppendValue(c) \/ AppendSet(c) \/ SetValue(c) \/ SetSet(c) \/ SetBit(c) \/ Flip(c)
        \/ Reset(c) \/ Clear(c) \/ Reserve(c) \/ FromRange(c) \/ Get(c) \/ Count(c)
        \/ Increment(c) \/ Decrement(c) \/ Shl(c) \/ Shr(c) \/ Or(c) \/ Xor(c) \/ And(c)
  BY DEF Next
<1>3. \A d : \A p : ~Becomes(c, d, p)
  BY <1>1 DEF Becomes
<1>4. \A result : ~Returns(c, result)
  BY <1>1 DEF Returns
<1>5. \A x : BecomesIfInside(c, x) => Outside
  BY <1>3 DEF BecomesIfInside
<1>6. /\ ~AppendValue(c) /\ ~AppendSet(c) /\ ~SetBit(c) /\ ~Flip(c) /\ ~Reset(c) /\ ~Clear(c)
      /\ ~Reserve(c) /\ ~Increment(c) /\ ~Decrement(c) /\ ~Shl(c)
  BY <1>3, Zenon DEF AppendValue, AppendSet, SetBit, Flip, Reset, Clear, Reserve, Increment,
                     Decrement, Shl
<1>7. ~FromRange(c) /\ ~Get(c) /\ ~Count(c)
  BY <1>3, <1>4, Zenon DEF FromRange, Get, Count
<1>8. SetValue(c) \/ SetSet(c) => Outside
  BY <1>5, Zenon DEF SetValue, SetSet
<1>9. Shr(c) => Outside
  BY <1>3, Zenon DEF Shr
<1>10. Or(c) \/ Xor(c) \/ And(c) => Outside
  BY <1>3, Zenon DEF Or, Xor, And, Grow
<1> QED
  BY <1>2, <1>6, <1>7, <1>8, <1>9, <1>10

\* A step of the class is a step of the documentation, or none at all.
LEMMA StepImplements ==
  ASSUME IInv, [Next]_vars, OnlyProper
  PROVE  [S!Next]_<<SubSeq(data, 1, pos), call, read>>
<1>1. CASE UNCHANGED vars
  BY <1>1 DEF vars
<1>2. CASE Next /\ inside'
  BY <1>2, CallDocumented, DocumentedStep
<1>3. CASE Next /\ ~inside'
  <2>1. Outside
    BY <1>3, ReachesOutside
  <2>2. UNCHANGED <<SubSeq(data, 1, pos), call, read>>
    BY <2>1 DEF Outside
  <2> QED
    BY <2>2
<1> QED
  BY <1>1, <1>2, <1>3

\* The class refines its documentation, whatever the size of the blocks: as long as
\* the calls are those above and none has reached outside the vector, every one
\* does to the bits what is documented, returns what is documented, and touches no
\* other bit.
THEOREM BitsetImplementsString ==
  ASSUME OnlyProper
  PROVE  Spec => ImplementsString
<1>1. Init => S!Init
  <2>1. SubSeq(<<>>, 1, 0) = <<>>
    OBVIOUS
  <2> QED
    BY <2>1 DEF Init, S!Init
<1>2. IInv /\ [Next]_vars => [S!Next]_<<SubSeq(data, 1, pos), call, read>>
  BY StepImplements
<1> QED
  BY <1>1, <1>2, BitsetIInv, PTL DEF Spec, ImplementsString, S!Spec
=============================================================================
