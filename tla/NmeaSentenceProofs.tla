------------------------- MODULE NmeaSentenceProofs -------------------------
(***************************************************************************)
(* Proofs about writing and reading NMEA sentences, for every alphabet,    *)
(* every number of talkers and tags, every payload: what is written by     *)
(* to_string, or by a program that puts the checksum where make_sentence   *)
(* looks for it, and not damaged, is read as it was; with one character    *)
(* lost, added or replaced it is refused or read as it was; and            *)
(* make_sentence and extract_id agree on every line.                       *)
(*                                                                         *)
(* The inductive invariant says that the line is what the object is        *)
(* written as, or that with one character lost, added or replaced, and     *)
(* that what was read is what make_sentence makes of the line. All else    *)
(* are lemmas on the operators: the checksum and its digits, the fields    *)
(* of a text, where the checksum is looked for, what an accepted line is,  *)
(* and for each part of a line (tag block, its tokens, start token, body,  *)
(* checksum) what is left of it when it is damaged.                        *)
(***************************************************************************)
EXTENDS NmeaSentence, RecursionFacts, FiniteSetTheorems, FunctionTheorems

-----------------------------------------------------------------------------
\* The numbers the bits of a sequence make one after the other.
IsCounted(g, bits, n) ==
  /\ g \in [0..n -> Nat] /\ g[0] = 0
  /\ \A i \in 1..n : g[i] = 2 * g[i - 1] + bits[i]

\* Number goes through them.
LEMMA NumberSteps ==
  ASSUME NEW n \in Nat, NEW bits \in [1..n -> {0, 1}]
  PROVE  \E g : IsCounted(g, bits, n) /\ Number(bits) = g[n]
<1> DEFINE h == [x \in Nat \X (1..n) |-> 2 * x[1] + bits[x[2]]]
           f == CHOOSE k : k = [s \in SUBSET (1..n) |->
                                  IF s = {} THEN 0 ELSE 2 * k[s \ {Max(s)}] + bits[Max(s)]]
           g == [i \in 0..n |-> f[1..i]]
<1> HIDE DEF h
<1>1. DOMAIN bits = 1..n /\ \A i \in 1..n : bits[i] \in {0, 1}
  OBVIOUS
<1>2. Number(bits) = f[1..n]
  BY <1>1 DEF Number, FoldLeft, MapThenFoldSet
<1>3. h \in [Nat \X (1..n) -> Nat]
  <2>1. \A x \in Nat \X (1..n) : 2 * x[1] + bits[x[2]] \in Nat
    <3> SUFFICES ASSUME NEW a \in Nat, NEW b \in 1..n PROVE 2 * a + bits[b] \in Nat
      OBVIOUS
    <3> QED
      BY <1>1
  <2> QED
    BY <2>1 DEF h
<1>4. \E k : IsFold(k, n, Nat, 0, h)
  BY <1>3, FoldExists
<1>5. PICK k \in [SUBSET (1..n) -> Nat] : \A s \in SUBSET (1..n) :
        k[s] = IF s = {} THEN 0 ELSE h[<<k[s \ {Max(s)}], Max(s)>>]
  BY <1>4 DEF IsFold
<1>6. ASSUME NEW s \in SUBSET (1..n)
      PROVE  k[s] = IF s = {} THEN 0 ELSE 2 * k[s \ {Max(s)}] + bits[Max(s)]
  <2> HIDE DEF f
  <2>1. s # {} => Max(s) \in 1..n /\ k[s \ {Max(s)}] \in Nat
    BY MaxOfSome
  <2> QED
    BY <1>5, <2>1 DEF h
<1>7. k = [s \in SUBSET (1..n) |-> IF s = {} THEN 0 ELSE 2 * k[s \ {Max(s)}] + bits[Max(s)]]
  <2> HIDE DEF f
  <2>1. k = [s \in SUBSET (1..n) |-> k[s]]
    OBVIOUS
  <2> QED
    BY <1>6, <2>1
<1>8. f = [s \in SUBSET (1..n) |-> IF s = {} THEN 0 ELSE 2 * f[s \ {Max(s)}] + bits[Max(s)]]
  BY <1>7
<1>9. f \in [SUBSET (1..n) -> Nat]
  <2> DEFINE K == {m \in Nat : m <= n => \A s \in SUBSET (1..m) : f[s] \in Nat}
  <2> HIDE DEF f
  <2>1. 0 \in K
    <3>1. \A s \in SUBSET (1..0) : s = {} /\ s \in SUBSET (1..n)
      OBVIOUS
    <3> QED
      BY <1>8, <3>1
  <2>2. ASSUME NEW m \in Nat, m \in K PROVE m + 1 \in K
    <3> SUFFICES ASSUME m + 1 <= n, NEW s \in SUBSET (1..(m + 1)) PROVE f[s] \in Nat
      <4>1. m + 1 \in Nat
        OBVIOUS
      <4> QED
        BY <4>1, Zenon
    <3>1. s \in SUBSET (1..n)
      OBVIOUS
    <3>2. CASE s = {}
      BY <1>8, <3>1, <3>2
    <3>3. CASE s # {}
      <4>1. Max(s) \in 1..(m + 1) /\ \A x \in s : x <= Max(s)
        BY <3>3, MaxOfSome
      <4>2. s \ {Max(s)} \in SUBSET (1..m)
        <5>1. ASSUME NEW x \in s \ {Max(s)} PROVE x \in 1..m
          <6>1. x \in 1..(m + 1) /\ x # Max(s) /\ x <= Max(s)
            BY <4>1
          <6> QED
            BY <4>1, <6>1
        <5> QED
          BY <5>1
      <4>3. f[s \ {Max(s)}] \in Nat
        BY <2>2, <4>2
      <4>4. f[s] = 2 * f[s \ {Max(s)}] + bits[Max(s)]
        BY <1>8, <3>1, <3>3
      <4>5. Max(s) \in 1..n
        BY <4>1
      <4> QED
        BY <1>1, <4>3, <4>4, <4>5
    <3> QED
      BY <3>2, <3>3
  <2> HIDE DEF K
  <2>3. n \in K
    BY <2>1, <2>2, Induction
  <2>4. \A s \in SUBSET (1..n) : f[s] \in Nat
    BY <2>3 DEF K
  <2> QED
    BY <1>8, <2>4
<1> HIDE DEF f
<1>10. ASSUME NEW i \in 1..n PROVE g[i] = 2 * g[i - 1] + bits[i]
  <2>1. (1..i) \in SUBSET (1..n) /\ i \in Nat /\ i > 0 /\ i - 1 \in 0..n /\ i \in 0..n
    OBVIOUS
  <2>2. Max(1..i) = i /\ (1..i) \ {i} = 1..(i - 1) /\ 1..i # {}
    BY <2>1, MaxOfFirst
  <2> QED
    BY <1>8, <2>1, <2>2
<1>11. g[0] = 0
  <2>1. 1..0 = {}
    OBVIOUS
  <2> QED
    BY <1>8, <2>1
<1>12. g \in [0..n -> Nat]
  <2>1. \A i \in 0..n : (1..i) \in SUBSET (1..n)
    OBVIOUS
  <2> QED
    BY <1>9, <2>1
<1>13. n \in 0..n /\ g[n] = f[1..n]
  OBVIOUS
<1> HIDE DEF g
<1> QED
  BY <1>2, <1>10, <1>11, <1>12, <1>13 DEF IsCounted

\* Different bits make different numbers.
LEMMA NumberDiffers ==
  ASSUME NEW n \in Nat, NEW s \in [1..n -> {0, 1}], NEW t \in [1..n -> {0, 1}],
         Number(s) = Number(t)
  PROVE  s = t
<1>1. PICK f : IsCounted(f, s, n) /\ Number(s) = f[n]
  BY NumberSteps
<1>2. PICK g : IsCounted(g, t, n) /\ Number(t) = g[n]
  BY NumberSteps
<1> DEFINE Odd(a, x, b, y) == 2 * a + x = 2 * b + y => a = b /\ x = y
<1>0. \A a, b \in Nat : \A x, y \in {0, 1} : Odd(a, x, b, y)
  OBVIOUS
<1> HIDE DEF Odd
<1>3. ASSUME NEW i \in 1..n, f[i] = g[i] PROVE s[i] = t[i] /\ f[i - 1] = g[i - 1]
  <2>1. /\ f[i] = 2 * f[i - 1] + s[i] /\ g[i] = 2 * g[i - 1] + t[i]
        /\ f[i - 1] \in Nat /\ g[i - 1] \in Nat
    BY <1>1, <1>2 DEF IsCounted
  <2>2. s[i] \in {0, 1} /\ t[i] \in {0, 1}
    OBVIOUS
  <2>3. Odd(f[i - 1], s[i], g[i - 1], t[i])
    BY <1>0, <2>1, <2>2
  <2> QED
    BY <1>3, <2>1, <2>3 DEF Odd
<1>9. f[n] = g[n]
  BY <1>1, <1>2
<1> DEFINE K == {m \in Nat : m <= n => f[n - m] = g[n - m]}
<1>4. 0 \in K
  <2>1. n - 0 = n
    OBVIOUS
  <2> QED
    BY <1>9, <2>1
<1>5. ASSUME NEW m \in Nat, m \in K PROVE m + 1 \in K
  <2> SUFFICES ASSUME m + 1 <= n PROVE f[n - (m + 1)] = g[n - (m + 1)]
    OBVIOUS
  <2>1. n - m \in 1..n /\ (n - m) - 1 = n - (m + 1) /\ f[n - m] = g[n - m]
    BY <1>5
  <2> QED
    BY <1>3, <2>1
<1> HIDE DEF K
<1>6. Nat \subseteq K
  BY <1>4, <1>5, Induction
<1>7. ASSUME NEW i \in 1..n PROVE s[i] = t[i]
  <2>1. n - i \in Nat /\ n - i <= n /\ n - (n - i) = i
    OBVIOUS
  <2>2. f[i] = g[i]
    BY <1>6, <2>1 DEF K
  <2> QED
    BY <1>3, <2>2
<1> QED
  BY <1>7

\* No number is greater than the one whose bits are all one.
LEMMA NumberBound ==
  ASSUME NEW n \in Nat, NEW s \in [1..n -> {0, 1}]
  PROVE  Number(s) \in Nat /\ Number(s) <= Number([i \in 1..n |-> 1])
<1> DEFINE t == [i \in 1..n |-> 1]
<1>1. t \in [1..n -> {0, 1}] /\ \A i \in 1..n : t[i] = 1
  OBVIOUS
<1> HIDE DEF t
<1>2. PICK f : IsCounted(f, s, n) /\ Number(s) = f[n]
  BY NumberSteps
<1>3. PICK g : IsCounted(g, t, n) /\ Number(t) = g[n]
  BY <1>1, NumberSteps
<1> DEFINE K == {m \in Nat : m <= n => f[m] <= g[m]}
<1>4. 0 \in K
  BY <1>2, <1>3 DEF IsCounted
<1>5. ASSUME NEW m \in Nat, m \in K PROVE m + 1 \in K
  <2> SUFFICES ASSUME m + 1 <= n PROVE f[m + 1] <= g[m + 1]
    OBVIOUS
  <2>1. m + 1 \in 1..n /\ (m + 1) - 1 = m /\ m \in 0..n /\ f[m] <= g[m]
    BY <1>5
  <2>2. f[m + 1] = 2 * f[m] + s[m + 1] /\ g[m + 1] = 2 * g[m] + t[m + 1]
    BY <1>2, <1>3, <2>1 DEF IsCounted
  <2>3. f[m] \in Nat /\ g[m] \in Nat /\ s[m + 1] \in {0, 1} /\ t[m + 1] = 1
    BY <1>1, <1>2, <1>3, <2>1 DEF IsCounted
  <2> QED
    BY <2>1, <2>2, <2>3
<1> HIDE DEF K
<1>6. n \in K
  BY <1>4, <1>5, Induction
<1>7. f[n] \in Nat
  BY <1>2 DEF IsCounted
<1> QED
  BY <1>2, <1>3, <1>6, <1>7 DEF K, t

-----------------------------------------------------------------------------
\* The indices of the characters with bit i.
With(s, i) == {j \in DOMAIN s : Code[s[j]][i] = 1}

\* They can be counted.
LEMMA HavingIs ==
  ASSUME NEW s \in Seq(Character), NEW i
  PROVE  /\ With(s, i) \in SUBSET (1..Len(s)) /\ IsFiniteSet(With(s, i))
         /\ Having(s, i) = Cardinality(With(s, i)) /\ Having(s, i) \in Nat
<1>1. DOMAIN s = 1..Len(s) /\ Len(s) \in Nat
  BY LenProperties
<1>2. IsFiniteSet(1..Len(s))
  BY <1>1, FS_Interval
<1>3. With(s, i) \in SUBSET (1..Len(s))
  BY <1>1 DEF With
<1>4. IsFiniteSet(With(s, i))
  BY <1>2, <1>3, FS_Subset
<1> QED
  BY <1>3, <1>4, FS_CardinalityType DEF With, Having

\* Of two texts one after the other all are counted.
LEMMA HavingJoined ==
  ASSUME NEW s \in Seq(Character), NEW t \in Seq(Character), NEW i
  PROVE  Having(s \o t, i) = Having(s, i) + Having(t, i)
<1> DEFINE A == With(s, i)
           B == With(t, i)
           C == {Len(s) + j : j \in B}
           f == [j \in B |-> Len(s) + j]
<1>1. /\ s \o t \in Seq(Character) /\ Len(s \o t) = Len(s) + Len(t)
      /\ Len(s) \in Nat /\ Len(t) \in Nat
      /\ \A j \in 1..(Len(s) + Len(t)) : (s \o t)[j] = IF j <= Len(s) THEN s[j] ELSE t[j - Len(s)]
      /\ DOMAIN s = 1..Len(s) /\ DOMAIN t = 1..Len(t) /\ DOMAIN (s \o t) = 1..(Len(s) + Len(t))
  BY ConcatProperties, LenProperties
<1>2. /\ A \in SUBSET (1..Len(s)) /\ B \in SUBSET (1..Len(t))
      /\ IsFiniteSet(A) /\ IsFiniteSet(B)
      /\ Having(s, i) = Cardinality(A) /\ Having(t, i) = Cardinality(B)
      /\ Having(s, i) \in Nat /\ Having(t, i) \in Nat
      /\ Having(s \o t, i) = Cardinality(With(s \o t, i))
  BY <1>1, HavingIs
<1>3. With(s \o t, i) = A \cup C
  <2>1. ASSUME NEW j \in 1..(Len(s) + Len(t)), Code[(s \o t)[j]][i] = 1 PROVE j \in A \cup C
    <3>1. CASE j <= Len(s)
      BY <1>1, <2>1, <3>1 DEF With
    <3>2. CASE ~(j <= Len(s))
      <4>1. j - Len(s) \in 1..Len(t) /\ j = Len(s) + (j - Len(s))
        BY <1>1, <3>2
      <4>2. j - Len(s) \in B
        BY <1>1, <2>1, <3>2, <4>1 DEF With
      <4> QED
        BY <4>1, <4>2
    <3> QED
      BY <3>1, <3>2
  <2>2. ASSUME NEW j \in A PROVE j \in 1..(Len(s) + Len(t)) /\ Code[(s \o t)[j]][i] = 1
    <3>1. j \in 1..Len(s) /\ Code[s[j]][i] = 1
      BY <1>1 DEF With
    <3> QED
      BY <1>1, <3>1
  <2>3. ASSUME NEW j \in B
        PROVE  Len(s) + j \in 1..(Len(s) + Len(t)) /\ Code[(s \o t)[Len(s) + j]][i] = 1
    <3>1. j \in 1..Len(t) /\ Code[t[j]][i] = 1
      BY <1>1 DEF With
    <3>2. Len(s) + j \in 1..(Len(s) + Len(t)) /\ ~(Len(s) + j <= Len(s)) /\ (Len(s) + j) - Len(s) = j
      BY <1>1, <3>1
    <3> QED
      BY <1>1, <3>1, <3>2
  <2>4. \A j : j \in With(s \o t, i) <=> j \in 1..(Len(s) + Len(t)) /\ Code[(s \o t)[j]][i] = 1
    BY <1>1 DEF With
  <2> HIDE DEF A, B
  <2> QED
    BY <2>1, <2>2, <2>3, <2>4
<1>4. IsFiniteSet(C) /\ Cardinality(C) = Cardinality(B)
  <2>1. f \in Bijection(B, C)
    <3>1. \A j \in B : j \in Nat
      BY <1>2
    <3>2. f \in [B -> C] /\ \A x \in C : \E j \in B : f[j] = x
      OBVIOUS
    <3>3. \A x, y \in B : f[x] = f[y] => x = y
      BY <1>1, <3>1
    <3> HIDE DEF f, B, C
    <3> QED
      BY <3>2, <3>3, Fun_IsBij
  <2>2. ExistsBijection(B, C)
    BY <2>1 DEF ExistsBijection
  <2> HIDE DEF f, A, B, C
  <2> QED
    BY <1>2, <2>2, FS_Bijection
<1>5. A \cap C = {}
  <2>1. \A j \in B : j \in Nat /\ j > 0
    BY <1>2
  <2>2. \A x \in C : x > Len(s)
    BY <1>1, <2>1
  <2>3. \A x \in A : x <= Len(s) /\ x \in Nat
    BY <1>2
  <2> HIDE DEF A, C
  <2>4. \A x \in A : ~(x > Len(s))
    BY <1>1, <2>3
  <2> QED
    BY <2>2, <2>4
<1> HIDE DEF A, B, C
<1>6. Cardinality(A \cup C) = Cardinality(A) + Cardinality(C) - Cardinality({})
  BY <1>2, <1>4, <1>5, FS_Union
<1> QED
  BY <1>2, <1>3, <1>4, <1>6, FS_EmptySet

\* One character has its bits once, no character has none.
LEMMA HavingFew ==
  ASSUME NEW i \in 1..WIDTH
  PROVE  /\ Having(<< >>, i) = 0
         /\ \A c \in Character : Having(<<c>>, i) = Code[c][i] /\ Code[c][i] \in {0, 1}
<1>1. With(<< >>, i) = {}
  BY DEF With
<1>2. Having(<< >>, i) = 0
  BY <1>1, FS_EmptySet DEF Having, With
<1>3. ASSUME NEW c \in Character PROVE Having(<<c>>, i) = Code[c][i] /\ Code[c][i] \in {0, 1}
  <2>1. Code[c][i] \in {0, 1}
    BY CodeAssumption
  <2>2. DOMAIN <<c>> = {1} /\ <<c>>[1] = c
    OBVIOUS
  <2>3. Having(<<c>>, i) = Cardinality({j \in {1} : Code[c][i] = 1})
    <3>1. {j \in DOMAIN <<c>> : Code[<<c>>[j]][i] = 1} = {j \in {1} : Code[c][i] = 1}
      BY <2>2
    <3> QED
      BY <3>1 DEF Having
  <2>4. CASE Code[c][i] = 1
    <3>1. {j \in {1} : Code[c][i] = 1} = {1}
      BY <2>4
    <3> QED
      BY <2>1, <2>3, <2>4, <3>1, FS_Singleton
  <2>5. CASE Code[c][i] = 0
    <3>1. {j \in {1} : Code[c][i] = 1} = {}
      BY <2>5
    <3> QED
      BY <2>1, <2>3, <2>5, <3>1, FS_EmptySet
  <2> QED
    BY <2>1, <2>4, <2>5
<1> QED
  BY <1>2, <1>3

-----------------------------------------------------------------------------
\* At most one character.
Few == {<< >>} \cup {<<c>> : c \in Character}

\* The checksum of a text is the number of these bits, and has two digits.
LEMMA ChecksumIs ==
  ASSUME NEW s \in Seq(Character)
  PROVE  /\ [i \in 1..WIDTH |-> Having(s, i) % 2] \in [1..WIDTH -> {0, 1}]
         /\ Checksum(s) \in Nat /\ Checksum(s) < RADIX * RADIX
<1>1. \A i \in 1..WIDTH : Having(s, i) \in Nat
  BY HavingIs
<1>2. \A a \in Nat : a % 2 \in {0, 1}
  OBVIOUS
<1>3. [i \in 1..WIDTH |-> Having(s, i) % 2] \in [1..WIDTH -> {0, 1}]
  BY <1>1, <1>2
<1> DEFINE b == [i \in 1..WIDTH |-> Having(s, i) % 2]
           ones == [i \in 1..WIDTH |-> 1]
<1>4. WIDTH \in Nat /\ RADIX * RADIX = Number(ones) + 1 /\ ones \in [1..WIDTH -> {0, 1}]
  BY WidthAssumption
<1>5. Checksum(s) = Number(b) /\ b \in [1..WIDTH -> {0, 1}]
  BY <1>3 DEF Checksum
<1>6. Number(ones) \in Nat
  <2> HIDE DEF ones
  <2> QED
    BY <1>4, NumberBound
<1>7. Number(b) \in Nat /\ Number(b) <= Number(ones)
  <2> HIDE DEF b
  <2> QED
    BY <1>4, <1>5, NumberBound
<1> HIDE DEF ones, b
<1>8. Checksum(s) \in Nat /\ Checksum(s) < RADIX * RADIX
  BY <1>4, <1>5, <1>6, <1>7
<1> QED
  BY <1>3, <1>8

\* Two texts with the same checksum have every bit the same odd or even times.
LEMMA ChecksumSame ==
  ASSUME NEW s \in Seq(Character), NEW t \in Seq(Character), Checksum(s) = Checksum(t),
         NEW i \in 1..WIDTH
  PROVE  Having(s, i) % 2 = Having(t, i) % 2
<1> DEFINE b == [k \in 1..WIDTH |-> Having(s, k) % 2]
           d == [k \in 1..WIDTH |-> Having(t, k) % 2]
<1>1. /\ b \in [1..WIDTH -> {0, 1}] /\ d \in [1..WIDTH -> {0, 1}]
      /\ Number(b) = Number(d) /\ WIDTH \in Nat
  BY ChecksumIs, WidthAssumption DEF Checksum
<1>2. b[i] = Having(s, i) % 2 /\ d[i] = Having(t, i) % 2
  OBVIOUS
<1> HIDE DEF b, d
<1>3. b = d
  BY <1>1, NumberDiffers
<1> QED
  BY <1>2, <1>3

\* Different characters, or a character and none, differ in a bit.
LEMMA FewDiffer ==
  ASSUME NEW x \in Few, NEW w \in Few, x # w
  PROVE  \E i \in 1..WIDTH : /\ Having(x, i) \in {0, 1} /\ Having(w, i) \in {0, 1}
                             /\ Having(x, i) # Having(w, i)
<1>1. \A i \in 1..WIDTH : Having(<< >>, i) = 0
  BY HavingFew
<1>2. \A i \in 1..WIDTH : \A c \in Character : Having(<<c>>, i) = Code[c][i] /\ Code[c][i] \in {0, 1}
  BY HavingFew
<1>3. \A c \in Character : \E i \in 1..WIDTH : Code[c][i] = 1
  BY CodeAssumption
<1>4. ASSUME NEW c \in Character, NEW d \in Character, c # d
      PROVE  \E i \in 1..WIDTH : Code[c][i] # Code[d][i]
  <2> DEFINE f == Code[c]
             g == Code[d]
  <2>1. f # g /\ f \in [1..WIDTH -> {0, 1}] /\ g \in [1..WIDTH -> {0, 1}]
    BY <1>4, CodeAssumption
  <2> HIDE DEF f, g
  <2>2. f = [i \in 1..WIDTH |-> f[i]] /\ g = [i \in 1..WIDTH |-> g[i]]
    BY <2>1
  <2> QED
    BY <2>1, <2>2 DEF f, g
<1>5. CASE x = << >>
  <2>1. PICK c \in Character : w = <<c>>
    BY <1>5 DEF Few
  <2>2. PICK i \in 1..WIDTH : Code[c][i] = 1
    BY <1>3
  <2>3. Having(x, i) = 0 /\ Having(w, i) = 1
    BY <1>1, <1>2, <1>5, <2>1, <2>2
  <2> QED
    BY <2>3
<1>6. CASE w = << >>
  <2>1. PICK c \in Character : x = <<c>>
    BY <1>6 DEF Few
  <2>2. PICK i \in 1..WIDTH : Code[c][i] = 1
    BY <1>3
  <2>3. Having(w, i) = 0 /\ Having(x, i) = 1
    BY <1>1, <1>2, <1>6, <2>1, <2>2
  <2> QED
    BY <2>3
<1>7. CASE x # << >> /\ w # << >>
  <2>1. PICK c \in Character : x = <<c>>
    BY <1>7 DEF Few
  <2>2. PICK d \in Character : w = <<d>>
    BY <1>7 DEF Few
  <2>3. PICK i \in 1..WIDTH : Code[c][i] # Code[d][i]
    BY <1>4, <2>1, <2>2
  <2>4. /\ Having(x, i) = Code[c][i] /\ Code[c][i] \in {0, 1}
        /\ Having(w, i) = Code[d][i] /\ Code[d][i] \in {0, 1}
    BY <1>2, <2>1, <2>2
  <2> QED
    BY <2>3, <2>4
<1> QED
  BY <1>5, <1>6, <1>7

\* At most one character is a text.
LEMMA FewAre ==
  ASSUME NEW x \in Few
  PROVE  x \in Seq(Character) /\ Len(x) \in {0, 1} /\ (Len(x) = 0 <=> x = << >>)
<1>1. CASE x = << >>
  BY <1>1, EmptySeq
<1>2. CASE x # << >>
  <2>1. PICK c \in Character : x = <<c>>
    BY <1>2 DEF Few
  <2>2. <<c>> \in Seq(Character) /\ Len(<<c>>) = 1
    OBVIOUS
  <2> QED
    BY <1>2, <2>1, <2>2
<1> QED
  BY <1>1, <1>2

\* One character lost, added or replaced changes the checksum.
LEMMA ChecksumDiffers ==
  ASSUME NEW u \in Seq(Character), NEW v \in Seq(Character), NEW x \in Few, NEW w \in Few, x # w
  PROVE  Checksum((u \o x) \o v) # Checksum((u \o w) \o v)
<1> SUFFICES ASSUME Checksum((u \o x) \o v) = Checksum((u \o w) \o v) PROVE FALSE
  OBVIOUS
<1>1. PICK i \in 1..WIDTH : /\ Having(x, i) \in {0, 1} /\ Having(w, i) \in {0, 1}
                            /\ Having(x, i) # Having(w, i)
  BY FewDiffer
<1>2. x \in Seq(Character) /\ w \in Seq(Character)
  BY FewAre
<1>3. u \o x \in Seq(Character) /\ u \o w \in Seq(Character)
  BY <1>2, ConcatProperties
<1>4. (u \o x) \o v \in Seq(Character) /\ (u \o w) \o v \in Seq(Character)
  BY <1>3, ConcatProperties
<1>5. Having((u \o x) \o v, i) = Having(u \o x, i) + Having(v, i)
  BY <1>3, HavingJoined, ZenonT(60)
<1>6. Having((u \o w) \o v, i) = Having(u \o w, i) + Having(v, i)
  BY <1>3, HavingJoined, ZenonT(60)
<1>7. Having(u \o x, i) = Having(u, i) + Having(x, i) /\ Having(u \o w, i) = Having(u, i) + Having(w, i)
  BY <1>2, HavingJoined, ZenonT(60)
<1>8. Having((u \o x) \o v, i) % 2 = Having((u \o w) \o v, i) % 2
  BY <1>4, ChecksumSame
<1>9. Having(u, i) \in Nat /\ Having(v, i) \in Nat
  BY HavingIs
<1>10. \A a, b \in Nat : \A c, d \in {0, 1} : ((a + c) + b) % 2 = ((a + d) + b) % 2 => c = d
  OBVIOUS
<1>11. ((Having(u, i) + Having(x, i)) + Having(v, i)) % 2 = ((Having(u, i) + Having(w, i)) + Having(v, i)) % 2
  BY <1>5, <1>6, <1>7, <1>8
<1> QED
  BY <1>1, <1>9, <1>10, <1>11

\* Characters in front of a text that keep its checksum: not one alone, and two
\* only if they are the same.
LEMMA ChecksumLonger ==
  ASSUME NEW s \in Seq(Character), NEW c \in Character
  PROVE  /\ Checksum(<<c>> \o s) # Checksum(s)
         /\ \A d \in Character : Checksum(<<c, d>> \o s) = Checksum(s) => c = d
<1>1. Checksum(<<c>> \o s) # Checksum(s)
  <2>1. << >> \in Few /\ <<c>> \in Few /\ <<c>> # << >> /\ << >> \in Seq(Character)
        /\ <<c>> \in Seq(Character)
    BY EmptySeq DEF Few
  <2>2. Checksum((<< >> \o <<c>>) \o s) # Checksum((<< >> \o << >>) \o s)
    BY <2>1, ChecksumDiffers
  <2>3. << >> \o <<c>> = <<c>> /\ << >> \o << >> = << >> /\ << >> \o s = s
    BY <2>1, ConcatEmptySeq
  <2> QED
    BY <2>2, <2>3
<1>2. ASSUME NEW d \in Character, Checksum(<<c, d>> \o s) = Checksum(s), c # d PROVE FALSE
  <2>1. /\ <<c>> \in Seq(Character) /\ <<d>> \in Seq(Character) /\ <<c, d>> \in Seq(Character)
        /\ <<c, d>> = <<c>> \o <<d>>
    OBVIOUS
  <2>2. PICK i \in 1..WIDTH : /\ Having(<<c>>, i) \in {0, 1} /\ Having(<<d>>, i) \in {0, 1}
                              /\ Having(<<c>>, i) # Having(<<d>>, i)
    <3>1. <<c>> \in Few /\ <<d>> \in Few /\ <<c>> # <<d>>
      BY <1>2 DEF Few
    <3> QED
      BY <3>1, FewDiffer
  <2>3. Having(<<c, d>>, i) = Having(<<c>>, i) + Having(<<d>>, i)
    <3>1. Having(<<c>> \o <<d>>, i) = Having(<<c>>, i) + Having(<<d>>, i)
      BY <2>1, HavingJoined, ZenonT(60)
    <3> QED
      BY <2>1, <3>1, Zenon
  <2>4. Having(<<c, d>> \o s, i) = Having(<<c, d>>, i) + Having(s, i)
    BY <2>1, HavingJoined
  <2>5. <<c, d>> \o s \in Seq(Character)
    BY <2>1, ConcatProperties
  <2>6. Having(<<c, d>> \o s, i) % 2 = Having(s, i) % 2
    BY <1>2, <2>5, ChecksumSame
  <2>7. Having(s, i) \in Nat
    BY HavingIs
  <2>8. \A a \in Nat : \A x, y \in {0, 1} : ((x + y) + a) % 2 = a % 2 => x = y
    OBVIOUS
  <2>9. ((Having(<<c>>, i) + Having(<<d>>, i)) + Having(s, i)) % 2 = Having(s, i) % 2
    BY <2>3, <2>4, <2>6
  <2> QED
    BY <2>2, <2>7, <2>8, <2>9
<1> QED
  BY <1>1, <1>2

-----------------------------------------------------------------------------
\* A checksum as it is written is read again.
LEMMA ChecksumDigits ==
  ASSUME NEW n \in Nat, n < RADIX * RADIX
  PROVE  /\ ChecksumText(n) \in Seq(DigitSet) /\ Len(ChecksumText(n)) = 2
         /\ StoulAccepts(ChecksumText(n)) /\ Stoul(ChecksumText(n)) = n
<1> DEFINE q == n \div RADIX
           r == n % RADIX
           t == ChecksumText(n)
<1>1. RADIX \in Nat /\ RADIX > 0
  BY WidthAssumption
<1>2. q \in Int /\ r \in Int /\ n = q * RADIX + r /\ 0 <= r /\ r < RADIX
  BY <1>1
<1>3. t = <<Digits[q + 1], Digits[r + 1]>>
  BY DEF ChecksumText
<1> HIDE DEF q, r, t
<1>4. 0 <= q /\ q < RADIX
  <2>1. q >= RADIX => q * RADIX >= RADIX * RADIX
    BY <1>1, <1>2
  <2>2. q < 0 => q * RADIX <= (-1) * RADIX
    BY <1>1, <1>2
  <2>3. q * RADIX \in Int /\ RADIX * RADIX \in Int /\ (-1) * RADIX = -RADIX
    BY <1>1, <1>2
  <2> QED
    BY <1>1, <1>2, <2>1, <2>2, <2>3
<1>5. q + 1 \in 1..RADIX /\ r + 1 \in 1..RADIX /\ (q + 1) - 1 = q /\ (r + 1) - 1 = r
  BY <1>1, <1>2, <1>4
<1> DEFINE a == Digits[q + 1]
           b == Digits[r + 1]
<1>6. /\ a \in DigitSet /\ b \in DigitSet /\ DigitValue[a] = q /\ DigitValue[b] = r
      /\ a \notin Leading
  BY <1>5, DigitsAssumption
<1>7. t = <<a, b>>
  BY <1>3
<1> HIDE DEF a, b
<1>8. t \in Seq(DigitSet) /\ Len(t) = 2 /\ t[1] = a /\ t[2] = b /\ t # << >> /\ Head(t) = a
  BY <1>6, <1>7
<1>9. Magnitude(t) = t
  BY <1>6, <1>8 DEF Magnitude
<1>10. StoulAccepts(t)
  BY <1>6, <1>8, <1>9 DEF StoulAccepts
<1>11. Stoul(t) = (q * RADIX + r) % (RADIX * RADIX)
  <2>1. a # "-"
    BY <1>6 DEF Leading
  <2> QED
    BY <1>6, <1>8, <1>9, <2>1 DEF Stoul
<1>12. n % (RADIX * RADIX) = n
  <2> DEFINE z == RADIX * RADIX
  <2>1. z \in Nat /\ n < z
    BY <1>1
  <2> HIDE DEF z
  <2>2. n % z = n
    BY <2>1
  <2> QED
    BY <2>2 DEF z
<1> QED
  BY <1>2, <1>8, <1>10, <1>11, <1>12 DEF t

-----------------------------------------------------------------------------
\* Characters that are no delimiters, and what they make.
Plain == Character \ Delimiters
FieldLists == {f \in Seq(Seq(Plain)) : f # << >>}

\* The fields of a text.
Fields(text) == FoldLeft(Extended, <<(<< >>)>>, text)

\* Appending to the second of two sequences is appending to both joined.
LEMMA AppendJoined ==
  ASSUME NEW S, NEW s \in Seq(S), NEW t \in Seq(S), NEW e \in S
  PROVE  s \o Append(t, e) = Append(s \o t, e)
<1>1. Append(t, e) = t \o <<e>> /\ <<e>> \in Seq(S)
  BY AppendIsConcat
<1>2. s \o t \in Seq(S)
  BY ConcatProperties
<1>3. Append(s \o t, e) = (s \o t) \o <<e>>
  BY <1>2, AppendIsConcat
<1>4. (s \o t) \o <<e>> = s \o (t \o <<e>>)
  BY <1>1, ConcatAssociative
<1> QED
  BY <1>1, <1>3, <1>4

\* A character more makes the last field longer or begins another one.
LEMMA ExtendedIs ==
  ASSUME NEW f \in FieldLists, NEW c \in Character
  PROVE  /\ Extended(f, c) \in FieldLists
         /\ c \in Delimiters => Extended(f, c) = Append(f, << >>)
         /\ c \notin Delimiters =>
              /\ Len(Extended(f, c)) = Len(f)
              /\ \A i \in 1..Len(f) : Extended(f, c)[i] = IF i = Len(f) THEN Append(f[i], c) ELSE f[i]
<1>1. f \in Seq(Seq(Plain)) /\ Len(f) \in Nat \ {0} /\ Len(f) \in 1..Len(f) /\ << >> \in Seq(Plain)
  BY EmptySeq DEF FieldLists
<1>2. f[Len(f)] \in Seq(Plain)
  BY <1>1, ElementOfSeq
<1>3. CASE c \in Delimiters
  <2>1. Extended(f, c) = Append(f, << >>)
    BY <1>3 DEF Extended
  <2>2. Append(f, << >>) \in Seq(Seq(Plain)) /\ Append(f, << >>) # << >>
    BY <1>1, AppendProperties
  <2> QED
    BY <1>3, <2>1, <2>2 DEF FieldLists
<1>4. CASE c \notin Delimiters
  <2>1. c \in Plain
    BY <1>4 DEF Plain
  <2> DEFINE e == Append(f[Len(f)], c)
             r == [f EXCEPT ![Len(f)] = e]
  <2>2. e \in Seq(Plain)
    BY <1>2, <2>1, AppendProperties
  <2>3. Extended(f, c) = r
    BY <1>4 DEF Extended
  <2>4. /\ r \in Seq(Seq(Plain)) /\ Len(r) = Len(f)
        /\ \A i \in 1..Len(f) : r[i] = IF i = Len(f) THEN e ELSE f[i]
    <3> HIDE DEF e
    <3> QED
      BY <1>1, <2>2, ExceptSeq
  <2> HIDE DEF r
  <2>5. r # << >>
    BY <1>1, <2>4, EmptySeq
  <2> QED
    BY <1>4, <2>3, <2>4, <2>5 DEF FieldLists
<1> QED
  BY <1>3, <1>4

\* Fields in front do not matter.
LEMMA ExtendedJoined ==
  ASSUME NEW f \in Seq(Seq(Plain)), NEW g \in FieldLists, NEW c \in Character
  PROVE  f \o g \in FieldLists /\ Extended(f \o g, c) = f \o Extended(g, c)
<1>1. g \in Seq(Seq(Plain)) /\ Len(g) \in Nat \ {0} /\ Len(f) \in Nat /\ << >> \in Seq(Plain)
  BY EmptySeq, LenProperties DEF FieldLists
<1> DEFINE j == f \o g
<1>2. /\ j \in Seq(Seq(Plain)) /\ Len(j) = Len(f) + Len(g)
      /\ \A i \in 1..(Len(f) + Len(g)) : j[i] = IF i <= Len(f) THEN f[i] ELSE g[i - Len(f)]
  BY <1>1, ConcatProperties
<1>3. j # << >>
  <2> HIDE DEF j
  <2> QED
    BY <1>1, <1>2, EmptySeq
<1>4. j \in FieldLists
  BY <1>2, <1>3 DEF FieldLists
<1>5. CASE c \in Delimiters
  <2>1. Extended(j, c) = Append(j, << >>) /\ Extended(g, c) = Append(g, << >>)
    BY <1>4, <1>5, ExtendedIs
  <2>2. f \o Append(g, << >>) = Append(f \o g, << >>)
    BY <1>1, AppendJoined, SMTT(60)
  <2> QED
    BY <1>4, <2>1, <2>2
<1>6. CASE c \notin Delimiters
  <2> DEFINE a == Extended(j, c)
             b == Extended(g, c)
             d == f \o b
  <2>1. /\ a \in FieldLists /\ Len(a) = Len(j)
        /\ \A i \in 1..Len(j) : a[i] = IF i = Len(j) THEN Append(j[i], c) ELSE j[i]
    BY <1>4, <1>6, ExtendedIs
  <2>2. /\ b \in FieldLists /\ Len(b) = Len(g)
        /\ \A i \in 1..Len(g) : b[i] = IF i = Len(g) THEN Append(g[i], c) ELSE g[i]
    BY <1>6, ExtendedIs
  <2>3. b \in Seq(Seq(Plain)) /\ a \in Seq(Seq(Plain))
    BY <2>1, <2>2 DEF FieldLists
  <2>4. /\ d \in Seq(Seq(Plain)) /\ Len(d) = Len(f) + Len(b)
        /\ \A i \in 1..(Len(f) + Len(b)) : d[i] = IF i <= Len(f) THEN f[i] ELSE b[i - Len(f)]
    <3> HIDE DEF b
    <3> QED
      BY <2>3, ConcatProperties
  <2> HIDE DEF a, b, d, j
  <2>5. Len(a) = Len(d)
    BY <1>2, <2>1, <2>2, <2>4
  <2>6. ASSUME NEW i \in 1..Len(a) PROVE a[i] = d[i]
    <3>1. /\ i \in 1..(Len(f) + Len(g)) /\ i \in 1..Len(j) /\ i \in 1..(Len(f) + Len(b))
      BY <1>2, <2>1, <2>2
    <3>2. CASE i <= Len(f)
      <4>1. i # Len(j)
        BY <1>1, <1>2, <3>1, <3>2
      <4> QED
        BY <1>2, <2>1, <2>4, <3>1, <3>2, <4>1
    <3>3. CASE ~(i <= Len(f))
      <4>1. i - Len(f) \in 1..Len(g) /\ (i = Len(j) <=> i - Len(f) = Len(g))
        BY <1>1, <1>2, <3>1, <3>3
      <4>2. j[i] = g[i - Len(f)] /\ d[i] = b[i - Len(f)]
        BY <1>2, <2>4, <3>1, <3>3
      <4> QED
        BY <2>1, <2>2, <3>1, <4>1, <4>2
    <3> QED
      BY <3>2, <3>3
  <2>7. a = d
    BY <2>3, <2>4, <2>5, <2>6, SeqEqual
  <2> QED
    BY <1>4, <2>7 DEF a, b, d, j
<1> QED
  BY <1>4, <1>5, <1>6

-----------------------------------------------------------------------------
\* The fields of the beginnings of a text.
IsParsed(g, text) ==
  /\ g \in [0..Len(text) -> FieldLists] /\ g[0] = <<(<< >>)>>
  /\ \A i \in 1..Len(text) : g[i] = Extended(g[i - 1], text[i])

\* Fields goes through them.
LEMMA FieldsSteps ==
  ASSUME NEW text \in Seq(Character)
  PROVE  \E g : IsParsed(g, text) /\ Fields(text) = g[Len(text)]
<1> DEFINE n == Len(text)
           one == <<(<< >>)>>
           T == FieldLists
           h == [x \in T \X (1..n) |-> Extended(x[1], text[x[2]])]
           f == CHOOSE k : k = [s \in SUBSET (1..n) |->
                                  IF s = {} THEN one ELSE Extended(k[s \ {Max(s)}], text[Max(s)])]
<1>1. /\ n \in Nat /\ DOMAIN text = 1..n /\ \A i \in 1..n : text[i] \in Character
  BY LenProperties
<1>2. Fields(text) = f[1..n]
  BY <1>1 DEF Fields, FoldLeft, MapThenFoldSet
<1>3. one \in T
  <2>1. << >> \in Seq(Plain)
    BY EmptySeq
  <2>2. one \in Seq(Seq(Plain)) /\ one # << >>
    BY <2>1
  <2> QED
    BY <2>2 DEF FieldLists
<1> HIDE DEF n, one, T, h, f
<1>4. h \in [T \X (1..n) -> T]
  <2>1. \A x \in T \X (1..n) : Extended(x[1], text[x[2]]) \in T
    <3> SUFFICES ASSUME NEW a \in T, NEW b \in 1..n PROVE Extended(a, text[b]) \in T
      OBVIOUS
    <3> QED
      BY <1>1, ExtendedIs DEF T
  <2> QED
    BY <2>1 DEF h
<1>5. \E k : IsFold(k, n, T, one, h)
  BY <1>1, <1>3, <1>4, FoldExists
<1>6. PICK k \in [SUBSET (1..n) -> T] : \A s \in SUBSET (1..n) :
        k[s] = IF s = {} THEN one ELSE h[<<k[s \ {Max(s)}], Max(s)>>]
  BY <1>5 DEF IsFold
<1>7. ASSUME NEW s \in SUBSET (1..n)
      PROVE  k[s] = IF s = {} THEN one ELSE Extended(k[s \ {Max(s)}], text[Max(s)])
  <2>1. s # {} => Max(s) \in 1..n /\ k[s \ {Max(s)}] \in T
    BY <1>1, MaxOfSome
  <2> QED
    BY <1>6, <2>1 DEF h
<1>8. k = [s \in SUBSET (1..n) |-> IF s = {} THEN one ELSE Extended(k[s \ {Max(s)}], text[Max(s)])]
  <2>1. k = [s \in SUBSET (1..n) |-> k[s]]
    OBVIOUS
  <2> QED
    BY <1>7, <2>1
<1>9. f = [s \in SUBSET (1..n) |-> IF s = {} THEN one ELSE Extended(f[s \ {Max(s)}], text[Max(s)])]
  BY <1>8 DEF f
<1> DEFINE g == [i \in 0..n |-> k[1..i]]
           P == [i \in 0..n |-> {g[i]}]
<1>10. ASSUME NEW i \in 1..n
       PROVE  /\ (1..i) \in SUBSET (1..n) /\ i \in 0..n /\ i - 1 \in 0..n
              /\ Max(1..i) = i /\ (1..i) \ {i} = 1..(i - 1) /\ 1..i # {}
  BY <1>1, MaxOfFirst
<1>11. ASSUME NEW i \in 1..n PROVE g[i] = Extended(g[i - 1], text[i])
  BY <1>7, <1>10
<1>12. g[0] = one /\ f[{}] = one
  <2>1. 1..0 = {} /\ 0 \in 0..n
    BY <1>1
  <2> QED
    BY <1>7, <1>9, <2>1
<1>13. g \in [0..n -> T] /\ n \in 0..n
  <2>1. \A i \in 0..n : (1..i) \in SUBSET (1..n)
    BY <1>1
  <2> QED
    BY <1>1, <2>1
<1>14. \A i \in 0..n : P[i] = {g[i]}
  OBVIOUS
<1> HIDE DEF g, P
<1>15. ASSUME NEW i \in 1..n, f[1..(i - 1)] \in P[i - 1] PROVE f[1..i] \in P[i]
  <2>1. f[1..i] = Extended(f[1..(i - 1)], text[i])
    BY <1>9, <1>10
  <2>2. f[1..(i - 1)] = g[i - 1] /\ P[i] = {g[i]}
    BY <1>10, <1>14, <1>15
  <2> QED
    BY <1>11, <2>1, <2>2
<1>16. f[{}] \in P[0]
  BY <1>12, <1>13, <1>14
<1>17. f[1..n] \in P[n]
  BY <1>1, <1>15, <1>16, FoldSteps
<1>18. Fields(text) = g[n]
  BY <1>2, <1>13, <1>14, <1>17
<1>19. IsParsed(g, text)
  BY <1>11, <1>12, <1>13 DEF IsParsed, n, one, T
<1> QED
  BY <1>18, <1>19 DEF n

\* The fields of a text that gets a character more.
LEMMA FieldsAppend ==
  /\ Fields(<< >>) = <<(<< >>)>>
  /\ \A text \in Seq(Character) :
       /\ Fields(text) \in FieldLists
       /\ \A c \in Character : Fields(Append(text, c)) = Extended(Fields(text), c)
<1>1. Fields(<< >>) = <<(<< >>)>>
  <2>1. << >> \in Seq(Character) /\ Len(<< >>) = 0
    BY EmptySeq
  <2>2. PICK g : IsParsed(g, << >>) /\ Fields(<< >>) = g[Len(<< >>)]
    BY <2>1, FieldsSteps
  <2> QED
    BY <2>1, <2>2 DEF IsParsed
<1>2. ASSUME NEW text \in Seq(Character)
      PROVE  /\ Fields(text) \in FieldLists
             /\ \A c \in Character : Fields(Append(text, c)) = Extended(Fields(text), c)
  <2> DEFINE n == Len(text)
  <2>1. n \in Nat /\ n \in 0..n
    BY LenProperties
  <2>2. PICK g : IsParsed(g, text) /\ Fields(text) = g[n]
    BY FieldsSteps
  <2>3. Fields(text) \in FieldLists
    BY <2>1, <2>2 DEF IsParsed
  <2>4. ASSUME NEW c \in Character PROVE Fields(Append(text, c)) = Extended(Fields(text), c)
    <3> DEFINE t == Append(text, c)
    <3>1. /\ t \in Seq(Character) /\ Len(t) = n + 1 /\ t[n + 1] = c
          /\ \A i \in 1..n : t[i] = text[i]
      BY AppendProperties
    <3> HIDE DEF t, n
    <3>2. PICK k : IsParsed(k, t) /\ Fields(t) = k[n + 1]
      BY <3>1, FieldsSteps
    <3>3. k[0] = g[0] /\ \A i \in 1..(n + 1) : k[i] = Extended(k[i - 1], t[i])
      BY <2>2, <3>1, <3>2 DEF IsParsed
    <3>4. \A i \in 1..n : g[i] = Extended(g[i - 1], text[i])
      BY <2>2 DEF IsParsed, n
    <3> DEFINE K == {m \in Nat : m <= n => k[m] = g[m]}
    <3>5. 0 \in K
      BY <3>3
    <3>6. ASSUME NEW m \in Nat, m \in K PROVE m + 1 \in K
      <4> SUFFICES ASSUME m + 1 <= n PROVE k[m + 1] = g[m + 1]
        OBVIOUS
      <4>1. m + 1 \in 1..n /\ m + 1 \in 1..(n + 1) /\ (m + 1) - 1 = m /\ k[m] = g[m]
        BY <2>1, <3>6
      <4>2. k[m + 1] = Extended(k[m], t[m + 1]) /\ g[m + 1] = Extended(g[m], text[m + 1])
        BY <3>3, <3>4, <4>1
      <4> QED
        BY <3>1, <4>1, <4>2
    <3> HIDE DEF K
    <3>7. n \in K
      BY <2>1, <3>5, <3>6, Induction
    <3>8. k[n] = g[n] /\ n + 1 \in 1..(n + 1) /\ (n + 1) - 1 = n
      BY <2>1, <3>7 DEF K
    <3> QED
      BY <2>2, <3>1, <3>2, <3>3, <3>8 DEF t
  <2> QED
    BY <2>3, <2>4
<1> QED
  BY <1>1, <1>2

-----------------------------------------------------------------------------
\* Texts are joined in any order, and what has no delimiters is a text as well.
LEMMA TextFacts ==
  ASSUME NEW S
  PROVE  /\ \A s, t \in Seq(S) : s \o t \in Seq(S) /\ Len(s \o t) = Len(s) + Len(t)
         /\ \A s, t, u \in Seq(S) : (s \o t) \o u = s \o (t \o u)
         /\ \A s \in Seq(S) : s \o << >> = s /\ << >> \o s = s /\ Len(s) \in Nat
         /\ \A T : S \subseteq T => \A s \in Seq(S) : s \in Seq(T)
BY ConcatProperties, ConcatAssociative, ConcatEmptySeq, LenProperties, SeqMonotonic, SMTT(60)

\* A delimiter between two texts separates their fields.
LEMMA FieldsJoined ==
  ASSUME NEW u \in Seq(Character), NEW v \in Seq(Character), NEW d \in Delimiters
  PROVE  Fields((u \o <<d>>) \o v) = Fields(u) \o Fields(v)
<1> DEFINE t == u \o <<d>>
           T == {w \in Seq(Character) : Fields(t \o w) = Fields(u) \o Fields(w)}
<1>1. d \in Character
  BY CodeAssumption DEF Special
<1>2. t = Append(u, d) /\ t \in Seq(Character) /\ << >> \in Seq(Character)
  BY <1>1, AppendIsConcat, AppendProperties, EmptySeq
<1> HIDE DEF t
<1>3. Fields(u) \in FieldLists /\ Fields(t) = Extended(Fields(u), d)
  BY <1>1, <1>2, FieldsAppend
<1>4. << >> \in T
  <2>1. t \o << >> = t
    BY <1>2, ConcatEmptySeq
  <2>2. Fields(t) = Append(Fields(u), << >>)
    BY <1>1, <1>3, ExtendedIs
  <2>3. << >> \in Seq(Plain) /\ Fields(u) \in Seq(Seq(Plain))
    BY <1>3, EmptySeq DEF FieldLists
  <2>4. Append(Fields(u), << >>) = Fields(u) \o <<(<< >>)>>
    BY <2>3, AppendIsConcat
  <2> QED
    BY <1>2, <2>1, <2>2, <2>4, FieldsAppend
<1>5. ASSUME NEW w \in Seq(Character), NEW c \in Character, w \in T PROVE Append(w, c) \in T
  <2>1. /\ Append(w, c) \in Seq(Character) /\ t \o w \in Seq(Character)
        /\ t \o Append(w, c) = Append(t \o w, c)
    BY <1>2, AppendProperties, ConcatProperties, AppendJoined
  <2>2. Fields(t \o Append(w, c)) = Extended(Fields(t \o w), c)
    BY <2>1, FieldsAppend
  <2>3. Fields(w) \in FieldLists /\ Fields(Append(w, c)) = Extended(Fields(w), c)
    BY FieldsAppend
  <2>4. Fields(u) \in Seq(Seq(Plain))
    BY <1>3 DEF FieldLists
  <2>5. Extended(Fields(u) \o Fields(w), c) = Fields(u) \o Extended(Fields(w), c)
    BY <2>3, <2>4, ExtendedJoined
  <2>6. Fields(t \o w) = Fields(u) \o Fields(w)
    BY <1>5
  <2> QED
    BY <2>1, <2>2, <2>3, <2>5, <2>6
<1> HIDE DEF T
<1>6. Seq(Character) \subseteq T
  BY <1>4, <1>5, SequenceInduction
<1>7. v \in T
  BY <1>6
<1> QED
  BY <1>7 DEF T, t

\* A text without delimiters is one field.
LEMMA FieldsPlain ==
  ASSUME NEW p \in Seq(Plain)
  PROVE  Fields(p) = <<p>>
<1> DEFINE T == {w \in Seq(Plain) : Fields(w) = <<w>>}
<1>1. << >> \in T
  BY EmptySeq, FieldsAppend
<1>2. ASSUME NEW w \in Seq(Plain), NEW c \in Plain, w \in T PROVE Append(w, c) \in T
  <2>1. c \in Character /\ c \notin Delimiters /\ Plain \subseteq Character
    BY DEF Plain
  <2>2. w \in Seq(Character) /\ Append(w, c) \in Seq(Plain)
    BY <2>1, SeqMonotonic, AppendProperties
  <2>3. Fields(w) = <<w>>
    BY <1>2
  <2>4. Fields(Append(w, c)) = Extended(<<w>>, c)
    BY <2>1, <2>2, <2>3, FieldsAppend
  <2>5. Len(<<w>>) = 1 /\ <<w>>[1] = w
    OBVIOUS
  <2>6. Extended(<<w>>, c) = [<<w>> EXCEPT ![1] = Append(w, c)]
    BY <2>1, <2>5 DEF Extended
  <2>7. [<<w>> EXCEPT ![1] = Append(w, c)] = <<Append(w, c)>>
    OBVIOUS
  <2> QED
    BY <2>2, <2>4, <2>6, <2>7
<1> HIDE DEF T
<1>3. Seq(Plain) \subseteq T
  BY <1>1, <1>2, SequenceInduction
<1>4. p \in T
  BY <1>3
<1> QED
  BY <1>4 DEF T

\* The fields of a sentence, one by one.
LEMMA JoinedIs ==
  /\ Joined(<< >>) = << >>
  /\ \A S : "," \in S =>
       \A fs \in Seq(Seq(S)) : \A f \in Seq(S) :
         /\ Joined(fs) \in Seq(S)
         /\ Joined(Append(fs, f)) = Joined(fs) \o (<<",">> \o f)
<1>1. Joined(<< >>) = << >>
  <2>1. Len(<< >>) = 0 /\ [i \in 1..0 |-> <<",">> \o << >>[i]] = << >>
    OBVIOUS
  <2> QED
    BY <2>1 DEF Joined, FlattenSeq
<1>2. ASSUME NEW S, "," \in S, NEW fs \in Seq(Seq(S)), NEW f \in Seq(S)
      PROVE  Joined(Append(fs, f)) = Joined(fs) \o (<<",">> \o f)
  <2> DEFINE n == Len(fs)
             t == Append(fs, f)
             s == [i \in 1..n |-> <<",">> \o fs[i]]
             r == [i \in 1..Len(t) |-> <<",">> \o t[i]]
             e == <<",">> \o f
  <2>1. /\ n \in Nat /\ t \in Seq(Seq(S)) /\ Len(t) = n + 1 /\ t[n + 1] = f
        /\ \A i \in 1..n : t[i] = fs[i] /\ fs[i] \in Seq(S)
    BY AppendProperties, LenProperties, ElementOfSeq
  <2>2. <<",">> \in Seq(S)
    <3>1. \A x \in S : <<x>> \in Seq(S)
      OBVIOUS
    <3> QED
      BY <1>2, <3>1
  <2>3. e \in Seq(S) /\ \A i \in 1..n : <<",">> \o fs[i] \in Seq(S)
    <3>1. \A x, y \in Seq(S) : x \o y \in Seq(S)
      BY TextFacts
    <3> QED
      BY <2>1, <2>2, <3>1
  <2> HIDE DEF n, t, e
  <2>4. s \in Seq(Seq(S)) /\ Len(s) = n /\ \A i \in 1..n : s[i] = <<",">> \o fs[i]
    <3>1. s \in [1..n -> Seq(S)] /\ \A i \in 1..n : s[i] = <<",">> \o fs[i]
      BY <2>3
    <3> HIDE DEF s
    <3> QED
      BY <2>1, <3>1, FunIsSeq
  <2> HIDE DEF s
  <2>5. r \in Seq(Seq(S)) /\ Len(r) = n + 1 /\ \A i \in 1..(n + 1) : r[i] = <<",">> \o t[i]
    <3>1. \A i \in 1..(n + 1) : <<",">> \o t[i] \in Seq(S)
      <4> SUFFICES ASSUME NEW i \in 1..(n + 1) PROVE <<",">> \o t[i] \in Seq(S)
        OBVIOUS
      <4>1. CASE i = n + 1
        BY <2>1, <2>3, <4>1 DEF e
      <4>2. CASE i # n + 1
        <5>1. i \in 1..n
          BY <2>1, <4>2
        <5> QED
          BY <2>1, <2>3, <5>1
      <4> QED
        BY <4>1, <4>2
    <3>2. r \in [1..(n + 1) -> Seq(S)] /\ \A i \in 1..(n + 1) : r[i] = <<",">> \o t[i]
      BY <2>1, <3>1
    <3>3. n + 1 \in Nat
      BY <2>1
    <3> HIDE DEF r
    <3> QED
      BY <3>2, <3>3, FunIsSeq
  <2> HIDE DEF r
  <2>6. Append(s, e) \in Seq(Seq(S)) /\ Len(Append(s, e)) = n + 1
        /\ (\A i \in 1..n : Append(s, e)[i] = s[i]) /\ Append(s, e)[n + 1] = e
    <3>1. /\ Append(s, e) \in Seq(Seq(S)) /\ Len(Append(s, e)) = Len(s) + 1
          /\ \A i \in 1..Len(s) : Append(s, e)[i] = s[i]
          /\ Append(s, e)[Len(s) + 1] = e
      <4>1. \A x \in Seq(Seq(S)) : \A y \in Seq(S) :
              /\ Append(x, y) \in Seq(Seq(S)) /\ Len(Append(x, y)) = Len(x) + 1
              /\ \A i \in 1..Len(x) : Append(x, y)[i] = x[i]
              /\ Append(x, y)[Len(x) + 1] = y
        BY AppendProperties
      <4> QED
        BY <2>3, <2>4, <4>1
    <3> QED
      BY <2>4, <3>1
  <2>7. ASSUME NEW i \in 1..(n + 1) PROVE r[i] = Append(s, e)[i]
    <3>1. CASE i = n + 1
      BY <2>1, <2>5, <2>6, <3>1 DEF e
    <3>2. CASE i # n + 1
      <4>1. i \in 1..n
        BY <2>1, <3>2
      <4> QED
        BY <2>1, <2>4, <2>5, <2>6, <4>1
    <3> QED
      BY <3>1, <3>2
  <2>8. r = Append(s, e)
    BY <2>5, <2>6, <2>7, SeqEqual
  <2>9. FlattenSeq(Append(s, e)) = FlattenSeq(s) \o e
    BY <2>3, <2>4, FlattenAppend
  <2> QED
    BY <2>8, <2>9 DEF Joined, s, r, t, n, e
<1>3. ASSUME NEW S, "," \in S PROVE \A fs \in Seq(Seq(S)) : Joined(fs) \in Seq(S)
  <2> DEFINE T == {fs \in Seq(Seq(S)) : Joined(fs) \in Seq(S)}
  <2>1. << >> \in T
    <3>1. << >> \in Seq(S) /\ << >> \in Seq(Seq(S))
      BY EmptySeq
    <3> QED
      BY <1>1, <3>1
  <2>2. ASSUME NEW fs \in Seq(Seq(S)), NEW f \in Seq(S), fs \in T PROVE Append(fs, f) \in T
    <3>1. Joined(Append(fs, f)) = Joined(fs) \o (<<",">> \o f)
      BY <1>2, <1>3
    <3>2. Append(fs, f) \in Seq(Seq(S))
      BY AppendProperties
    <3>3. <<",">> \in Seq(S) /\ Joined(fs) \in Seq(S)
      <4>1. \A e \in S : <<e>> \in Seq(S)
        OBVIOUS
      <4> QED
        BY <1>3, <2>2, <4>1
    <3>4. <<",">> \o f \in Seq(S)
      BY <3>3, ConcatProperties
    <3>5. Joined(fs) \o (<<",">> \o f) \in Seq(S)
      BY <3>3, <3>4, ConcatProperties
    <3> QED
      BY <3>1, <3>2, <3>5
  <2> HIDE DEF T
  <2>3. Seq(Seq(S)) \subseteq T
    BY <2>1, <2>2, SequenceInduction
  <2> QED
    BY <2>3 DEF T
<1> QED
  BY <1>1, <1>2, <1>3

\* An address and fields that are written are the fields that are read.
LEMMA FieldsOfJoined ==
  ASSUME NEW a \in Seq(Plain), NEW fs \in Seq(Seq(Plain))
  PROVE  Fields(a \o Joined(fs)) = <<a>> \o fs
<1> DEFINE T == {f \in Seq(Seq(Plain)) : Fields(a \o Joined(f)) = <<a>> \o f}
<1>0. <<a>> \in Seq(Seq(Plain))
  OBVIOUS
<1>1. Plain \subseteq Character /\ "," \in Character /\ "," \in Delimiters
  BY CodeAssumption DEF Plain, Special, Delimiters
<1>7. /\ \A s, t \in Seq(Character) : s \o t \in Seq(Character)
      /\ \A s, t, u \in Seq(Character) : (s \o t) \o u = s \o (t \o u)
  BY TextFacts, ZenonT(60)
<1>2. a \in Seq(Character) /\ \A p \in Seq(Plain) : p \in Seq(Character)
  BY <1>1, TextFacts
<1>3. << >> \in T
  <2>1. a \o << >> = a /\ <<a>> \o << >> = <<a>> /\ << >> \in Seq(Seq(Plain))
    BY <1>0, <1>2, ConcatEmptySeq, EmptySeq
  <2>2. Joined(<< >>) = << >>
    BY JoinedIs
  <2> QED
    BY <2>1, <2>2, FieldsPlain
<1>4. ASSUME NEW f \in Seq(Seq(Plain)), NEW p \in Seq(Plain), f \in T PROVE Append(f, p) \in T
  <2>1. f \in Seq(Seq(Character)) /\ p \in Seq(Character)
    <3>1. Seq(Plain) \subseteq Seq(Character)
      BY <1>2
    <3> QED
      BY <1>2, <3>1, SeqMonotonic
  <2> DEFINE J == Joined(f)
             c == <<",">>
  <2>2. J \in Seq(Character) /\ Joined(Append(f, p)) = J \o (c \o p)
    BY <1>1, <2>1, JoinedIs
  <2>3. c \in Seq(Character)
    <3>1. \A e \in Character : <<e>> \in Seq(Character)
      OBVIOUS
    <3> QED
      BY <1>1, <3>1
  <2> HIDE DEF J, c
  <2>4. c \o p \in Seq(Character) /\ a \o J \in Seq(Character)
    BY <1>2, <1>7, <2>1, <2>2, <2>3
  <2>5. a \o (J \o (c \o p)) = (a \o J) \o (c \o p)
    BY <1>2, <1>7, <2>2, <2>4
  <2>6. (a \o J) \o (c \o p) = ((a \o J) \o c) \o p
    <3>1. (a \o J) \in Seq(Character) /\ c \in Seq(Character) /\ p \in Seq(Character)
      BY <2>1, <2>3, <2>4
    <3> QED
      BY <1>7, <3>1, ZenonT(60)
  <2>7. Fields(((a \o J) \o c) \o p) = Fields(a \o J) \o Fields(p)
    BY <1>1, <2>1, <2>4, FieldsJoined DEF c
  <2>8. Fields(a \o J) = <<a>> \o f /\ Fields(p) = <<p>>
    BY <1>4, FieldsPlain DEF J
  <2>9. (<<a>> \o f) \o <<p>> = <<a>> \o Append(f, p)
    <3> DEFINE h == <<a>>
               l == <<p>>
    <3>1. Append(f, p) = f \o l /\ l \in Seq(Seq(Plain)) /\ h \in Seq(Seq(Plain))
      BY <1>0, AppendIsConcat
    <3>3. \A s, t, u \in Seq(Seq(Plain)) : (s \o t) \o u = s \o (t \o u)
      BY TextFacts
    <3> HIDE DEF h, l
    <3>2. (h \o f) \o l = h \o (f \o l)
      BY <3>1, <3>3
    <3> QED
      BY <3>1, <3>2 DEF h, l
  <2>10. Append(f, p) \in Seq(Seq(Plain))
    BY AppendProperties
  <2> QED
    BY <2>2, <2>5, <2>6, <2>7, <2>8, <2>9, <2>10
<1> HIDE DEF T
<1>5. Seq(Seq(Plain)) \subseteq T
  BY <1>3, <1>4, SequenceInduction
<1>6. fs \in T
  BY <1>5
<1> QED
  BY <1>6 DEF T

\* A text is one field, or has a first one.
LEMMA FirstField ==
  ASSUME NEW text \in Seq(Character)
  PROVE  \/ text \in Seq(Plain) /\ Fields(text) = <<text>>
         \/ \E p \in Seq(Plain), d \in Delimiters, v \in Seq(Character) :
              text = (p \o <<d>>) \o v /\ Fields(text) = <<p>> \o Fields(v)
<1> DEFINE n == Len(text)
           D == {i \in 1..n : text[i] \in Delimiters}
<1>1. n \in Nat /\ \A i \in 1..n : text[i] \in Character
  BY LenProperties, ElementOfSeq
<1>2. CASE D = {}
  <2>1. \A i \in 1..n : text[i] \in Plain
    BY <1>1, <1>2 DEF Plain
  <2>2. text \in Seq(Plain)
    <3>1. text \in [1..n -> Plain]
      BY <2>1, LenProperties
    <3> HIDE DEF n
    <3> QED
      BY <1>1, <3>1, FunIsSeq
  <2> QED
    BY <2>2, FieldsPlain
<1>3. CASE D # {}
  <2>1. D \in SUBSET Nat
    BY <1>1
  <2> HIDE DEF D
  <2>2. PICK k \in D : \A m \in D : k <= m
    BY <1>3, <2>1, Least
  <2>3. k \in 1..n /\ text[k] \in Delimiters /\ \A i \in 1..(k - 1) : text[i] \notin Delimiters
    <3>1. k \in 1..n /\ text[k] \in Delimiters
      BY <2>2 DEF D
    <3>2. ASSUME NEW i \in 1..(k - 1), text[i] \in Delimiters PROVE FALSE
      <4>1. i \in D
        BY <1>1, <3>1, <3>2 DEF D
      <4> QED
        BY <2>2, <3>1, <4>1
    <3> QED
      BY <3>1, <3>2
  <2> DEFINE p == SubSeq(text, 1, k - 1)
             r == SubSeq(text, k, n)
             v == SubSeq(text, k + 1, n)
             d == text[k]
  <2>4. /\ p \in Seq(Character) /\ Len(p) = k - 1 /\ (\A i \in 1..(k - 1) : p[i] = text[i])
        /\ v \in Seq(Character) /\ text = SubSeq(text, 1, k) \o v
        /\ SubSeq(text, 1, k) = p \o <<d>>
    <3>1. k - 1 \in 0..Len(text) /\ k \in 0..Len(text) /\ k \in 1..k /\ 1 \in 1..Len(text) /\ k \in 1..Len(text)
      BY <1>1, <2>3
    <3>2. p \in Seq(Character) /\ Len(p) = k - 1 /\ (\A i \in 1..(k - 1) : p[i] = text[i])
      BY <3>1, CutInTwo
    <3>3. v \in Seq(Character) /\ text = SubSeq(text, 1, k) \o v
      BY <3>1, CutInTwo
    <3>4. SubSeq(text, 1, k) = SubSeq(text, 1, k - 1) \o <<text[k]>>
      BY <3>1, SubSeqRecursiveSecond
    <3> QED
      BY <3>2, <3>3, <3>4
  <2>5. p \in Seq(Plain)
    <3>1. \A i \in 1..(k - 1) : p[i] \in Plain
      BY <1>1, <2>3, <2>4 DEF Plain
    <3>2. p \in [1..Len(p) -> Plain] /\ Len(p) \in Nat
      <4>1. Len(p) \in Nat /\ p \in [1..Len(p) -> Character]
        BY <2>4, LenProperties
      <4> HIDE DEF p
      <4> QED
        BY <2>4, <3>1, <4>1
    <3> HIDE DEF p
    <3> QED
      BY <3>2, FunIsSeq
  <2> HIDE DEF p, v, d
  <2>6. d \in Delimiters /\ text = (p \o <<d>>) \o v
    BY <2>3, <2>4 DEF d
  <2>7. Fields(text) = <<p>> \o Fields(v)
    <3>1. Fields((p \o <<d>>) \o v) = Fields(p) \o Fields(v)
      BY <2>4, <2>6, FieldsJoined
    <3> QED
      BY <2>5, <2>6, <3>1, FieldsPlain
  <2> QED
    BY <2>4, <2>5, <2>6, <2>7
<1> QED
  BY <1>2, <1>3

-----------------------------------------------------------------------------
\* What is used of texts of characters all the time: two joined,
LEMMA Joins ==
  \A s, t \in Seq(Character) :
    /\ s \o t \in Seq(Character) /\ Len(s \o t) = Len(s) + Len(t)
    /\ Len(s) \in Nat /\ Len(t) \in Nat
BY TextFacts

\* three joined,
LEMMA Assoc ==
  \A s, t, u \in Seq(Character) : (s \o t) \o u = s \o (t \o u)
BY TextFacts

\* no character,
LEMMA NoText ==
  /\ << >> \in Seq(Character) /\ Len(<< >>) = 0
  /\ \A s \in Seq(Character) : s \o << >> = s /\ << >> \o s = s
BY TextFacts, EmptySeq

\* one character,
LEMMA OneChar ==
  \A c \in Character : <<c>> \in Seq(Character) /\ Len(<<c>>) = 1 /\ <<c>>[1] = c
OBVIOUS

\* and the characters the program knows.
LEMMA Known ==
  /\ "$" \in Character /\ "!" \in Character /\ "\\" \in Character /\ "*" \in Character
  /\ "," \in Character
BY CodeAssumption DEF Special, Delimiters

\* An element of two texts joined.
LEMMA ElementOfJoined ==
  ASSUME NEW s \in Seq(Character), NEW t \in Seq(Character)
  PROVE  /\ \A i \in 1..Len(s) : (s \o t)[i] = s[i]
         /\ \A i \in 1..Len(t) : (s \o t)[Len(s) + i] = t[i]
<1>1. /\ Len(s) \in Nat /\ Len(t) \in Nat
      /\ \A i \in 1..(Len(s) + Len(t)) : (s \o t)[i] = IF i <= Len(s) THEN s[i] ELSE t[i - Len(s)]
  BY ConcatProperties, LenProperties
<1>2. \A i \in 1..Len(s) : (s \o t)[i] = s[i]
  BY <1>1
<1>3. ASSUME NEW i \in 1..Len(t) PROVE (s \o t)[Len(s) + i] = t[i]
  <2>1. Len(s) + i \in 1..(Len(s) + Len(t)) /\ ~(Len(s) + i <= Len(s)) /\ (Len(s) + i) - Len(s) = i
    BY <1>1
  <2> QED
    BY <1>1, <2>1
<1> QED
  BY <1>2, <1>3

\* Texts without some characters.
LEMMA Without ==
  ASSUME NEW S \in SUBSET Character, NEW s \in Seq(Character)
  PROVE  s \in Seq(S) <=> \A i \in 1..Len(s) : s[i] \in S
<1>1. Len(s) \in Nat /\ s \in [1..Len(s) -> Character]
  BY LenProperties
<1>2. ASSUME s \in Seq(S) PROVE \A i \in 1..Len(s) : s[i] \in S
  BY <1>2, ElementOfSeq
<1>3. ASSUME \A i \in 1..Len(s) : s[i] \in S PROVE s \in Seq(S)
  <2>1. s \in [1..Len(s) -> S]
    BY <1>1, <1>3
  <2> QED
    BY <1>1, <2>1, FunIsSeq
<1> QED
  BY <1>2, <1>3

\* Find gives the first place, if there is one.
LEMMA FindIs ==
  ASSUME NEW s \in Seq(Character), NEW chars, NEW from \in Nat \ {0}
  PROVE  \/ Find(s, chars, from) = 0 /\ \A i \in from..Len(s) : s[i] \notin chars
         \/ /\ Find(s, chars, from) \in from..Len(s) /\ s[Find(s, chars, from)] \in chars
            /\ \A i \in from..(Find(s, chars, from) - 1) : s[i] \notin chars
<1> DEFINE I == {i \in from..Len(s) : s[i] \in chars}
<1>1. Find(s, chars, from) = IF I # {} THEN Min(I) ELSE 0
  BY DEF Find, SelectInSubSeq
<1>2. CASE I = {}
  <2>1. Find(s, chars, from) = 0
    BY <1>1, <1>2
  <2> QED
    BY <1>2, <2>1
<1>3. CASE I # {}
  <2>1. I \in SUBSET Nat /\ Len(s) \in Nat
    BY LenProperties
  <2> HIDE DEF I
  <2>2. \E n \in I : \A m \in I : n <= m
    BY <1>3, <2>1, Least
  <2>3. Min(I) \in I /\ \A m \in I : Min(I) <= m
    BY <2>2 DEF Min
  <2> DEFINE k == Find(s, chars, from)
  <2>4. k \in I /\ \A m \in I : k <= m
    BY <1>1, <1>3, <2>3
  <2> HIDE DEF k
  <2>5. k \in from..Len(s) /\ s[k] \in chars
    BY <2>4 DEF I
  <2>6. ASSUME NEW i \in from..(k - 1), s[i] \in chars PROVE FALSE
    <3>1. i \in from..Len(s) /\ i < k
      BY <2>1, <2>5
    <3>2. i \in I
      BY <2>6, <3>1 DEF I
    <3> QED
      BY <2>1, <2>4, <3>1, <3>2
  <2> QED
    BY <2>5, <2>6 DEF k
<1> QED
  BY <1>2, <1>3

\* So it is the only first place.
LEMMA FindAt ==
  ASSUME NEW s \in Seq(Character), NEW chars, NEW from \in Nat \ {0}
  PROVE  /\ (\A i \in from..Len(s) : s[i] \notin chars) => Find(s, chars, from) = 0
         /\ \A k \in from..Len(s) :
              s[k] \in chars /\ (\A i \in from..(k - 1) : s[i] \notin chars) => Find(s, chars, from) = k
<1> DEFINE f == Find(s, chars, from)
<1>1. \/ f = 0 /\ \A i \in from..Len(s) : s[i] \notin chars
      \/ f \in from..Len(s) /\ s[f] \in chars /\ \A i \in from..(f - 1) : s[i] \notin chars
  BY FindIs
<1>2. Len(s) \in Nat
  BY LenProperties
<1> HIDE DEF f
<1>3. (\A i \in from..Len(s) : s[i] \notin chars) => f = 0
  BY <1>1
<1>4. ASSUME NEW k \in from..Len(s), s[k] \in chars, \A i \in from..(k - 1) : s[i] \notin chars
      PROVE  f = k
  <2>1. f \in from..Len(s) /\ s[f] \in chars /\ \A i \in from..(f - 1) : s[i] \notin chars
    BY <1>1, <1>4
  <2>2. ~(f < k)
    <3> SUFFICES ASSUME f < k PROVE FALSE
      OBVIOUS
    <3>1. f \in from..(k - 1)
      BY <1>2, <2>1
    <3> QED
      BY <1>4, <2>1, <3>1
  <2>3. ~(k < f)
    <3> SUFFICES ASSUME k < f PROVE FALSE
      OBVIOUS
    <3>1. k \in from..(f - 1)
      BY <1>2, <2>1
    <3> QED
      BY <1>4, <2>1, <3>1
  <2> QED
    BY <1>2, <2>1, <2>2, <2>3
<1> QED
  BY <1>3, <1>4 DEF f

-----------------------------------------------------------------------------
\* The line s is read from behind p on, as the text r.
ReadFrom(s, p, r) ==
  /\ p \in Seq(Character) /\ r \in Seq(Character) /\ s = p \o r
  /\ SearchPos(s) = Len(p) + 1

NotStar == Character \ {"*"}
NotBlock == Character \ {"\\"}

\* Without another tag block token, or without one at the beginning, a line is
\* read from its second character on.
LEMMA ReadFromSecond ==
  ASSUME NEW c \in Character, NEW r \in Seq(Character), c # "\\" \/ r \in Seq(NotBlock)
  PROVE  ReadFrom(<<c>> \o r, <<c>>, r) /\ BlockEnd(<<c>> \o r) = 0
<1> DEFINE s == <<c>> \o r
<1>1. /\ <<c>> \in Seq(Character) /\ Len(<<c>>) = 1 /\ <<c>>[1] = c
      /\ s \in Seq(Character) /\ Len(s) = 1 + Len(r) /\ Len(r) \in Nat
  BY OneChar, Joins
<1>2. s[1] = c
  BY <1>1, ElementOfJoined
<1>3. \A i \in 1..Len(r) : s[1 + i] = r[i]
  BY <1>1, ElementOfJoined
<1> HIDE DEF s
<1>4. BlockEnd(s) = 0
  <2>1. CASE c # "\\"
    BY <1>2, <2>1 DEF BlockEnd
  <2>2. CASE r \in Seq(NotBlock)
    <3>1. ASSUME NEW i \in 2..Len(s) PROVE s[i] \notin {"\\"}
      <4>1. i - 1 \in 1..Len(r) /\ 1 + (i - 1) = i
        BY <1>1
      <4>2. s[i] = r[i - 1]
        BY <1>3, <4>1
      <4>3. r[i - 1] \in NotBlock
        BY <2>2, <4>1, ElementOfSeq
      <4> QED
        BY <4>2, <4>3 DEF NotBlock
    <3>2. Find(s, {"\\"}, 2) = 0
      BY <1>1, <3>1, FindAt
    <3> QED
      BY <3>2 DEF BlockEnd
  <2> QED
    BY <2>1, <2>2
<1>5. SearchPos(s) = 2
  BY <1>4 DEF SearchPos
<1> QED
  BY <1>1, <1>4, <1>5 DEF ReadFrom, s

\* Behind a tag block one character, taken for the start token, is skipped.
LEMMA ReadFromBlock ==
  ASSUME NEW k \in Seq(NotBlock), NEW c \in Character, NEW r \in Seq(Character)
  PROVE  LET p == <<"\\">> \o (k \o (<<"\\">> \o <<c>>))
         IN ReadFrom(p \o r, p, r) /\ BlockEnd(p \o r) = Len(k) + 2 /\ SubSeq(p \o r, 2, Len(k) + 1) = k
<1> DEFINE b == <<"\\">>
           m == b \o <<c>>
           q == k \o m
           p == b \o q
           s == p \o r
<1>1. /\ NotBlock \subseteq Character /\ k \in Seq(Character) /\ Len(k) \in Nat
      /\ b \in Seq(Character) /\ Len(b) = 1 /\ b[1] = "\\" /\ <<c>> \in Seq(Character)
      /\ Len(<<c>>) = 1 /\ Len(r) \in Nat
  <2>1. NotBlock \subseteq Character
    BY DEF NotBlock
  <2>2. k \in Seq(Character)
    BY <2>1, TextFacts
  <2> QED
    BY <2>1, <2>2, Known, OneChar, Joins
<1> HIDE DEF b
<1>2. m \in Seq(Character) /\ Len(m) = 2
  <2>1. m \in Seq(Character) /\ Len(m) = Len(b) + Len(<<c>>)
    BY <1>1, Joins
  <2> QED
    BY <1>1, <2>1
<1>3. m[1] = "\\"
  BY <1>1, ElementOfJoined
<1> HIDE DEF m
<1>4. q \in Seq(Character) /\ Len(q) = Len(k) + 2
  <2>1. q \in Seq(Character) /\ Len(q) = Len(k) + Len(m)
    BY <1>1, <1>2, Joins
  <2> QED
    BY <1>2, <2>1
<1>5. (\A i \in 1..Len(k) : q[i] = k[i]) /\ q[Len(k) + 1] = "\\"
  BY <1>1, <1>2, <1>3, ElementOfJoined, SMTT(60)
<1> HIDE DEF q
<1>6. p \in Seq(Character) /\ Len(p) = Len(k) + 3
  <2>1. p \in Seq(Character) /\ Len(p) = Len(b) + Len(q)
    BY <1>1, <1>4, Joins
  <2> QED
    BY <1>1, <1>4, <2>1
<1>7. p[1] = "\\" /\ \A i \in 1..(Len(k) + 2) : p[1 + i] = q[i]
  <2>1. (\A i \in 1..Len(b) : p[i] = b[i]) /\ \A i \in 1..Len(q) : p[Len(b) + i] = q[i]
    BY <1>1, <1>4, ElementOfJoined
  <2>2. 1 \in 1..Len(b)
    BY <1>1
  <2> QED
    BY <1>1, <1>4, <2>1, <2>2
<1> HIDE DEF p
<1>8. s \in Seq(Character) /\ Len(s) = Len(p) + Len(r)
  BY <1>6, Joins
<1>9. \A i \in 1..Len(p) : s[i] = p[i]
  BY <1>6, ElementOfJoined
<1> HIDE DEF s
<1>10. s[1] = "\\" /\ s[Len(k) + 2] = "\\" /\ \A i \in 1..Len(k) : s[1 + i] = k[i]
  <2>1. /\ 1 \in 1..Len(p) /\ Len(k) + 2 \in 1..Len(p) /\ 1 + (Len(k) + 1) = Len(k) + 2
        /\ Len(k) + 1 \in 1..(Len(k) + 2)
        /\ \A i \in 1..Len(k) : 1 + i \in 1..Len(p) /\ i \in 1..(Len(k) + 2)
    BY <1>1, <1>6
  <2> QED
    BY <1>5, <1>7, <1>9, <2>1
<1>11. Find(s, {"\\"}, 2) = Len(k) + 2
  <2>1. Len(k) + 2 \in 2..Len(s)
    BY <1>1, <1>6, <1>8
  <2>2. ASSUME NEW i \in 2..((Len(k) + 2) - 1) PROVE s[i] \notin {"\\"}
    <3>1. i - 1 \in 1..Len(k) /\ 1 + (i - 1) = i
      BY <1>1
    <3>2. k[i - 1] \in NotBlock
      BY <3>1, ElementOfSeq
    <3> QED
      BY <1>10, <3>1, <3>2 DEF NotBlock
  <2>3. s[Len(k) + 2] \in {"\\"}
    BY <1>10
  <2> QED
    <3>1. 2 \in Nat \ {0}
      OBVIOUS
    <3> QED
      BY <1>8, <2>1, <2>2, <2>3, <3>1, FindAt
<1>12. BlockEnd(s) = Len(k) + 2 /\ SearchPos(s) = Len(k) + 4
  <2>1. BlockEnd(s) = Len(k) + 2
    BY <1>10, <1>11 DEF BlockEnd
  <2> QED
    BY <1>1, <2>1 DEF SearchPos
<1>13. SubSeq(s, 2, Len(k) + 1) = k
  <2> DEFINE z == SubSeq(s, 2, Len(k) + 1)
  <2>1. \A i \in 2..(Len(k) + 1) : s[i] \in Character
    <3>1. \A i \in 2..(Len(k) + 1) : i \in 1..Len(s)
      BY <1>1, <1>6, <1>8
    <3> QED
      BY <1>8, <3>1, ElementOfSeq
  <2>2. /\ z \in Seq(Character) /\ Len(z) = IF 2 <= Len(k) + 1 THEN (Len(k) + 1) - 2 + 1 ELSE 0
        /\ \A i \in 1..((Len(k) + 1) - 2 + 1) : z[i] = s[2 + i - 1]
    BY <1>1, <2>1, SubSeqProperties
  <2> HIDE DEF z
  <2>3. Len(z) = Len(k) /\ (Len(k) + 1) - 2 + 1 = Len(k)
    BY <1>1, <2>2
  <2>4. ASSUME NEW i \in 1..Len(z) PROVE z[i] = k[i]
    <3>1. i \in 1..((Len(k) + 1) - 2 + 1) /\ 2 + i - 1 = 1 + i /\ i \in 1..Len(k)
      BY <1>1, <2>3
    <3> QED
      BY <1>10, <2>2, <3>1
  <2>5. z = k
    BY <1>1, <2>2, <2>3, <2>4, SeqEqual
  <2> QED
    BY <2>5 DEF z
<1>14. (Len(k) + 3) + 1 = Len(k) + 4
  BY <1>1
<1> QED
  BY <1>6, <1>12, <1>13, <1>14 DEF ReadFrom, s, p, q, m, b

-----------------------------------------------------------------------------
\* The middle one of three texts.
LEMMA PartOf ==
  ASSUME NEW p \in Seq(Character), NEW b \in Seq(Character), NEW t \in Seq(Character)
  PROVE  SubSeq(p \o (b \o t), Len(p) + 1, Len(p) + Len(b)) = b
<1> DEFINE q == b \o t
           s == p \o q
           z == SubSeq(s, Len(p) + 1, Len(p) + Len(b))
<1>1. q \in Seq(Character) /\ Len(q) = Len(b) + Len(t) /\ Len(b) \in Nat /\ Len(t) \in Nat /\ Len(p) \in Nat
  BY Joins
<1>2. \A i \in 1..Len(b) : q[i] = b[i]
  BY ElementOfJoined
<1> HIDE DEF q
<1>3. s \in Seq(Character) /\ Len(s) = Len(p) + Len(q)
  BY <1>1, Joins
<1>4. \A i \in 1..Len(q) : s[Len(p) + i] = q[i]
  BY <1>1, ElementOfJoined
<1> HIDE DEF s
<1>5. \A i \in (Len(p) + 1)..(Len(p) + Len(b)) : s[i] \in Character
  <2>1. \A i \in (Len(p) + 1)..(Len(p) + Len(b)) : i \in 1..Len(s)
    BY <1>1, <1>3
  <2> QED
    BY <1>3, <2>1, ElementOfSeq
<1>6. /\ z \in Seq(Character)
      /\ Len(z) = IF Len(p) + 1 <= Len(p) + Len(b) THEN (Len(p) + Len(b)) - (Len(p) + 1) + 1 ELSE 0
      /\ \A i \in 1..((Len(p) + Len(b)) - (Len(p) + 1) + 1) : z[i] = s[(Len(p) + 1) + i - 1]
  BY <1>1, <1>5, SubSeqProperties
<1> HIDE DEF z
<1>7. Len(z) = Len(b) /\ (Len(p) + Len(b)) - (Len(p) + 1) + 1 = Len(b)
  BY <1>1, <1>6
<1>8. ASSUME NEW i \in 1..Len(z) PROVE z[i] = b[i]
  <2>1. /\ i \in 1..((Len(p) + Len(b)) - (Len(p) + 1) + 1) /\ i \in 1..Len(b) /\ i \in 1..Len(q)
        /\ (Len(p) + 1) + i - 1 = Len(p) + i
    BY <1>1, <1>7
  <2> QED
    BY <1>2, <1>4, <1>6, <2>1
<1>9. z = b
  BY <1>6, <1>7, <1>8, SeqEqual
<1> QED
  BY <1>9 DEF z, s, q

\* What is read of a line.
LEMMA RestIs ==
  ASSUME NEW s, NEW p, NEW r, ReadFrom(s, p, r)
  PROVE  /\ s \in Seq(Character) /\ p \in Seq(Character) /\ r \in Seq(Character)
         /\ ParseFields(s, SearchPos(s)) = Fields(r)
         /\ ~(SearchPos(s) > Len(s) + 1)
<1>1. p \in Seq(Character) /\ r \in Seq(Character) /\ s = p \o r /\ SearchPos(s) = Len(p) + 1
  BY DEF ReadFrom
<1>2. s \in Seq(Character) /\ Len(s) = Len(p) + Len(r) /\ Len(p) \in Nat /\ Len(r) \in Nat
  BY <1>1, Joins
<1>3. SubSeq(s, Len(p) + 1, Len(s)) = r
  BY <1>1, SecondPart
<1>4. ParseFields(s, SearchPos(s)) = Fields(r)
  BY <1>1, <1>3 DEF ParseFields, Fields
<1> QED
  BY <1>1, <1>2, <1>4

\* A text that ends two characters behind an end token, its checksum being e.
Summed(r, b, d, e) ==
  /\ r = b \o (<<"*">> \o d) /\ Len(d) = 2
  /\ StoulAccepts(e) /\ Stoul(e) = Checksum(b)

\* A line that passes ensure_checksum.
LEMMA EnsureMeans ==
  ASSUME NEW s, NEW p, NEW r, ReadFrom(s, p, r), NEW e,
         EnsureChecksum(s, e, SearchPos(s)) = "ok"
  PROVE  \E b \in Seq(NotStar), d \in Seq(Character) : Summed(r, b, d, e)
<1> DEFINE from == SearchPos(s)
           star == Find(s, {"*"}, from)
<1>1. /\ p \in Seq(Character) /\ r \in Seq(Character) /\ s = p \o r /\ from = Len(p) + 1
      /\ s \in Seq(Character) /\ Len(s) = Len(p) + Len(r) /\ Len(p) \in Nat /\ Len(r) \in Nat
  BY Joins DEF ReadFrom
<1>2. /\ star # 0 /\ Len(s) = star + 2 /\ StoulAccepts(e)
      /\ Stoul(e) = Checksum(SubSeq(s, from, star - 1))
  BY DEF EnsureChecksum
<1>3. /\ star \in from..Len(s) /\ s[star] \in {"*"}
      /\ \A i \in from..(star - 1) : s[i] \notin {"*"}
  <2>1. from \in Nat \ {0}
    BY <1>1
  <2> HIDE DEF from
  <2> QED
    BY <1>1, <1>2, <2>1, FindIs
<1> HIDE DEF star, from
<1> DEFINE j == star - Len(p)
<1>4. j \in 1..Len(r) /\ star = Len(p) + j /\ j - 1 \in 0..Len(r) /\ j \in 0..Len(r) /\ 1 \in 1..Len(r)
  BY <1>1, <1>3
<1> HIDE DEF j
<1>5. \A i \in 1..Len(r) : s[Len(p) + i] = r[i]
  BY <1>1, ElementOfJoined
<1>6. r[j] = "*" /\ \A i \in 1..(j - 1) : r[i] # "*"
  <2>1. r[j] = "*"
    BY <1>3, <1>4, <1>5
  <2>2. ASSUME NEW i \in 1..(j - 1) PROVE r[i] # "*"
    <3>1. i \in 1..Len(r) /\ Len(p) + i \in from..(star - 1)
      BY <1>1, <1>4
    <3> QED
      BY <1>3, <1>5, <3>1
  <2> QED
    BY <2>1, <2>2
<1> DEFINE b == SubSeq(r, 1, j - 1)
           d == SubSeq(r, j + 1, Len(r))
<1>7. b \in Seq(Character) /\ Len(b) = j - 1 /\ \A i \in 1..(j - 1) : b[i] = r[i]
  BY <1>1, <1>4, CutInTwo
<1>8. d \in Seq(Character) /\ Len(d) = Len(r) - j /\ r = SubSeq(r, 1, j) \o d
  BY <1>1, <1>4, CutInTwo
<1>9. SubSeq(r, 1, j) = b \o <<"*">>
  <2>1. SubSeq(r, 1, j) = SubSeq(r, 1, j - 1) \o <<r[j]>>
    <3>1. j \in 1..Len(r) /\ 1 \in 1..Len(r) /\ j \in 1..j
      BY <1>4
    <3> QED
      BY <1>1, <3>1, SubSeqRecursiveSecond
  <2> QED
    BY <1>6, <2>1
<1> HIDE DEF b, d
<1>10. b \in Seq(NotStar)
  <2>1. NotStar \in SUBSET Character
    BY DEF NotStar
  <2>2. \A i \in 1..Len(b) : b[i] \in NotStar
    <3>1. \A i \in 1..Len(b) : b[i] \in Character
      BY <1>7, ElementOfSeq
    <3> QED
      BY <1>6, <1>7, <3>1 DEF NotStar
  <2> QED
    BY <1>7, <2>1, <2>2, Without
<1> DEFINE c == <<"*">>
<1>11. c \in Seq(Character)
  BY Known, OneChar
<1>12. r = (b \o c) \o d
  BY <1>8, <1>9
<1> HIDE DEF c
<1>13. r = b \o (c \o d) /\ c \o d \in Seq(Character)
  BY <1>7, <1>8, <1>11, <1>12, Assoc, Joins, ZenonT(60)
<1>14. SubSeq(p \o (b \o (c \o d)), Len(p) + 1, Len(p) + Len(b)) = b
  BY <1>1, <1>7, <1>13, PartOf
<1>15. Len(p) + Len(b) = star - 1 /\ Len(d) = 2
  BY <1>1, <1>2, <1>4, <1>7, <1>8, SMTT(60)
<1>16. SubSeq(s, from, star - 1) = b
  BY <1>1, <1>13, <1>14, <1>15
<1> QED
  BY <1>2, <1>8, <1>10, <1>13, <1>15, <1>16 DEF c, Summed

\* And the other way round.
LEMMA EnsureAt ==
  ASSUME NEW s, NEW p, NEW b \in Seq(NotStar), NEW d \in Seq(Character), Len(d) = 2,
         ReadFrom(s, p, b \o (<<"*">> \o d)),
         NEW e, StoulAccepts(e), Stoul(e) = Checksum(b)
  PROVE  EnsureChecksum(s, e, SearchPos(s)) = "ok"
<1> DEFINE c == <<"*">>
           m == c \o d
           r == b \o m
           from == SearchPos(s)
<1>1. NotStar \in SUBSET Character /\ b \in Seq(Character) /\ Len(b) \in Nat
  <2>1. NotStar \subseteq Character
    BY DEF NotStar
  <2>2. b \in Seq(Character)
    BY <2>1, TextFacts
  <2> QED
    BY <2>1, <2>2, Joins
<1>2. c \in Seq(Character) /\ Len(c) = 1 /\ c[1] = "*"
  BY Known, OneChar
<1> HIDE DEF c
<1>3. m \in Seq(Character) /\ Len(m) = 1 + 2
  BY <1>2, Joins
<1>4. m[1] = "*"
  <2>1. 1 \in 1..Len(c)
    BY <1>2
  <2> QED
    BY <1>2, <2>1, ElementOfJoined
<1> HIDE DEF m
<1>5. r \in Seq(Character) /\ Len(r) = Len(b) + Len(m)
  BY <1>1, <1>3, Joins
<1>6. (\A i \in 1..Len(b) : r[i] = b[i]) /\ r[Len(b) + 1] = "*"
  <2>1. 1 \in 1..Len(m)
    BY <1>3
  <2> QED
    BY <1>1, <1>3, <1>4, <2>1, ElementOfJoined
<1>7. p \in Seq(Character) /\ s = p \o r /\ from = Len(p) + 1
  BY DEF ReadFrom, c, m
<1>8. SubSeq(p \o (b \o m), Len(p) + 1, Len(p) + Len(b)) = b
  BY <1>1, <1>3, <1>7, PartOf
<1>9. SubSeq(s, from, Len(p) + Len(b)) = b
  BY <1>7, <1>8
<1> HIDE DEF r
<1>10. s \in Seq(Character) /\ Len(s) = Len(p) + Len(r) /\ Len(p) \in Nat
  BY <1>5, <1>7, Joins
<1>11. \A i \in 1..Len(r) : s[Len(p) + i] = r[i]
  BY <1>5, <1>7, ElementOfJoined
<1> DEFINE star == (Len(p) + Len(b)) + 1
<1>12. Find(s, {"*"}, from) = star
  <2>1. star \in from..Len(s) /\ from \in Nat \ {0}
    BY <1>1, <1>3, <1>5, <1>7, <1>10
  <2>2. s[star] \in {"*"}
    <3>1. star = Len(p) + (Len(b) + 1) /\ Len(b) + 1 \in 1..Len(r)
      BY <1>1, <1>3, <1>5, <1>10
    <3> QED
      BY <1>6, <1>11, <3>1
  <2>3. ASSUME NEW i \in from..(star - 1) PROVE s[i] \notin {"*"}
    <3>1. i - Len(p) \in 1..Len(b) /\ Len(p) + (i - Len(p)) = i /\ i - Len(p) \in 1..Len(r)
      BY <1>1, <1>3, <1>5, <1>7, <1>10
    <3>2. s[i] = b[i - Len(p)]
      BY <1>6, <1>11, <3>1
    <3>3. b[i - Len(p)] \in NotStar
      BY <3>1, ElementOfSeq
    <3> QED
      BY <3>2, <3>3 DEF NotStar
  <2> HIDE DEF star, from
  <2> QED
    BY <1>10, <2>1, <2>2, <2>3, FindAt
<1>13. Len(s) = star + 2 /\ star - 1 = Len(p) + Len(b) /\ star # 0
  BY <1>1, <1>3, <1>5, <1>10
<1> HIDE DEF star, from
<1>14. EnsureChecksum(s, e, from) = "ok"
  BY <1>9, <1>12, <1>13 DEF EnsureChecksum
<1> QED
  BY <1>14 DEF from

-----------------------------------------------------------------------------
\* What the bytes of a tag block are to make_sentence.
BlockOf(s) == IF BlockEnd(s) = 0 THEN << >> ELSE SubSeq(s, 2, BlockEnd(s) - 1)

\* An address has one meaning.
LEMMA AddressOne ==
  ASSUME NEW a, NEW x \in Address(a), NEW y \in Address(a)
  PROVE  x = y
<1> DEFINE e == [talker |-> << >>, tag |-> a]
           tag == SubSeq(a, TALKER_LENGTH + 1, Len(a))
           talker == SubSeq(a, 1, TALKER_LENGTH)
           f == [talker |-> IF talker \in Talkers THEN talker ELSE << >>, tag |-> tag]
<1>1. Address(a) \in {{e}, {f}, {}}
  BY DEF Address
<1> HIDE DEF e, f
<1> QED
  BY <1>1

\* A line make_sentence accepts.
LEMMA AcceptedMeans ==
  ASSUME NEW s, NEW p, NEW r, ReadFrom(s, p, r), NEW h, MakeSentence(s, h).how = "ok"
  PROVE  LET m == MakeSentence(s, h).sentence
             fs == Fields(r)
         IN /\ Head(s) \in {"$", "!", "\\"} /\ Len(fs) >= 2
            /\ \E a \in Address(fs[1]) :
                 m = [talker |-> a.talker, tag |-> a.tag,
                      fields |-> SubSeq(fs, 2, Len(fs) - 1), block |-> BlockOf(s)]
            /\ Len(m.fields) \in FieldCount(m.tag)
            /\ h = "check" => EnsureChecksum(s, Last(fs), SearchPos(s)) = "ok"
<1> DEFINE from == SearchPos(s)
           fs == Fields(r)
           address == Address(fs[1])
           data == SubSeq(fs, 2, Len(fs) - 1)
           checked == IF h = "check" THEN EnsureChecksum(s, Last(fs), from) ELSE "ok"
           a == CHOOSE x \in address : TRUE
           M == MakeSentence(s, h)
<1>1. ParseFields(s, from) = fs /\ ~(from > Len(s) + 1)
  BY RestIs
<1>2. \A w : w # "ok" => Refused(w).how # "ok"
  BY DEF Refused
<1>3. M = IF s = << >> \/ Head(s) \notin {"$", "!", "\\"} THEN Refused("invalid_argument")
          ELSE IF Len(fs) < 2 THEN Refused("invalid_argument")
          ELSE IF checked # "ok" THEN Refused(checked)
          ELSE IF address = {} \/ \A x \in address : Len(data) \notin FieldCount(x.tag)
            THEN Refused("invalid_argument")
          ELSE [how |-> "ok", sentence |->
                  [talker |-> a.talker, tag |-> a.tag, fields |-> data, block |-> BlockOf(s)]]
  <2> HIDE DEF fs, from
  <2> QED
    BY <1>1 DEF MakeSentence, BlockOf, from
<1> HIDE DEF fs, address, data, checked, a, from
<1>4. M.how = "ok"
  OBVIOUS
<1> HIDE DEF M
<1>5. Head(s) \in {"$", "!", "\\"} /\ ~(Len(fs) < 2) /\ checked = "ok" /\ address # {}
  BY <1>2, <1>3, <1>4
<1>6. M = [how |-> "ok", sentence |->
             [talker |-> a.talker, tag |-> a.tag, fields |-> data, block |-> BlockOf(s)]]
  BY <1>2, <1>3, <1>4
<1>7. a \in address
  BY <1>5 DEF a
<1>8. M.sentence = [talker |-> a.talker, tag |-> a.tag, fields |-> data, block |-> BlockOf(s)]
  BY <1>6
<1>11. Len(M.sentence.fields) \in FieldCount(M.sentence.tag)
  <2>1. PICK x \in address : Len(data) \in FieldCount(x.tag)
    BY <1>2, <1>3, <1>4
  <2>2. x = a
    BY <1>7, <2>1, AddressOne DEF address
  <2>3. M.sentence.fields = data /\ M.sentence.tag = a.tag
    BY <1>8
  <2> QED
    BY <2>1, <2>2, <2>3
<1>9. Len(fs) \in Nat
  <2>1. fs \in FieldLists
    BY RestIs, FieldsAppend DEF fs
  <2> QED
    BY <2>1, LenProperties DEF FieldLists
<1>10. Len(fs) >= 2
  BY <1>5, <1>9
<1> QED
  BY <1>5, <1>7, <1>8, <1>10, <1>11 DEF fs, address, data, checked, from, M

\* And the other way round.
LEMMA Accepts ==
  ASSUME NEW s, NEW p, NEW r, ReadFrom(s, p, r), NEW h, s # << >>,
         Head(s) \in {"$", "!", "\\"}, Len(Fields(r)) >= 2,
         NEW a, Address(Fields(r)[1]) = {a},
         NEW data, data = SubSeq(Fields(r), 2, Len(Fields(r)) - 1),
         Len(data) \in FieldCount(a.tag),
         h = "check" => EnsureChecksum(s, Last(Fields(r)), SearchPos(s)) = "ok"
  PROVE  MakeSentence(s, h) =
           [how |-> "ok", sentence |->
              [talker |-> a.talker, tag |-> a.tag, fields |-> data, block |-> BlockOf(s)]]
<1> DEFINE from == SearchPos(s)
           fs == Fields(r)
           checked == IF h = "check" THEN EnsureChecksum(s, Last(fs), from) ELSE "ok"
<1>1. ParseFields(s, from) = fs /\ ~(from > Len(s) + 1)
  BY RestIs
<1>2. checked = "ok"
  OBVIOUS
<1>3. Len(fs) \in Nat /\ ~(Len(fs) < 2)
  <2>1. fs \in FieldLists
    BY RestIs, FieldsAppend
  <2>2. Len(fs) \in Nat
    BY <2>1, LenProperties DEF FieldLists
  <2> HIDE DEF fs
  <2>3. Len(fs) >= 2
    BY DEF fs
  <2> QED
    BY <2>2, <2>3
<1>4. (CHOOSE x \in {a} : TRUE) = a
  OBVIOUS
<1>5. Address(fs[1]) = {a} /\ data = SubSeq(fs, 2, Len(fs) - 1)
  OBVIOUS
<1> HIDE DEF fs, from
<1>6. MakeSentence(s, h) =
        [how |-> "ok", sentence |->
              [talker |-> (CHOOSE x \in {a} : TRUE).talker, tag |-> (CHOOSE x \in {a} : TRUE).tag,
               fields |-> data, block |-> BlockOf(s)]]
  BY <1>1, <1>2, <1>3, <1>5 DEF MakeSentence, BlockOf, from
<1> QED
  BY <1>4, <1>6

-----------------------------------------------------------------------------
NotSpecial == Character \ Special

\* What the assumptions say of the tags and the talkers.
LEMMA TagFacts ==
  /\ TALKER_LENGTH \in {1, 2} /\ TAG_LENGTH \in Nat
  /\ NotSpecial \subseteq Plain /\ NotSpecial \subseteq Character
  /\ \A tag \in Tags : tag \in Seq(NotSpecial) /\ Len(tag) >= TALKER_LENGTH
  /\ \A talker \in Talkers : talker \in Seq(NotSpecial) /\ Len(talker) = TALKER_LENGTH
<1>1. NotSpecial \subseteq Plain /\ NotSpecial \subseteq Character
  BY DEF NotSpecial, Plain, Special
<1> QED
  BY <1>1, AddressAssumption DEF NotSpecial

\* The last characters of an address are a tag, so that no token and no delimiter
\* is among them; it is not shorter than a talker.
LEMMA AddressSpecial ==
  ASSUME NEW a \in Seq(Character), Address(a) # {}
  PROVE  /\ \A i \in 1..Len(a) : i > TALKER_LENGTH => a[i] \notin Special
         /\ Len(a) >= TALKER_LENGTH /\ Len(a) \in Nat
<1>1. Len(a) \in Nat
  BY LenProperties
<1>2. CASE a \in Tags
  <2>1. a \in Seq(NotSpecial) /\ Len(a) >= TALKER_LENGTH
    BY <1>2, TagFacts
  <2>2. \A i \in 1..Len(a) : a[i] \in NotSpecial
    BY <2>1, ElementOfSeq
  <2> QED
    BY <1>1, <2>1, <2>2 DEF NotSpecial
<1>3. CASE a \notin Tags
  <2> DEFINE tag == SubSeq(a, TALKER_LENGTH + 1, Len(a))
  <2>1. Len(a) = TALKER_LENGTH + TAG_LENGTH /\ tag \in Tags
    BY <1>3 DEF Address
  <2>2. TALKER_LENGTH \in Nat /\ TAG_LENGTH \in Nat /\ TALKER_LENGTH \in 0..Len(a)
        /\ Len(a) >= TALKER_LENGTH
    BY <2>1, TagFacts
  <2>3. Len(tag) = Len(a) - TALKER_LENGTH /\ \A i \in 1..(Len(a) - TALKER_LENGTH) : tag[i] = a[TALKER_LENGTH + i]
    BY <2>2, CutInTwo
  <2>4. tag \in Seq(NotSpecial)
    BY <2>1, TagFacts
  <2> HIDE DEF tag
  <2>5. ASSUME NEW i \in 1..Len(a), i > TALKER_LENGTH PROVE a[i] \notin Special
    <3>1. i - TALKER_LENGTH \in 1..Len(tag) /\ TALKER_LENGTH + (i - TALKER_LENGTH) = i
      BY <1>1, <2>2, <2>3, <2>5
    <3>2. tag[i - TALKER_LENGTH] \in NotSpecial
      BY <2>4, <3>1, ElementOfSeq
    <3> QED
      BY <2>3, <3>1, <3>2 DEF NotSpecial
  <2> QED
    BY <1>1, <2>2, <2>5
<1> QED
  BY <1>2, <1>3

\* A tag, and a talker with a tag, are addresses.
LEMMA AddressKnown ==
  ASSUME NEW tag \in Tags, NEW talker,
         talker = << >> \/ (talker \in Talkers /\ Len(tag) = TAG_LENGTH)
  PROVE  /\ talker \o tag \in Seq(NotSpecial)
         /\ Address(talker \o tag) = {[talker |-> talker, tag |-> tag]}
<1>1. tag \in Seq(NotSpecial) /\ TALKER_LENGTH \in Nat /\ TAG_LENGTH \in Nat
  BY TagFacts
<1>2. CASE talker = << >>
  <2>1. << >> \o tag = tag
    BY <1>1, ConcatEmptySeq
  <2>2. Address(tag) = {[talker |-> << >>, tag |-> tag]}
    BY DEF Address
  <2> QED
    BY <1>1, <1>2, <2>1, <2>2
<1>3. CASE talker \in Talkers /\ Len(tag) = TAG_LENGTH
  <2> DEFINE a == talker \o tag
  <2>1. talker \in Seq(NotSpecial) /\ Len(talker) = TALKER_LENGTH
    BY <1>3, TagFacts
  <2>2. a \in Seq(NotSpecial) /\ Len(a) = TALKER_LENGTH + TAG_LENGTH
    <3>1. \A s, t \in Seq(NotSpecial) : s \o t \in Seq(NotSpecial) /\ Len(s \o t) = Len(s) + Len(t)
      BY TextFacts
    <3> QED
      BY <1>1, <1>3, <2>1, <3>1
  <2>3. SubSeq(a, 1, TALKER_LENGTH) = talker /\ SubSeq(a, TALKER_LENGTH + 1, Len(a)) = tag
    BY <1>1, <2>1, SecondPart
  <2>4. a \notin Tags
    BY <1>3, AddressAssumption
  <2> HIDE DEF a
  <2>5. Address(a) = {[talker |-> talker, tag |-> tag]}
    BY <1>3, <2>2, <2>3, <2>4 DEF Address
  <2> QED
    BY <2>2, <2>5 DEF a
<1> QED
  BY <1>2, <1>3

\* What an address means can be written and means the same.
LEMMA AddressMeans ==
  ASSUME NEW a \in Seq(Character), NEW x \in Address(a)
  PROVE  /\ x = [talker |-> x.talker, tag |-> x.tag] /\ x.tag \in Tags
         /\ x.talker \o x.tag \in Seq(NotSpecial)
         /\ Address(x.talker \o x.tag) = {x} /\ Address(a) = {x}
<1>1. Address(a) = {x}
  BY AddressOne
<1>2. CASE a \in Tags
  <2>1. x = [talker |-> << >>, tag |-> a]
    BY <1>2 DEF Address
  <2>2. x.talker = << >> /\ x.tag = a /\ x = [talker |-> x.talker, tag |-> x.tag]
    BY <2>1
  <2> QED
    BY <1>1, <1>2, <2>2, AddressKnown
<1>3. CASE a \notin Tags
  <2> DEFINE talker == SubSeq(a, 1, TALKER_LENGTH)
             tag == SubSeq(a, TALKER_LENGTH + 1, Len(a))
             known == IF talker \in Talkers THEN talker ELSE << >>
  <2>1. /\ Len(a) = TALKER_LENGTH + TAG_LENGTH /\ tag \in Tags
        /\ x = [talker |-> known, tag |-> tag]
    BY <1>3 DEF Address
  <2>2. TALKER_LENGTH \in 0..Len(a) /\ TALKER_LENGTH \in Nat /\ TAG_LENGTH \in Nat
    BY <2>1, TagFacts
  <2>3. Len(tag) = Len(a) - TALKER_LENGTH
    BY <2>2, CutInTwo
  <2>4. Len(tag) = TAG_LENGTH
    BY <2>1, <2>2, <2>3
  <2>5. known = << >> \/ (known \in Talkers /\ Len(tag) = TAG_LENGTH)
    BY <2>4
  <2> HIDE DEF talker, tag, known
  <2>6. x.talker = known /\ x.tag = tag /\ x = [talker |-> x.talker, tag |-> x.tag]
    BY <2>1
  <2> QED
    BY <1>1, <2>1, <2>5, <2>6, AddressKnown
<1> QED
  BY <1>2, <1>3

-----------------------------------------------------------------------------
\* A sentence that can be written: its address is one, its fields have no
\* delimiters and are as many as they should be.
Writable(m) ==
  /\ m.talker \o m.tag \in Seq(NotSpecial)
  /\ Address(m.talker \o m.tag) = {[talker |-> m.talker, tag |-> m.tag]}
  /\ m.fields \in Seq(Seq(Plain))
  /\ Len(m.fields) \in FieldCount(m.tag)

\* What is between the start token and the end token of such a sentence.
LEMMA BodyIs ==
  ASSUME NEW m, Writable(m)
  PROVE  /\ Body(m) \in Seq(NotStar) /\ Body(m) \in Seq(Character)
         /\ Fields(Body(m)) = <<m.talker \o m.tag>> \o m.fields
<1> DEFINE a == m.talker \o m.tag
           fs == m.fields
<1>1. a \in Seq(NotSpecial) /\ fs \in Seq(Seq(Plain))
  BY DEF Writable
<1>2. Body(m) = a \o Joined(fs)
  BY DEF Body
<1> HIDE DEF a, fs
<1>3. /\ NotSpecial \subseteq Plain /\ NotSpecial \subseteq NotStar /\ Plain \subseteq NotStar
      /\ NotStar \subseteq Character /\ "," \in NotStar
  BY Known, TagFacts DEF NotSpecial, NotStar, Plain, Special, Delimiters
<1>4. a \in Seq(Plain) /\ a \in Seq(NotStar)
  BY <1>1, <1>3, TextFacts
<1>5. fs \in Seq(Seq(NotStar))
  <2>1. Seq(Plain) \subseteq Seq(NotStar)
    BY <1>3, TextFacts
  <2> QED
    BY <1>1, <2>1, SeqMonotonic
<1>6. Joined(fs) \in Seq(NotStar)
  <2>1. << >> \in Seq(NotStar)
    BY EmptySeq
  <2> QED
    BY <1>3, <1>5, <2>1, JoinedIs
<1>7. Body(m) \in Seq(NotStar)
  BY <1>2, <1>4, <1>6, TextFacts
<1>8. Body(m) \in Seq(Character)
  BY <1>3, <1>7, TextFacts
<1>9. Fields(Body(m)) = <<a>> \o fs
  BY <1>1, <1>2, <1>4, FieldsOfJoined
<1> QED
  BY <1>7, <1>8, <1>9 DEF a, fs

\* The text behind a body: the end token and its checksum.
Ending(m) == <<"*">> \o ChecksumText(Checksum(Body(m)))

\* They are two digits.
LEMMA EndingIs ==
  ASSUME NEW m, Writable(m)
  PROVE  LET d == ChecksumText(Checksum(Body(m)))
         IN /\ d \in Seq(DigitSet) /\ d \in Seq(Plain) /\ d \in Seq(Character) /\ Len(d) = 2
            /\ StoulAccepts(d) /\ Stoul(d) = Checksum(Body(m))
            /\ Ending(m) \in Seq(Character) /\ Len(Ending(m)) = 3
<1> DEFINE n == Checksum(Body(m))
           d == ChecksumText(n)
<1>1. n \in Nat /\ n < RADIX * RADIX
  BY BodyIs, ChecksumIs
<1>2. d \in Seq(DigitSet) /\ Len(d) = 2 /\ StoulAccepts(d) /\ Stoul(d) = n
  <2> HIDE DEF n
  <2> QED
    BY <1>1, ChecksumDigits
<1>3. DigitSet \subseteq Plain /\ DigitSet \subseteq Character
  BY DigitsAssumption DEF Plain, Special
<1> HIDE DEF d
<1>4. d \in Seq(Plain) /\ d \in Seq(Character)
  BY <1>2, <1>3, TextFacts
<1>5. <<"*">> \in Seq(Character) /\ Len(<<"*">>) = 1
  BY Known, OneChar
<1>6. Ending(m) = <<"*">> \o d
  BY DEF Ending, d, n
<1>7. Ending(m) \in Seq(Character) /\ Len(Ending(m)) = 1 + 2
  BY <1>2, <1>4, <1>5, <1>6, Joins
<1> QED
  BY <1>2, <1>4, <1>7 DEF d, n

\* A line that is read from its body on gives the sentence back.
LEMMA WrittenReadBack ==
  ASSUME NEW m, Writable(m), NEW s, NEW p, ReadFrom(s, p, Body(m) \o Ending(m)),
         s # << >>, Head(s) \in {"$", "!", "\\"}, NEW h
  PROVE  MakeSentence(s, h) =
           [how |-> "ok", sentence |->
              [talker |-> m.talker, tag |-> m.tag, fields |-> m.fields, block |-> BlockOf(s)]]
<1> DEFINE b == Body(m)
           d == ChecksumText(Checksum(b))
           e == <<"*">> \o d
           r == b \o e
           a == m.talker \o m.tag
           x == [talker |-> m.talker, tag |-> m.tag]
           fs == m.fields
           A == <<a>>
           E == <<d>>
           F == Fields(r)
<1>1. /\ b \in Seq(NotStar) /\ b \in Seq(Character) /\ Fields(b) = A \o fs
      /\ d \in Seq(Plain) /\ d \in Seq(Character) /\ Len(d) = 2
      /\ StoulAccepts(d) /\ Stoul(d) = Checksum(b)
      /\ fs \in Seq(Seq(Plain)) /\ a \in Seq(Plain)
      /\ Address(a) = {x} /\ Len(fs) \in FieldCount(x.tag)
  <2>1. a \in Seq(NotSpecial) /\ fs \in Seq(Seq(Plain)) /\ Address(a) = {x} /\ Len(fs) \in FieldCount(x.tag)
    BY DEF Writable
  <2>2. a \in Seq(Plain)
    BY <2>1, TagFacts, TextFacts
  <2> HIDE DEF a, fs, x
  <2>3. b \in Seq(NotStar) /\ b \in Seq(Character) /\ Fields(b) = A \o fs
    BY BodyIs DEF a, fs
  <2>4. /\ d \in Seq(Plain) /\ d \in Seq(Character) /\ Len(d) = 2
        /\ StoulAccepts(d) /\ Stoul(d) = Checksum(b)
    BY EndingIs
  <2> QED
    BY <2>1, <2>2, <2>3, <2>4
<1>2. ReadFrom(s, p, b \o (<<"*">> \o d))
  BY DEF Ending
<1>3. A \in Seq(Seq(Plain)) /\ E \in Seq(Seq(Plain)) /\ Len(A) = 1 /\ Len(E) = 1 /\ A[1] = a /\ E[1] = d
  <2>1. \A y \in Seq(Plain) : <<y>> \in Seq(Seq(Plain)) /\ Len(<<y>>) = 1 /\ <<y>>[1] = y
    OBVIOUS
  <2> HIDE DEF a, d
  <2> QED
    BY <1>1, <2>1
<1>4. F = (A \o fs) \o E
  <2>1. <<"*">> \in Seq(Character) /\ "*" \in Delimiters
    BY Known, OneChar DEF Delimiters
  <2>2. r = (b \o <<"*">>) \o d
    BY <1>1, <2>1, Assoc
  <2>3. Fields((b \o <<"*">>) \o d) = Fields(b) \o Fields(d)
    BY <1>1, <2>1, FieldsJoined
  <2>4. Fields(d) = E
    BY <1>1, FieldsPlain
  <2> QED
    BY <1>1, <2>2, <2>3, <2>4
<1> HIDE DEF b, d, e, r, a, x, fs, A, E, F
<1>5. (A \o fs) \o E = A \o (fs \o E)
  <2>1. \A u, v, w \in Seq(Seq(Plain)) : (u \o v) \o w = u \o (v \o w)
    BY TextFacts
  <2> QED
    BY <1>1, <1>3, <2>1
<1> DEFINE T == fs \o E
<1>6. T \in Seq(Seq(Plain)) /\ Len(T) = Len(fs) + 1 /\ Len(fs) \in Nat
      /\ (\A i \in 1..Len(fs) : T[i] = fs[i]) /\ T[Len(fs) + 1] = d
  <2>1. /\ T \in Seq(Seq(Plain)) /\ Len(T) = Len(fs) + Len(E) /\ Len(fs) \in Nat
        /\ \A i \in 1..(Len(fs) + Len(E)) : T[i] = IF i <= Len(fs) THEN fs[i] ELSE E[i - Len(fs)]
    BY <1>1, <1>3, ConcatProperties, LenProperties
  <2> HIDE DEF T
  <2>2. Len(fs) + 1 \in 1..(Len(fs) + Len(E)) /\ ~(Len(fs) + 1 <= Len(fs)) /\ (Len(fs) + 1) - Len(fs) = 1
    BY <1>3, <2>1
  <2> QED
    BY <1>3, <2>1, <2>2
<1> HIDE DEF T
<1>7. F = A \o T
  BY <1>4, <1>5 DEF T
<1>8. /\ F \in Seq(Seq(Plain)) /\ Len(F) = Len(fs) + 2 /\ F[1] = a
      /\ (\A i \in 1..Len(fs) : F[1 + i] = fs[i]) /\ F[Len(fs) + 2] = d
  <2>1. /\ F \in Seq(Seq(Plain)) /\ Len(F) = Len(A) + Len(T)
        /\ \A i \in 1..(Len(A) + Len(T)) : F[i] = IF i <= Len(A) THEN A[i] ELSE T[i - Len(A)]
    BY <1>3, <1>6, <1>7, ConcatProperties
  <2>2. Len(F) = Len(fs) + 2 /\ F[1] = a
    BY <1>3, <1>6, <2>1
  <2>3. ASSUME NEW i \in 1..(Len(fs) + 1) PROVE F[1 + i] = T[i]
    <3>1. 1 + i \in 1..(Len(A) + Len(T)) /\ ~(1 + i <= Len(A)) /\ (1 + i) - Len(A) = i
      BY <1>3, <1>6
    <3> QED
      BY <2>1, <3>1
  <2>4. Len(fs) + 1 \in 1..(Len(fs) + 1) /\ 1 + (Len(fs) + 1) = Len(fs) + 2
        /\ \A i \in 1..Len(fs) : i \in 1..(Len(fs) + 1)
    BY <1>6
  <2> QED
    BY <1>6, <2>1, <2>2, <2>3, <2>4
<1>9. Last(F) = d /\ Len(F) >= 2
  BY <1>6, <1>8 DEF Last
<1>10. SubSeq(F, 2, Len(F) - 1) = fs
  <2> DEFINE z == SubSeq(F, 2, Len(F) - 1)
  <2>1. Len(F) - 1 = Len(fs) + 1
    BY <1>6, <1>8
  <2>2. \A i \in 2..(Len(fs) + 1) : F[i] \in Seq(Plain)
    <3>1. \A i \in 2..(Len(fs) + 1) : i \in 1..Len(F)
      BY <1>6, <1>8
    <3> QED
      BY <1>8, <3>1, ElementOfSeq
  <2>3. /\ SubSeq(F, 2, Len(fs) + 1) \in Seq(Seq(Plain))
        /\ Len(SubSeq(F, 2, Len(fs) + 1)) = IF 2 <= Len(fs) + 1 THEN (Len(fs) + 1) - 2 + 1 ELSE 0
        /\ \A i \in 1..((Len(fs) + 1) - 2 + 1) : SubSeq(F, 2, Len(fs) + 1)[i] = F[2 + i - 1]
    <3>1. 2 \in Int /\ Len(fs) + 1 \in Int
      BY <1>6
    <3> QED
      BY <1>8, <2>2, <3>1, SubSeqProperties
  <2> DEFINE y == SubSeq(F, 2, Len(fs) + 1)
  <2>4. y \in Seq(Seq(Plain)) /\ Len(y) = Len(fs)
    BY <1>6, <2>3
  <2>5. ASSUME NEW i \in 1..Len(y) PROVE y[i] = fs[i]
    <3>1. i \in 1..Len(fs) /\ i \in 1..((Len(fs) + 1) - 2 + 1) /\ 2 + i - 1 = 1 + i
      BY <1>6, <2>4
    <3> QED
      BY <1>8, <2>3, <3>1
  <2> HIDE DEF y
  <2>6. y = fs
    BY <1>1, <2>4, <2>5, SeqEqual
  <2> QED
    BY <2>1, <2>6 DEF y
<1>11. ReadFrom(s, p, r)
  BY <1>2 DEF r, e
<1>12. EnsureChecksum(s, Last(F), SearchPos(s)) = "ok"
  BY <1>1, <1>2, <1>9, EnsureAt
<1>13. MakeSentence(s, h) =
         [how |-> "ok", sentence |->
            [talker |-> x.talker, tag |-> x.tag, fields |-> fs, block |-> BlockOf(s)]]
  <2>1. Address(F[1]) = {x} /\ fs = SubSeq(F, 2, Len(F) - 1) /\ Len(fs) \in FieldCount(x.tag)
        /\ Len(F) >= 2 /\ (h = "check" => EnsureChecksum(s, Last(F), SearchPos(s)) = "ok")
    BY <1>1, <1>8, <1>9, <1>10, <1>12
  <2> QED
    BY <1>11, <2>1, Accepts, SMTT(60) DEF F
<1>14. x.talker = m.talker /\ x.tag = m.tag
  BY DEF x
<1> QED
  BY <1>13, <1>14 DEF fs

-----------------------------------------------------------------------------
\* A line that is accepted is read from somewhere.
LEMMA AcceptedLine ==
  ASSUME NEW s \in Seq(Character), NEW h, MakeSentence(s, h).how = "ok"
  PROVE  /\ s # << >> /\ Head(s) \in {"$", "!", "\\"}
         /\ \E p, r \in Seq(Character) : ReadFrom(s, p, r) /\ Len(p) > 0
<1>1. s # << >> /\ Head(s) \in {"$", "!", "\\"} /\ ~(SearchPos(s) > Len(s) + 1)
  <2>1. \A w : w # "ok" => Refused(w).how # "ok"
    BY DEF Refused
  <2> QED
    BY <2>1 DEF MakeSentence
<1>2. SearchPos(s) \in Nat /\ SearchPos(s) >= 2 /\ Len(s) \in Nat
  <2>1. Len(s) \in Nat
    BY LenProperties
  <2>2. BlockEnd(s) = 0 \/ BlockEnd(s) \in 2..Len(s)
    <3>1. 2 \in Nat \ {0}
      OBVIOUS
    <3>2. Find(s, {"\\"}, 2) = 0 \/ Find(s, {"\\"}, 2) \in 2..Len(s)
      BY <3>1, FindIs
    <3> QED
      BY <3>2 DEF BlockEnd
  <2> QED
    BY <2>1, <2>2 DEF SearchPos
<1> DEFINE k == SearchPos(s) - 1
           p == SubSeq(s, 1, k)
           r == SubSeq(s, k + 1, Len(s))
<1>3. k \in 0..Len(s) /\ k > 0 /\ SearchPos(s) = k + 1
  BY <1>1, <1>2
<1> HIDE DEF k
<1>4. p \in Seq(Character) /\ Len(p) = k /\ r \in Seq(Character) /\ s = p \o r
  BY <1>3, CutInTwo
<1> HIDE DEF p, r
<1>5. ReadFrom(s, p, r)
  BY <1>3, <1>4 DEF ReadFrom
<1> QED
  BY <1>1, <1>3, <1>4, <1>5

\* extract_id takes the same tag from a line as make_sentence, or none.
LEMMA ExtractAgrees ==
  ASSUME NEW s, NEW p, NEW r, ReadFrom(s, p, r), Len(p) > 0, Len(Fields(r)) >= 2,
         NEW x \in Address(Fields(r)[1]), ExtractId(s) # {}
  PROVE  ExtractId(s) = {x.tag}
<1> DEFINE token == IF BlockEnd(s) = 0 THEN 1 ELSE BlockEnd(s) + 1
           comma == Find(s, {","}, token)
           last == IF comma = token THEN Len(s) ELSE comma - 1
           T == SubSeq(s, token + 1, last)
<1>1. /\ s \in Seq(Character) /\ p \in Seq(Character) /\ r \in Seq(Character) /\ s = p \o r
      /\ Len(s) = Len(p) + Len(r) /\ Len(p) \in Nat /\ Len(r) \in Nat /\ SearchPos(s) = Len(p) + 1
  BY Joins DEF ReadFrom
<1> HIDE DEF comma, last, T
<1>2. token = Len(p)
  <2>1. BlockEnd(s) = 0 \/ BlockEnd(s) \in 2..Len(s)
    <3>1. 2 \in Nat \ {0}
      OBVIOUS
    <3>2. Find(s, {"\\"}, 2) = 0 \/ Find(s, {"\\"}, 2) \in 2..Len(s)
      BY <1>1, <3>1, FindIs
    <3> QED
      BY <3>2 DEF BlockEnd
  <2>2. CASE BlockEnd(s) = 0
    <3>1. SearchPos(s) = 2 /\ token = 1
      BY <2>2 DEF SearchPos
    <3>2. Len(p) + 1 = 2 /\ Len(p) \in Nat
      BY <1>1, <3>1
    <3>3. Len(p) = 1
      <4>1. \A n \in Nat : n + 1 = 2 => n = 1
        OBVIOUS
      <4> QED
        BY <3>2, <4>1
    <3> HIDE DEF token
    <3> QED
      BY <3>1, <3>3
  <2>3. CASE BlockEnd(s) # 0
    <3>1. SearchPos(s) = BlockEnd(s) + 2 /\ BlockEnd(s) \in Nat
      BY <1>1, <2>1, <2>3 DEF SearchPos
    <3> QED
      BY <1>1, <2>3, <3>1
  <2> QED
    BY <2>2, <2>3
<1>3. comma # 0 /\ ExtractId(s) = {a.tag : a \in Address(T)}
  BY DEF ExtractId, comma, last, T
<1> HIDE DEF token
<1>4. Address(T) # {}
  BY <1>3
<1>5. /\ comma \in Len(p)..Len(s) /\ s[comma] = ","
      /\ \A i \in Len(p)..(comma - 1) : s[i] # ","
  <2>1. Len(p) \in Nat \ {0}
    BY <1>1
  <2>2. /\ comma \in Len(p)..Len(s) /\ s[comma] \in {","}
        /\ \A i \in Len(p)..(comma - 1) : s[i] \notin {","}
    BY <1>1, <1>2, <1>3, <2>1, FindIs DEF comma
  <2> HIDE DEF comma
  <2> QED
    BY <2>2
<1>6. PICK f \in Seq(Plain), d \in Delimiters, v \in Seq(Character) :
        r = (f \o <<d>>) \o v /\ Fields(r) = <<f>> \o Fields(v)
  <2>1. Fields(r) # <<r>>
    <3>1. Len(<<r>>) = 1 /\ ~(1 >= 2)
      OBVIOUS
    <3> QED
      BY <3>1
  <2> QED
    BY <1>1, <2>1, FirstField
<1>7. Fields(r)[1] = f
  <2>1. Fields(v) \in Seq(Seq(Plain)) /\ <<f>> \in Seq(Seq(Plain)) /\ Len(<<f>>) = 1
    <3>1. Fields(v) \in FieldLists
      BY FieldsAppend
    <3>2. \A y \in Seq(Plain) : <<y>> \in Seq(Seq(Plain)) /\ Len(<<y>>) = 1
      OBVIOUS
    <3> QED
      BY <3>1, <3>2 DEF FieldLists
  <2> DEFINE a == <<f>>
             b == Fields(v)
  <2>2. a[1] = f
    OBVIOUS
  <2> HIDE DEF a, b
  <2>3. Len(b) \in Nat /\ \A i \in 1..(Len(a) + Len(b)) : (a \o b)[i] = IF i <= Len(a) THEN a[i] ELSE b[i - Len(a)]
    BY <2>1, ConcatProperties, LenProperties DEF a, b
  <2>4. 1 \in 1..(Len(a) + Len(b)) /\ 1 <= Len(a)
    BY <2>1, <2>3 DEF a
  <2> QED
    BY <1>6, <2>2, <2>3, <2>4 DEF a, b
<1>8. /\ f \in Seq(Character) /\ Len(f) \in Nat /\ d \in Character /\ d \in Special
      /\ Len(f) + 1 \in 1..Len(r) /\ r[Len(f) + 1] = d
      /\ \A i \in 1..Len(f) : r[i] = f[i] /\ f[i] \in Plain
  <2>1. d \in Character /\ d \in Special
    BY Known DEF Delimiters, Special
  <2>2. f \in Seq(Character) /\ Len(f) \in Nat
    <3>1. Plain \subseteq Character
      BY DEF Plain
    <3> QED
      BY <3>1, TextFacts
  <2> DEFINE e == <<d>>
             g == f \o e
  <2>3. e \in Seq(Character) /\ Len(e) = 1 /\ e[1] = d
    BY <2>1, OneChar
  <2> HIDE DEF e
  <2>4. g \in Seq(Character) /\ Len(g) = Len(f) + 1
    <3>1. g \in Seq(Character) /\ Len(g) = Len(f) + Len(e)
      BY <2>2, <2>3, Joins
    <3> QED
      BY <2>3, <3>1
  <2>5. (\A i \in 1..Len(f) : g[i] = f[i]) /\ g[Len(f) + 1] = d
    <3>1. 1 \in 1..Len(e)
      BY <2>3
    <3> QED
      BY <2>2, <2>3, <3>1, ElementOfJoined
  <2> HIDE DEF g
  <2>6. r = g \o v
    BY <1>6 DEF g, e
  <2>7. Len(r) = Len(g) + Len(v) /\ Len(v) \in Nat /\ \A i \in 1..Len(g) : r[i] = g[i]
    BY <2>4, <2>6, Joins, ElementOfJoined
  <2>8. /\ Len(f) + 1 \in 1..Len(r) /\ Len(f) + 1 \in 1..Len(g)
        /\ \A i \in 1..Len(f) : i \in 1..Len(g)
    BY <2>2, <2>4, <2>7
  <2>9. \A i \in 1..Len(f) : f[i] \in Plain
    BY ElementOfSeq
  <2> QED
    BY <2>1, <2>2, <2>5, <2>7, <2>8, <2>9
<1>9. Address(f) = {x} /\ Len(f) >= TALKER_LENGTH /\ TALKER_LENGTH \in Nat
  <2>1. x \in Address(f)
    BY <1>7
  <2> QED
    BY <1>8, <2>1, AddressMeans, AddressSpecial, TagFacts
<1>10. ASSUME T \in Seq(Character), Len(f) + 1 \in 1..Len(T), T[Len(f) + 1] = d PROVE FALSE
  <2>1. Len(f) + 1 > TALKER_LENGTH
    BY <1>8, <1>9
  <2> QED
    BY <1>4, <1>8, <1>10, <2>1, AddressSpecial
<1>11. CASE comma = token
  <2>1. last = Len(s)
    BY <1>11 DEF last
  <2>2. T = r
    <3>1. SubSeq(p \o r, Len(p) + 1, Len(p \o r)) = r
      BY <1>1, SecondPart
    <3> QED
      BY <1>1, <1>2, <2>1, <3>1 DEF T
  <2> QED
    BY <1>1, <1>8, <1>10, <2>2
<1>12. CASE comma # token
  <2> DEFINE j == comma - Len(p)
             t == SubSeq(r, 1, j - 1)
             z == SubSeq(r, (j - 1) + 1, Len(r))
  <2>1. /\ j \in 1..Len(r) /\ j - 1 \in 0..Len(r) /\ comma = Len(p) + j /\ comma - 1 = Len(p) + (j - 1)
        /\ last = comma - 1
    <3>1. last = comma - 1
      BY <1>12 DEF last
    <3>2. comma \in Len(p)..Len(s) /\ comma # Len(p)
      BY <1>2, <1>5, <1>12
    <3> QED
      BY <1>1, <3>1, <3>2
  <2> HIDE DEF j
  <2>2. /\ t \in Seq(Character) /\ Len(t) = j - 1 /\ (\A i \in 1..(j - 1) : t[i] = r[i])
        /\ z \in Seq(Character) /\ r = t \o z
    BY <1>1, <2>1, CutInTwo, ZenonT(60)
  <2> HIDE DEF t, z
  <2>3. T = t
    <3>1. SubSeq(p \o (t \o z), Len(p) + 1, Len(p) + Len(t)) = t
      BY <1>1, <2>2, PartOf
    <3>2. last = Len(p) + Len(t)
      BY <2>1, <2>2
    <3> QED
      BY <1>1, <1>2, <2>2, <3>1, <3>2 DEF T
  <2>4. r[j] = ","
    <3>1. \A i \in 1..Len(r) : s[Len(p) + i] = r[i]
      BY <1>1, ElementOfJoined
    <3> QED
      BY <1>5, <2>1, <3>1
  <2>5. ~(j <= Len(f))
    <3> SUFFICES ASSUME j <= Len(f) PROVE FALSE
      OBVIOUS
    <3>1. j \in 1..Len(f)
      BY <1>8, <2>1
    <3> QED
      BY <1>8, <2>4, <3>1 DEF Plain, Delimiters
  <2>6. CASE j = Len(f) + 1
    <3>1. Len(t) = Len(f) /\ \A i \in 1..Len(t) : t[i] = f[i]
      BY <1>8, <2>2, <2>6
    <3>2. t = f
      BY <1>8, <2>2, <3>1, SeqEqual
    <3> QED
      BY <1>3, <1>9, <2>3, <3>2
  <2>7. CASE j # Len(f) + 1
    <3>1. Len(f) + 1 \in 1..(j - 1)
      BY <1>8, <2>1, <2>5, <2>7
    <3> QED
      BY <1>8, <1>10, <2>2, <2>3, <3>1
  <2> QED
    BY <2>6, <2>7
<1> QED
  BY <1>11, <1>12
-----------------------------------------------------------------------------
\* What make_sentence returns can be written.
LEMMA AcceptedWritable ==
  ASSUME NEW s \in Seq(Character), NEW h, MakeSentence(s, h).how = "ok"
  PROVE  LET m == MakeSentence(s, h).sentence
         IN /\ Writable(m)
            /\ m = [talker |-> m.talker, tag |-> m.tag, fields |-> m.fields, block |-> m.block]
            /\ ExtractId(s) # {} => ExtractId(s) = {m.tag}
<1>1. PICK p, r \in Seq(Character) : ReadFrom(s, p, r) /\ Len(p) > 0
  BY AcceptedLine
<1> DEFINE m == MakeSentence(s, h).sentence
           fs == Fields(r)
           data == SubSeq(fs, 2, Len(fs) - 1)
<1>2. /\ Len(fs) >= 2 /\ Len(m.fields) \in FieldCount(m.tag)
      /\ \E a \in Address(fs[1]) :
           m = [talker |-> a.talker, tag |-> a.tag, fields |-> data, block |-> BlockOf(s)]
  BY <1>1, AcceptedMeans
<1>3. PICK a \in Address(fs[1]) :
        m = [talker |-> a.talker, tag |-> a.tag, fields |-> data, block |-> BlockOf(s)]
  BY <1>2
<1> HIDE DEF m, data
<1>4. /\ m.talker = a.talker /\ m.tag = a.tag /\ m.fields = data
      /\ m = [talker |-> m.talker, tag |-> m.tag, fields |-> m.fields, block |-> m.block]
  BY <1>3
<1>5. fs \in Seq(Seq(Plain)) /\ Len(fs) \in Nat
  <2>1. fs \in FieldLists
    BY <1>1, FieldsAppend
  <2> QED
    BY <2>1, LenProperties DEF FieldLists
<1> HIDE DEF fs
<1>6. data \in Seq(Seq(Plain))
  <2>1. \A i \in 2..(Len(fs) - 1) : fs[i] \in Seq(Plain)
    <3>1. \A i \in 2..(Len(fs) - 1) : i \in 1..Len(fs)
      BY <1>5
    <3> QED
      BY <1>5, <3>1, ElementOfSeq
  <2>2. 2 \in Int /\ Len(fs) - 1 \in Int
    BY <1>5
  <2> QED
    BY <2>1, <2>2, SubSeqProperties DEF data
<1>7. fs[1] \in Seq(Character)
  <2>1. 1 \in 1..Len(fs)
    BY <1>2, <1>5
  <2>2. fs[1] \in Seq(Plain)
    BY <1>5, <2>1, ElementOfSeq
  <2>3. Plain \subseteq Character
    BY DEF Plain
  <2> QED
    BY <2>2, <2>3, TextFacts
<1>8. /\ a = [talker |-> a.talker, tag |-> a.tag]
      /\ a.talker \o a.tag \in Seq(NotSpecial) /\ Address(a.talker \o a.tag) = {a}
  BY <1>7, AddressMeans
<1>9. Writable(m)
  BY <1>2, <1>4, <1>6, <1>8 DEF Writable
<1>10. ExtractId(s) # {} => ExtractId(s) = {a.tag}
  BY <1>1, <1>2, ExtractAgrees DEF fs
<1> QED
  BY <1>4, <1>9, <1>10 DEF m

-----------------------------------------------------------------------------
\* What is before the body of a sentence: the tag block and the start token.
Ahead(m) ==
  IF m.block = << >> THEN <<StartToken(m.tag)>>
  ELSE <<"\\">> \o (m.block \o (<<"\\">> \o <<StartToken(m.tag)>>))

\* The line of a sentence as others write it, and where its body begins.
LEMMA ForeignIs ==
  ASSUME NEW m, Writable(m), m.block \in Seq(NotBlock)
  PROVE  LET s == ForeignString(m)
         IN /\ s = Ahead(m) \o (Body(m) \o Ending(m))
            /\ ReadFrom(s, Ahead(m), Body(m) \o Ending(m))
            /\ s # << >> /\ Head(s) \in {"$", "!", "\\"} /\ BlockOf(s) = m.block
<1> DEFINE k == m.block
           c == StartToken(m.tag)
           g == <<c>>
           b == <<"\\">>
           q == Body(m)
           e == <<"*">>
           d == ChecksumText(Checksum(q))
           s == ForeignString(m)
           r == q \o (e \o d)
<1>1. /\ c \in Character /\ c \in {"$", "!"} /\ c # "\\" /\ g \in Seq(Character) /\ Len(g) = 1 /\ g[1] = c
      /\ b \in Seq(Character) /\ Len(b) = 1 /\ b[1] = "\\" /\ e \in Seq(Character)
  <2>1. c \in {"$", "!"}
    BY DEF StartToken
  <2>2. c \in Character /\ c # "\\"
    BY <2>1, Known
  <2> HIDE DEF c
  <2> QED
    BY <2>1, <2>2, Known, OneChar
<1>2. q \in Seq(Character) /\ d \in Seq(Character) /\ k \in Seq(Character) /\ k \in Seq(NotBlock)
  <2>1. NotBlock \subseteq Character
    BY DEF NotBlock
  <2> QED
    BY <2>1, BodyIs, EndingIs, TextFacts
<1>3. s = ((((IF k = << >> THEN << >> ELSE (b \o k) \o b) \o g) \o q) \o e) \o d
  BY DEF ForeignString
<1>4. Ahead(m) = (IF k = << >> THEN g ELSE b \o (k \o (b \o g)))
  BY DEF Ahead
<1>5. r = Body(m) \o Ending(m)
  BY DEF Ending
<1> HIDE DEF k, c, g, b, q, e, d, s
<1>6. r \in Seq(Character) /\ (q \o e) \o d = r /\ e \o d \in Seq(Character)
  <2>1. e \o d \in Seq(Character)
    BY <1>1, <1>2, Joins
  <2>2. (q \o e) \o d = q \o (e \o d)
    <3>1. q \in Seq(Character) /\ e \in Seq(Character) /\ d \in Seq(Character)
      BY <1>1, <1>2
    <3> QED
      BY <3>1, Assoc, Zenon
  <2>3. q \o (e \o d) \in Seq(Character)
    BY <1>2, <2>1, Joins
  <2> QED
    BY <2>1, <2>2, <2>3
<1>7. \A f \in Seq(Character) : (((f \o g) \o q) \o e) \o d = (f \o g) \o r
  <2> SUFFICES ASSUME NEW f \in Seq(Character) PROVE (((f \o g) \o q) \o e) \o d = (f \o g) \o r
    OBVIOUS
  <2> DEFINE h == f \o g
  <2>1. h \in Seq(Character)
    BY <1>1, Joins
  <2> HIDE DEF h
  <2>2. ((h \o q) \o e) \o d = (h \o q) \o (e \o d)
    <3>1. h \o q \in Seq(Character)
      BY <1>2, <2>1, Joins
    <3> QED
      BY <1>1, <1>2, <3>1, Assoc, ZenonT(60)
  <2>3. (h \o q) \o (e \o d) = h \o (q \o (e \o d))
    BY <1>2, <1>6, <2>1, Assoc
  <2> QED
    BY <2>2, <2>3 DEF h
<1> HIDE DEF r
<1>8. CASE k = << >>
  <2>1. s = g \o r /\ Ahead(m) = g
    <3>1. << >> \in Seq(Character) /\ << >> \o g = g
      BY <1>1, NoText
    <3> QED
      BY <1>3, <1>4, <1>7, <1>8, <3>1
  <2>2. ReadFrom(s, g, r) /\ BlockEnd(s) = 0
    BY <1>1, <1>6, <2>1, ReadFromSecond DEF g
  <2>3. s # << >> /\ Head(s) \in {"$", "!", "\\"}
    <3>1. Len(s) = 1 + Len(r) /\ Len(r) \in Nat /\ s \in Seq(Character)
      BY <1>1, <1>6, <2>1, Joins
    <3>2. 1 \in 1..Len(g)
      BY <1>1
    <3>3. s[1] = c
      BY <1>1, <1>6, <2>1, <3>2, ElementOfJoined
    <3>4. s # << >> /\ Head(s) = s[1]
      BY <3>1
    <3> QED
      BY <1>1, <3>3, <3>4
  <2>4. BlockOf(s) = k
    BY <1>8, <2>2 DEF BlockOf
  <2> QED
    BY <1>5, <2>1, <2>2, <2>3, <2>4 DEF k, s
<1>9. CASE k # << >>
  <2> DEFINE p == b \o (k \o (b \o g))
  <2>1. s = p \o r /\ Ahead(m) = p
    <3>1. (b \o k) \o b \in Seq(Character) /\ b \o k \in Seq(Character) /\ k \o b \in Seq(Character)
          /\ b \o g \in Seq(Character)
      BY <1>1, <1>2, Joins
    <3>2. s = (((b \o k) \o b) \o g) \o r
      BY <1>3, <1>7, <1>9, <3>1
    <3>3. ((b \o k) \o b) \o g = (b \o k) \o (b \o g)
      <4>1. b \o k \in Seq(Character) /\ b \in Seq(Character) /\ g \in Seq(Character)
        BY <1>1, <3>1
      <4> QED
        BY <4>1, Assoc, Zenon
    <3>4. (b \o k) \o (b \o g) = b \o (k \o (b \o g))
      <4>1. b \in Seq(Character) /\ k \in Seq(Character) /\ b \o g \in Seq(Character)
        BY <1>1, <1>2, <3>1
      <4> QED
        BY <4>1, Assoc, Zenon
    <3> QED
      BY <1>4, <1>9, <3>2, <3>3, <3>4
  <2>2. /\ ReadFrom(p \o r, p, r) /\ BlockEnd(p \o r) = Len(k) + 2 /\ SubSeq(p \o r, 2, Len(k) + 1) = k
    BY <1>1, <1>2, <1>6, ReadFromBlock DEF b, g
  <2> HIDE DEF p
  <2>3. ReadFrom(s, p, r) /\ BlockEnd(s) = Len(k) + 2 /\ SubSeq(s, 2, Len(k) + 1) = k
    BY <2>1, <2>2
  <2>4. s # << >> /\ Head(s) \in {"$", "!", "\\"}
    <3> DEFINE y == k \o (b \o g)
    <3>1. p = b \o y /\ y \in Seq(Character)
      BY <1>1, <1>2, Joins DEF p
    <3> HIDE DEF y
    <3>2. Len(p) = 1 + Len(y) /\ Len(y) \in Nat /\ p \in Seq(Character)
      BY <1>1, <3>1, Joins
    <3>3. p[1] = "\\"
      <4>1. 1 \in 1..Len(b)
        BY <1>1
      <4> QED
        BY <1>1, <3>1, <4>1, ElementOfJoined
    <3>4. Len(s) = Len(p) + Len(r) /\ Len(r) \in Nat /\ s \in Seq(Character)
      BY <1>6, <2>1, <3>2, Joins
    <3>5. s[1] = "\\"
      <4>1. 1 \in 1..Len(p)
        BY <3>2
      <4> QED
        BY <1>6, <2>1, <3>2, <3>3, <4>1, ElementOfJoined
    <3>6. s # << >> /\ Head(s) = s[1]
      BY <3>2, <3>4
    <3> QED
      BY <3>5, <3>6
  <2>5. BlockOf(s) = k
    <3>1. Len(k) + 2 # 0 /\ (Len(k) + 2) - 1 = Len(k) + 1
      BY <1>2, Joins
    <3> QED
      BY <2>3, <3>1 DEF BlockOf
  <2> QED
    BY <1>5, <2>1, <2>3, <2>4, <2>5 DEF k, s
<1> QED
  BY <1>8, <1>9

\* Without a tag block everybody writes the same.
LEMMA WrittenPlain ==
  ASSUME NEW m, Writable(m), m.block = << >>
  PROVE  Written(m) = ForeignString(m)
<1> DEFINE g == <<StartToken(m.tag)>>
           q == Body(m)
           t == (<< >> \o g) \o q
<1>1. q \in Seq(Character) /\ g \in Seq(Character) /\ Len(g) = 1
  <2>1. StartToken(m.tag) \in Character
    BY Known DEF StartToken
  <2> QED
    BY <2>1, BodyIs, OneChar
<1>2. Written(m) = (t \o <<"*">>) \o ChecksumText(Checksum(Tail(t)))
  BY DEF Written
<1>3. ForeignString(m) = (t \o <<"*">>) \o ChecksumText(Checksum(q))
  BY DEF ForeignString
<1> HIDE DEF g, q
<1>4. t = g \o q
  BY <1>1, NoText
<1>5. Tail(g \o q) = q
  <2>1. g \o q \in Seq(Character) /\ Len(g \o q) = 1 + Len(q) /\ Len(q) \in Nat
    BY <1>1, Joins
  <2> DEFINE z == g \o q
  <2> HIDE DEF z
  <2>2. z # << >>
    BY <2>1 DEF z
  <2>3. Tail(z) = SubSeq(z, 2, Len(z))
    BY <2>1, <2>2, TailIsSubSeq DEF z
  <2>4. SubSeq(g \o q, Len(g) + 1, Len(g \o q)) = q
    BY <1>1, SecondPart
  <2>5. Len(g) + 1 = 2
    BY <1>1
  <2> QED
    BY <2>3, <2>4, <2>5 DEF z
<1> HIDE DEF t
<1> QED
  BY <1>2, <1>3, <1>4, <1>5

-----------------------------------------------------------------------------
\* t is s with one character lost, added or replaced.
Damaged(s, t) ==
  \E u, v \in Seq(Character), w, x \in Few :
    w # x /\ s = (u \o w) \o v /\ t = (u \o x) \o v

\* So are the lines that Damage makes.
LEMMA DamageIs ==
  ASSUME NEW s \in Seq(Character)
  PROVE  /\ \A i \in 1..Len(s) : Damaged(s, RemoveAt(s, i))
         /\ \A i \in 1..(Len(s) + 1), c \in Character : Damaged(s, InsertAt(s, i, c))
         /\ \A i \in 1..Len(s) : \A c \in Character \ {s[i]} : Damaged(s, ReplaceAt(s, i, c))
<1>1. Len(s) \in Nat
  BY LenProperties
<1>2. ASSUME NEW i \in 1..Len(s)
      PROVE  /\ SubSeq(s, 1, i - 1) \in Seq(Character) /\ Len(SubSeq(s, 1, i - 1)) = i - 1
             /\ \A j \in 1..(i - 1) : SubSeq(s, 1, i - 1)[j] = s[j]
             /\ SubSeq(s, i + 1, Len(s)) \in Seq(Character)
             /\ Len(SubSeq(s, i + 1, Len(s))) = Len(s) - i
             /\ \A j \in 1..(Len(s) - i) : SubSeq(s, i + 1, Len(s))[j] = s[i + j]
             /\ s[i] \in Character /\ <<s[i]>> \in Few /\ <<s[i]>> \in Seq(Character)
             /\ s = (SubSeq(s, 1, i - 1) \o <<s[i]>>) \o SubSeq(s, i + 1, Len(s))
  <2>1. i - 1 \in 0..Len(s) /\ i \in 0..Len(s) /\ i \in 1..i /\ 1 \in 1..Len(s) /\ s[i] \in Character
    BY <1>1, ElementOfSeq
  <2>2. /\ SubSeq(s, 1, i - 1) \in Seq(Character) /\ Len(SubSeq(s, 1, i - 1)) = i - 1
        /\ \A j \in 1..(i - 1) : SubSeq(s, 1, i - 1)[j] = s[j]
    BY <2>1, CutInTwo
  <2>3. /\ SubSeq(s, i + 1, Len(s)) \in Seq(Character)
        /\ Len(SubSeq(s, i + 1, Len(s))) = Len(s) - i
        /\ \A j \in 1..(Len(s) - i) : SubSeq(s, i + 1, Len(s))[j] = s[i + j]
        /\ s = SubSeq(s, 1, i) \o SubSeq(s, i + 1, Len(s))
    BY <2>1, CutInTwo
  <2>4. SubSeq(s, 1, i) = SubSeq(s, 1, i - 1) \o <<s[i]>>
    BY <2>1, SubSeqRecursiveSecond
  <2>5. <<s[i]>> \in Few /\ <<s[i]>> \in Seq(Character)
    BY <2>1, OneChar DEF Few
  <2> QED
    BY <2>1, <2>2, <2>3, <2>4, <2>5
<1>3. << >> \in Few /\ << >> \in Seq(Character) /\ \A c \in Character : <<c>> \in Few /\ <<c>> # << >>
  BY NoText DEF Few
<1>4. ASSUME NEW i \in 1..Len(s) PROVE Damaged(s, RemoveAt(s, i))
  <2> DEFINE u == SubSeq(s, 1, i - 1)
             v == SubSeq(s, i + 1, Len(s))
             w == <<s[i]>>
  <2>1. u \in Seq(Character) /\ v \in Seq(Character) /\ w \in Few /\ s = (u \o w) \o v /\ w # << >>
    BY <1>2, <1>3
  <2>2. RemoveAt(s, i) = u \o v
    BY DEF RemoveAt
  <2> HIDE DEF u, v, w
  <2>3. RemoveAt(s, i) = (u \o << >>) \o v
    BY <2>1, <2>2, NoText
  <2> QED
    BY <1>3, <2>1, <2>3 DEF Damaged
<1>5. ASSUME NEW i \in 1..(Len(s) + 1), NEW c \in Character PROVE Damaged(s, InsertAt(s, i, c))
  <2> DEFINE u == SubSeq(s, 1, i - 1)
             v == SubSeq(s, i, Len(s))
             w == <<c>>
  <2>1. u \in Seq(Character) /\ v \in Seq(Character) /\ s = u \o v
    <3>1. i - 1 \in 0..Len(s) /\ (i - 1) + 1 = i
      BY <1>1
    <3>2. SubSeq(s, (i - 1) + 1, Len(s)) = SubSeq(s, i, Len(s))
      BY <3>1
    <3> QED
      BY <3>1, <3>2, CutInTwo, ZenonT(60)
  <2>2. InsertAt(s, i, c) = (u \o w) \o v
    BY DEF InsertAt
  <2>3. w \in Few /\ w # << >>
    BY <1>3
  <2> HIDE DEF u, v, w
  <2>4. s = (u \o << >>) \o v
    BY <2>1, NoText
  <2> QED
    BY <1>3, <2>1, <2>2, <2>3, <2>4 DEF Damaged
<1>6. ASSUME NEW i \in 1..Len(s), NEW c \in Character \ {s[i]} PROVE Damaged(s, ReplaceAt(s, i, c))
  <2> DEFINE u == SubSeq(s, 1, i - 1)
             v == SubSeq(s, i + 1, Len(s))
             w == <<s[i]>>
             x == <<c>>
             t == (u \o x) \o v
  <2>1. /\ u \in Seq(Character) /\ Len(u) = i - 1 /\ v \in Seq(Character) /\ Len(v) = Len(s) - i
        /\ (\A j \in 1..(i - 1) : u[j] = s[j]) /\ (\A j \in 1..(Len(s) - i) : v[j] = s[i + j])
        /\ w \in Few /\ s = (u \o w) \o v
    BY <1>2
  <2>2. x \in Few /\ x \in Seq(Character) /\ Len(x) = 1 /\ x[1] = c /\ w # x
    BY <1>3, OneChar
  <2> DEFINE r == [s EXCEPT ![i] = c]
  <2>3. /\ r \in Seq(Character) /\ Len(r) = Len(s)
        /\ \A j \in 1..Len(s) : r[j] = IF j = i THEN c ELSE s[j]
    BY ExceptSeq
  <2> HIDE DEF u, v, w, x, r
  <2> DEFINE y == u \o x
  <2>4. y \in Seq(Character) /\ Len(y) = i
    <3>1. y \in Seq(Character) /\ Len(y) = Len(u) + Len(x)
      BY <2>1, <2>2, Joins
    <3> QED
      BY <1>1, <2>1, <2>2, <3>1
  <2>5. (\A j \in 1..Len(u) : y[j] = u[j]) /\ (\A j \in 1..Len(x) : y[Len(u) + j] = x[j])
    BY <2>1, <2>2, ElementOfJoined
  <2> HIDE DEF y
  <2>6. t = y \o v
    BY DEF y
  <2>7. t \in Seq(Character) /\ Len(t) = Len(y) + Len(v)
    <3>1. v \in Seq(Character)
      BY <2>1
    <3>2. y \o v \in Seq(Character) /\ Len(y \o v) = Len(y) + Len(v)
      BY <2>4, <3>1, Joins
    <3> QED
      BY <2>6, <3>2
  <2>8. (\A j \in 1..Len(y) : t[j] = y[j]) /\ (\A j \in 1..Len(v) : t[Len(y) + j] = v[j])
    BY <2>1, <2>4, <2>6, ElementOfJoined, SMTT(60)
  <2> HIDE DEF t
  <2>9. Len(t) = Len(r)
    BY <1>1, <2>1, <2>3, <2>4, <2>7
  <2>10. ASSUME NEW j \in 1..Len(t) PROVE t[j] = r[j]
    <3>0. j \in 1..Len(s)
      BY <2>3, <2>9
    <3>1. CASE j < i
      <4>1. j \in 1..Len(u) /\ j \in 1..Len(y) /\ j \in 1..(i - 1) /\ j # i
        BY <1>1, <2>1, <2>4, <3>1
      <4> QED
        BY <2>1, <2>3, <2>5, <2>8, <3>0, <4>1, ZenonT(60)
    <3>2. CASE j = i
      <4>1. 1 \in 1..Len(x) /\ Len(u) + 1 = i /\ j \in 1..Len(y)
        BY <2>1, <2>2, <2>4, <3>2
      <4> QED
        BY <2>2, <2>3, <2>5, <2>8, <3>0, <3>2, <4>1
    <3>3. CASE j > i
      <4>1. j - i \in 1..Len(v) /\ j - i \in 1..(Len(s) - i) /\ Len(y) + (j - i) = j /\ i + (j - i) = j /\ j # i
        BY <1>1, <2>1, <2>4, <2>7, <3>3
      <4>2. t[Len(y) + (j - i)] = v[j - i] /\ v[j - i] = s[i + (j - i)]
        BY <2>1, <2>8, <4>1
      <4>3. r[j] = s[j]
        BY <2>3, <3>0, <4>1
      <4> QED
        BY <4>1, <4>2, <4>3
    <3> QED
      BY <3>1, <3>2, <3>3
  <2>11. t = r
    BY <2>3, <2>7, <2>9, <2>10, SeqEqual
  <2>12. ReplaceAt(s, i, c) = (u \o x) \o v
    BY <2>11 DEF ReplaceAt, r, t
  <2> QED
    BY <2>1, <2>2, <2>12 DEF Damaged
<1> QED
  BY <1>4, <1>5, <1>6

\* And they are lines.
LEMMA DamagedText ==
  ASSUME NEW s, NEW t, Damaged(s, t)
  PROVE  s \in Seq(Character) /\ t \in Seq(Character)
<1>1. PICK u, v \in Seq(Character), w, x \in Few : s = (u \o w) \o v /\ t = (u \o x) \o v
  BY DEF Damaged
<1>2. w \in Seq(Character) /\ x \in Seq(Character)
  BY FewAre
<1>3. u \o w \in Seq(Character) /\ u \o x \in Seq(Character)
  BY <1>2, Joins
<1> QED
  BY <1>1, <1>3, Joins

-----------------------------------------------------------------------------
\* An object can be written, and what is in its tag block is no token of one.
LEMMA ObjectIs ==
  ASSUME NEW m \in Objects
  PROVE  Writable(m) /\ m.block \in Blocks /\ m.block \in Seq(NotBlock)
<1>1. PICK t \in Tags :
        m \in [talker : IF Len(t) = TAG_LENGTH THEN Talkers \cup {<< >>} ELSE {<< >>},
               tag : {t}, block : Blocks,
               fields : UNION {[1..n -> Texts] : n \in FieldCount(t)}]
  BY DEF Objects
<1>2. /\ m.talker \in (IF Len(t) = TAG_LENGTH THEN Talkers \cup {<< >>} ELSE {<< >>})
      /\ m.tag = t /\ m.block \in Blocks
      /\ m.fields \in UNION {[1..n -> Texts] : n \in FieldCount(t)}
  BY <1>1
<1>3. m.talker \o m.tag \in Seq(NotSpecial)
      /\ Address(m.talker \o m.tag) = {[talker |-> m.talker, tag |-> m.tag]}
  <2>1. m.talker = << >> \/ (m.talker \in Talkers /\ Len(t) = TAG_LENGTH)
    BY <1>2
  <2> QED
    BY <1>2, <2>1, AddressKnown
<1>4. m.fields \in Seq(Seq(Plain)) /\ Len(m.fields) \in FieldCount(m.tag)
  <2>1. PICK n \in FieldCount(t) : m.fields \in [1..n -> Texts]
    BY <1>2
  <2>2. n \in Nat
    BY AddressAssumption
  <2>3. \A x \in Texts : x \in Seq(Plain)
    <3>1. Character \ (Delimiters \cup {"\\"}) \subseteq Plain
      BY DEF Plain
    <3>2. \A x \in Texts : x \in Seq(Character \ (Delimiters \cup {"\\"}))
      BY AddressAssumption
    <3> QED
      BY <3>1, <3>2, TextFacts
  <2>4. m.fields \in [1..n -> Seq(Plain)]
    BY <2>1, <2>3
  <2>5. m.fields \in Seq(Seq(Plain)) /\ Len(m.fields) = n
    BY <2>2, <2>4, FunIsSeq
  <2> QED
    BY <1>2, <2>5
<1>5. m.block \in Seq(NotBlock)
  BY <1>2, BlocksAssumption DEF NotBlock
<1> QED
  BY <1>2, <1>3, <1>4, <1>5 DEF Writable

\* What is written of it is a line.
LEMMA LinesAre ==
  ASSUME NEW m \in Objects
  PROVE  Written(m) \in Seq(Character) /\ ForeignString(m) \in Seq(Character)
<1>1. Writable(m) /\ m.block \in Seq(NotBlock)
  BY ObjectIs
<1> DEFINE b == <<"\\">>
           g == <<StartToken(m.tag)>>
           e == <<"*">>
           block == IF m.block = << >> THEN << >> ELSE b \o m.block \o b
           front == block \o g
           text == front \o Body(m)
           d == ChecksumText(Checksum(Tail(text)))
<1>2. ForeignString(m) \in Seq(Character)
  <2>1. ReadFrom(ForeignString(m), Ahead(m), Body(m) \o Ending(m))
    BY <1>1, ForeignIs
  <2> QED
    BY <2>1, RestIs
<1>3. b \in Seq(Character) /\ g \in Seq(Character) /\ e \in Seq(Character) /\ Len(g) = 1
  <2>1. StartToken(m.tag) \in Character
    BY Known DEF StartToken
  <2> QED
    BY <2>1, Known, OneChar
<1>4. Written(m) = (text \o e) \o d
  BY DEF Written
<1> HIDE DEF b, g, e
<1>5. block \in Seq(Character)
  <2>1. m.block \in Seq(Character)
    <3>1. NotBlock \subseteq Character
      BY DEF NotBlock
    <3> QED
      BY <1>1, <3>1, TextFacts
  <2>2. b \o m.block \in Seq(Character)
    BY <1>3, <2>1, Joins
  <2>3. b \o m.block \o b \in Seq(Character)
    BY <1>3, <2>2, Joins
  <2> QED
    BY <2>3, NoText
<1> HIDE DEF block
<1>6. front \in Seq(Character) /\ Len(front) = Len(block) + Len(g) /\ Len(block) \in Nat
  BY <1>3, <1>5, Joins
<1> HIDE DEF front
<1>7. text \in Seq(Character) /\ Len(text) = Len(front) + Len(Body(m)) /\ Len(Body(m)) \in Nat
  BY <1>1, <1>6, BodyIs, Joins
<1> HIDE DEF text
<1>8. text # << >>
  BY <1>3, <1>6, <1>7
<1>9. Tail(text) \in Seq(Character)
  BY <1>7, <1>8, HeadTailProperties
<1>10. d \in Seq(Character)
  <2> DEFINE n == Checksum(Tail(text))
  <2>1. n \in Nat /\ n < RADIX * RADIX
    BY <1>9, ChecksumIs
  <2>2. ChecksumText(n) \in Seq(DigitSet)
    <3> HIDE DEF n
    <3> QED
      BY <2>1, ChecksumDigits
  <2>3. DigitSet \subseteq Character
    BY DigitsAssumption
  <2> QED
    BY <2>2, <2>3, TextFacts
<1> HIDE DEF d
<1>11. text \o e \in Seq(Character)
  BY <1>3, <1>7, Joins
<1>12. (text \o e) \o d \in Seq(Character)
  BY <1>10, <1>11, Joins
<1> QED
  BY <1>2, <1>4, <1>12

-----------------------------------------------------------------------------
\* The inductive invariant: the line that was sent was written from the object,
\* the one that arrives is it or differs in one character, and what was read is
\* what the two readers make of that line.
SentenceIInv ==
  /\ object \in Objects
  /\ stage \in {"object", "written", "damaged", "read"}
  /\ handling \in {"check", "ignore"}
  /\ stage = "object" => sent = << >> /\ line = << >>
  /\ stage # "object" =>
       /\ sent \in {Written(object), ForeignString(object)}
       /\ line = sent \/ Damaged(sent, line)
  /\ stage = "written" => line = sent
  /\ stage # "read" => got = Refused("none") /\ id = {}
  /\ stage = "read" => got = MakeSentence(line, handling) /\ id = ExtractId(line)

\* The lines of a state are lines.
LEMMA SentenceLines ==
  ASSUME SentenceIInv
  PROVE  sent \in Seq(Character) /\ line \in Seq(Character)
<1>1. CASE stage = "object"
  BY <1>1, NoText DEF SentenceIInv
<1>2. CASE stage # "object"
  <2>1. object \in Objects /\ sent \in {Written(object), ForeignString(object)}
        /\ (line = sent \/ Damaged(sent, line))
    BY <1>2 DEF SentenceIInv
  <2>2. sent \in Seq(Character)
    BY <2>1, LinesAre
  <2> QED
    BY <2>1, <2>2, DamagedText
<1> QED
  BY <1>1, <1>2

\* Every state of the writing, the damage and the reading keeps it.
THEOREM SentenceInvariant == Spec => []SentenceIInv
<1>1. Init => SentenceIInv
  BY DEF Init, SentenceIInv
<1>2. ASSUME SentenceIInv, [Next]_vars PROVE SentenceIInv'
  <2>1. CASE Write
    BY <1>2, <2>1 DEF Write, SentenceIInv
  <2>2. CASE Damage
    <3>1. stage = "written" /\ line = sent /\ line \in Seq(Character)
      BY <1>2, <2>2, SentenceLines DEF Damage, SentenceIInv
    <3>2. Damaged(line, line')
      BY <2>2, <3>1, DamageIs DEF Damage
    <3> QED
      BY <1>2, <2>2, <3>1, <3>2 DEF Damage, SentenceIInv
  <2>3. ASSUME NEW chksum \in {"check", "ignore"}, Read(chksum) PROVE SentenceIInv'
    BY <1>2, <2>3 DEF Read, SentenceIInv
  <2>4. CASE UNCHANGED vars
    BY <1>2, <2>4 DEF vars, SentenceIInv
  <2> QED
    BY <1>2, <2>1, <2>2, <2>3, <2>4 DEF Next
<1> QED
  BY <1>1, <1>2, PTL DEF Spec

\* A line not damaged is read as the sentence it was written from.
LEMMA SentenceReadBack ==
  ASSUME SentenceIInv
  PROVE  UndamagedReadBack
<1> SUFFICES ASSUME stage = "read", line = ForeignString(object)
             PROVE  got.how = "ok" /\ Reads(got.sentence, object) /\ got.sentence.block = object.block
  BY DEF UndamagedReadBack
<1>1. object \in Objects /\ got = MakeSentence(line, handling)
  BY DEF SentenceIInv
<1>2. Writable(object) /\ object.block \in Seq(NotBlock)
  BY <1>1, ObjectIs
<1>3. /\ ReadFrom(line, Ahead(object), Body(object) \o Ending(object))
      /\ line # << >> /\ Head(line) \in {"$", "!", "\\"} /\ BlockOf(line) = object.block
  BY <1>2, ForeignIs
<1>4. got = [how |-> "ok", sentence |->
               [talker |-> object.talker, tag |-> object.tag, fields |-> object.fields,
                block |-> object.block]]
  BY <1>1, <1>2, <1>3, WrittenReadBack
<1> QED
  BY <1>4 DEF Reads

\* A line that arrives as to_string wrote it without a tag block, or as another
\* program wrote it, is read as the sentence it was written from, for any tags,
\* talkers, texts and tag blocks the assumptions allow.
THEOREM SentenceUndamagedReadBack == Spec => []UndamagedReadBack
<1>1. SentenceIInv => UndamagedReadBack
  BY SentenceReadBack
<1> QED
  BY <1>1, SentenceInvariant, PTL

\* Whatever line is accepted, damaged or not, with its checksum checked or not:
\* extract_id agrees with make_sentence, and the sentence written again without a
\* tag block is read as the same sentence.
THEOREM SentenceAcceptedAgrees == Spec => []AcceptedAgrees
<1>1. ASSUME SentenceIInv PROVE AcceptedAgrees
  <2> DEFINE m == got.sentence
             plain == [m EXCEPT !.block = << >>]
  <2> SUFFICES ASSUME stage = "read", got.how = "ok"
               PROVE  /\ id # {} => id = {plain.tag}
                      /\ MakeSentence(Written(plain), "check") = [how |-> "ok", sentence |-> plain]
    BY DEF AcceptedAgrees
  <2>1. got = MakeSentence(line, handling) /\ id = ExtractId(line) /\ line \in Seq(Character)
    BY <1>1, SentenceLines DEF SentenceIInv
  <2>2. /\ Writable(m) /\ (id # {} => id = {m.tag})
        /\ m = [talker |-> m.talker, tag |-> m.tag, fields |-> m.fields, block |-> m.block]
    BY <2>1, AcceptedWritable
  <2> HIDE DEF m
  <2>3. plain = [talker |-> m.talker, tag |-> m.tag, fields |-> m.fields, block |-> << >>]
    BY <2>2
  <2> HIDE DEF plain
  <2>4. plain.talker = m.talker /\ plain.tag = m.tag /\ plain.fields = m.fields /\ plain.block = << >>
    BY <2>3
  <2>5. Writable(plain)
    BY <2>2, <2>4 DEF Writable
  <2> DEFINE s == ForeignString(plain)
  <2>6. plain.block \in Seq(NotBlock)
    BY <2>4, EmptySeq
  <2>7. /\ ReadFrom(s, Ahead(plain), Body(plain) \o Ending(plain))
        /\ s # << >> /\ Head(s) \in {"$", "!", "\\"} /\ BlockOf(s) = plain.block
    BY <2>5, <2>6, ForeignIs
  <2>8. MakeSentence(s, "check") =
          [how |-> "ok", sentence |->
             [talker |-> plain.talker, tag |-> plain.tag, fields |-> plain.fields, block |-> BlockOf(s)]]
    BY <2>5, <2>7, WrittenReadBack
  <2>9. Written(plain) = s
    BY <2>4, <2>5, WrittenPlain
  <2>10. MakeSentence(Written(plain), "check") = [how |-> "ok", sentence |-> plain]
    BY <2>3, <2>4, <2>7, <2>8, <2>9
  <2> QED
    BY <2>2, <2>4, <2>10
<1> QED
  BY <1>1, SentenceInvariant, PTL

-----------------------------------------------------------------------------
\* The elements g between f and z.
Enclosed(s, f, g, z) == s = <<f>> \o (g \o <<z>>)

\* They can be found again.
LEMMA Between ==
  ASSUME NEW S, NEW f \in S, NEW g \in Seq(S), NEW z \in S,
         NEW s, Enclosed(s, f, g, z)
  PROVE  /\ s \in Seq(S) /\ Len(s) = Len(g) + 2 /\ Len(g) \in Nat
         /\ s[1] = f /\ Last(s) = z /\ SubSeq(s, 2, Len(s) - 1) = g
<1> DEFINE a == <<f>>
           e == <<z>>
           t == g \o e
<1>1. a \in Seq(S) /\ Len(a) = 1 /\ a[1] = f /\ e \in Seq(S) /\ Len(e) = 1 /\ e[1] = z /\ s = a \o t
  BY DEF Enclosed
<1> HIDE DEF a, e
<1>2. /\ t \in Seq(S) /\ Len(t) = Len(g) + Len(e) /\ Len(g) \in Nat
      /\ \A i \in 1..(Len(g) + Len(e)) : t[i] = IF i <= Len(g) THEN g[i] ELSE e[i - Len(g)]
  BY <1>1, ConcatProperties, LenProperties
<1> HIDE DEF t
<1>3. (\A i \in 1..Len(g) : t[i] = g[i]) /\ t[Len(g) + 1] = z /\ Len(t) = Len(g) + 1
  <2>1. Len(g) + 1 \in 1..(Len(g) + Len(e)) /\ ~(Len(g) + 1 <= Len(g)) /\ (Len(g) + 1) - Len(g) = 1
    BY <1>1, <1>2
  <2> QED
    BY <1>1, <1>2, <2>1
<1>4. /\ s \in Seq(S) /\ Len(s) = Len(a) + Len(t)
      /\ \A i \in 1..(Len(a) + Len(t)) : s[i] = IF i <= Len(a) THEN a[i] ELSE t[i - Len(a)]
  <2> DEFINE j == a \o t
  <2>1. /\ j \in Seq(S) /\ Len(j) = Len(a) + Len(t)
        /\ \A i \in 1..(Len(a) + Len(t)) : j[i] = IF i <= Len(a) THEN a[i] ELSE t[i - Len(a)]
    <3>1. a \in Seq(S) /\ t \in Seq(S)
      BY <1>1, <1>2
    <3> QED
      BY <3>1, ConcatProperties
  <2>2. s = j
    BY <1>1
  <2> HIDE DEF j
  <2> QED
    BY <2>1, <2>2
<1>5. Len(s) = Len(g) + 2 /\ s[1] = f
  BY <1>1, <1>2, <1>3, <1>4
<1>6. ASSUME NEW i \in 1..(Len(g) + 1) PROVE s[1 + i] = t[i]
  <2>1. 1 + i \in 1..(Len(a) + Len(t)) /\ ~(1 + i <= Len(a)) /\ (1 + i) - Len(a) = i
    BY <1>1, <1>2, <1>3
  <2> QED
    BY <1>4, <2>1
<1>7. s[Len(s)] = z
  <2>1. Len(g) + 1 \in 1..(Len(g) + 1) /\ Len(s) = 1 + (Len(g) + 1)
    BY <1>2, <1>5
  <2> QED
    BY <1>3, <1>6, <2>1
<1> DEFINE y == SubSeq(s, 2, Len(g) + 1)
<1>8. /\ y \in Seq(S) /\ Len(y) = IF 2 <= Len(g) + 1 THEN (Len(g) + 1) - 2 + 1 ELSE 0
      /\ \A i \in 1..((Len(g) + 1) - 2 + 1) : y[i] = s[2 + i - 1]
  <2>1. \A i \in 2..(Len(g) + 1) : s[i] \in S
    <3>1. \A i \in 2..(Len(g) + 1) : i \in 1..Len(s)
      BY <1>2, <1>5
    <3> QED
      BY <1>4, <3>1, ElementOfSeq
  <2>2. 2 \in Int /\ Len(g) + 1 \in Int
    BY <1>2
  <2> QED
    BY <2>1, <2>2, SubSeqProperties
<1> HIDE DEF y
<1>9. Len(y) = Len(g)
  BY <1>2, <1>8
<1>10. ASSUME NEW i \in 1..Len(y) PROVE y[i] = g[i]
  <2>1. i \in 1..((Len(g) + 1) - 2 + 1) /\ i \in 1..(Len(g) + 1) /\ i \in 1..Len(g) /\ 2 + i - 1 = 1 + i
    BY <1>2, <1>9
  <2> QED
    BY <1>3, <1>6, <1>8, <2>1
<1>11. y = g
  BY <1>8, <1>9, <1>10, SeqEqual
<1>12. Len(s) - 1 = Len(g) + 1
  BY <1>2, <1>5
<1> QED
  BY <1>2, <1>4, <1>5, <1>7, <1>11, <1>12 DEF Last, y

\* The first of the fields of a text, and the others.
LEMMA FieldsOf ==
  ASSUME NEW text \in Seq(Character)
  PROVE  \E f \in Seq(Plain), g \in Seq(Seq(Plain)) : Fields(text) = <<f>> \o g
<1>1. CASE text \in Seq(Plain) /\ Fields(text) = <<text>>
  <2>1. <<text>> \in Seq(Seq(Plain))
    BY <1>1
  <2>2. << >> \in Seq(Seq(Plain)) /\ <<text>> \o << >> = <<text>>
    BY <2>1, TextFacts, EmptySeq
  <2> QED
    BY <1>1, <2>2
<1>2. ASSUME NEW p \in Seq(Plain), NEW v \in Seq(Character), Fields(text) = <<p>> \o Fields(v)
      PROVE  \E f \in Seq(Plain), g \in Seq(Seq(Plain)) : Fields(text) = <<f>> \o g
  <2>1. Fields(v) \in Seq(Seq(Plain))
    BY FieldsAppend DEF FieldLists
  <2> QED
    BY <1>2, <2>1
<1> QED
  BY <1>1, <1>2, FirstField

\* The fields between the address and the checksum.
LEMMA FieldsBetween ==
  ASSUME NEW f \in Seq(Plain), NEW g \in Seq(Seq(Plain)), NEW z \in Seq(Plain),
         NEW s, Enclosed(s, f, g, z)
  PROVE  /\ s \in Seq(Seq(Plain)) /\ Len(s) = Len(g) + 2 /\ Len(g) \in Nat
         /\ s[1] = f /\ Last(s) = z /\ SubSeq(s, 2, Len(s) - 1) = g
<1> DEFINE S == Seq(Plain)
<1>1. f \in S /\ g \in Seq(S) /\ z \in S
  OBVIOUS
<1> HIDE DEF S
<1>2. /\ s \in Seq(S) /\ Len(s) = Len(g) + 2 /\ Len(g) \in Nat
      /\ s[1] = f /\ Last(s) = z /\ SubSeq(s, 2, Len(s) - 1) = g
  BY <1>1, Between
<1> QED
  BY <1>2 DEF S

\* Sequences of fields joined.
LEMMA ListAssoc ==
  \A a, b, c \in Seq(Seq(Plain)) : (a \o b) \o c = a \o (b \o c) /\ b \o c \in Seq(Seq(Plain))
BY TextFacts, SMTT(60)

\* Two characters.
LEMMA TwoChars ==
  ASSUME NEW c \in Character, NEW d \in Character
  PROVE  <<c, d>> = <<c>> \o <<d>> /\ <<c, d>> \in Seq(Character)
<1> DEFINE a == <<c>>
           b == <<d>>
           t == <<c, d>>
           j == a \o b
<1>1. t \in Seq(Character) /\ Len(t) = 2 /\ t[1] = c /\ t[2] = d
  OBVIOUS
<1>2. a \in Seq(Character) /\ Len(a) = 1 /\ a[1] = c /\ b \in Seq(Character) /\ Len(b) = 1 /\ b[1] = d
  BY OneChar
<1> HIDE DEF a, b, t
<1>3. j \in Seq(Character) /\ Len(j) = 1 + 1
  BY <1>2, Joins
<1>4. j[1] = c /\ j[1 + 1] = d
  <2>1. 1 \in 1..Len(a) /\ 1 \in 1..Len(b)
    BY <1>2
  <2> QED
    BY <1>2, <2>1, ElementOfJoined
<1> HIDE DEF j
<1>5. \A i \in 1..Len(t) : t[i] = j[i]
  <2>1. \A i \in 1..Len(t) : i = 1 \/ i = 1 + 1
    BY <1>1
  <2> QED
    BY <1>1, <1>4, <2>1
<1>6. t = j
  BY <1>1, <1>3, <1>5, SeqEqual
<1> QED
  BY <1>1, <1>6 DEF t, j, a, b

\* What is known of a line that passed the check of its checksum.
Checked(m, b, x, y, f, g) ==
  /\ Fields(b) = <<f>> \o g
  /\ \E a \in Address(f) : m.talker = a.talker /\ m.tag = a.tag
  /\ \/ x \notin Delimiters /\ m.fields = g /\ Stoul(<<x, y>>) = Checksum(b)
     \/ x \in Delimiters /\ m.fields = g \o <<(<< >>)>> /\ Stoul(<<y>>) = Checksum(b)

\* Its last two characters are the checksum of the rest; a delimiter in the first
\* of them begins a field.
LEMMA CheckedMeans ==
  ASSUME NEW s, NEW p, NEW r, ReadFrom(s, p, r), MakeSentence(s, "check").how = "ok"
  PROVE  \E b \in Seq(NotStar), x, y \in Character, f \in Seq(Plain), g \in Seq(Seq(Plain)) :
           /\ r = b \o (<<"*">> \o <<x, y>>)
           /\ Checked(MakeSentence(s, "check").sentence, b, x, y, f, g)
<1> DEFINE m == MakeSentence(s, "check").sentence
           fs == Fields(r)
           data == SubSeq(fs, 2, Len(fs) - 1)
<1>1. /\ \E a \in Address(fs[1]) :
           m = [talker |-> a.talker, tag |-> a.tag, fields |-> data, block |-> BlockOf(s)]
      /\ EnsureChecksum(s, Last(fs), SearchPos(s)) = "ok"
  BY AcceptedMeans
<1>2. PICK b \in Seq(NotStar), d \in Seq(Character) :
        /\ r = b \o (<<"*">> \o d) /\ Len(d) = 2
        /\ StoulAccepts(Last(fs)) /\ Stoul(Last(fs)) = Checksum(b)
  <2> DEFINE e == Last(fs)
  <2> HIDE DEF fs, e, m, data
  <2>1. EnsureChecksum(s, e, SearchPos(s)) = "ok"
    BY <1>1 DEF e
  <2>2. \E b \in Seq(NotStar), d \in Seq(Character) :
          Summed(r, b, d, e)
    BY <2>1, EnsureMeans
  <2> QED
    BY <2>2 DEF e, Summed
<1>3. PICK a \in Address(fs[1]) :
        m = [talker |-> a.talker, tag |-> a.tag, fields |-> data, block |-> BlockOf(s)]
  BY <1>1
<1> HIDE DEF m, data
<1>4. m.talker = a.talker /\ m.tag = a.tag /\ m.fields = data
  BY <1>3
<1> HIDE DEF fs
<1> DEFINE x == d[1]
           y == d[2]
<1>5. x \in Character /\ y \in Character /\ d = <<x, y>>
  <2>1. 1 \in 1..Len(d) /\ 2 \in 1..Len(d)
    BY <1>2
  <2>2. x \in Character /\ y \in Character
    BY <2>1, ElementOfSeq
  <2>3. Len(<<x, y>>) = 2 /\ <<x, y>>[1] = x /\ <<x, y>>[2] = y
    OBVIOUS
  <2> HIDE DEF x, y
  <2>4. <<x, y>> \in Seq(Character)
    BY <2>2
  <2>5. \A i \in 1..Len(d) : d[i] = <<x, y>>[i]
    <3>1. \A i \in 1..Len(d) : i = 1 \/ i = 2
      BY <1>2
    <3> QED
      BY <2>3, <3>1 DEF x, y
  <2> QED
    BY <1>2, <2>2, <2>3, <2>4, <2>5, SeqEqual
<1> HIDE DEF x, y
<1>6. b \in Seq(Character)
  <2>1. NotStar \subseteq Character
    BY DEF NotStar
  <2> QED
    BY <2>1, TextFacts
<1>7. PICK f \in Seq(Plain), g \in Seq(Seq(Plain)) : Fields(b) = <<f>> \o g
  BY <1>6, FieldsOf
<1> DEFINE F == <<f>>
           D == Fields(d)
<1>8. F \in Seq(Seq(Plain)) /\ D \in Seq(Seq(Plain))
  <2>1. D \in FieldLists
    BY <1>2, FieldsAppend
  <2>2. \A w \in Seq(Plain) : <<w>> \in Seq(Seq(Plain))
    OBVIOUS
  <2> QED
    BY <2>1, <2>2 DEF FieldLists
<1>9. fs = F \o (g \o D)
  <2>1. <<"*">> \in Seq(Character) /\ "*" \in Delimiters
    BY Known, OneChar DEF Delimiters
  <2>2. r = (b \o <<"*">>) \o d
    BY <1>2, <1>6, <2>1, Assoc
  <2>3. Fields((b \o <<"*">>) \o d) = Fields(b) \o Fields(d)
    BY <1>2, <1>6, <2>1, FieldsJoined
  <2>4. fs = (F \o g) \o D
    BY <1>7, <2>2, <2>3 DEF fs
  <2> HIDE DEF F, D
  <2> QED
    BY <1>8, <2>4, ListAssoc
<1>10. ASSUME NEW G \in Seq(Seq(Plain)), NEW z \in Seq(Plain), fs = F \o (G \o <<z>>)
       PROVE  fs[1] = f /\ Last(fs) = z /\ data = G
  <2>1. Enclosed(fs, f, G, z)
    BY <1>10 DEF Enclosed
  <2> HIDE DEF F, D
  <2>2. fs[1] = f /\ Last(fs) = z /\ SubSeq(fs, 2, Len(fs) - 1) = G
    BY <2>1, FieldsBetween
  <2> QED
    BY <2>2 DEF data
<1>11. << >> \in Seq(Plain) /\ <<(<< >>)>> \in Seq(Seq(Plain))
  <2>1. << >> \in Seq(Plain)
    BY EmptySeq
  <2>2. \A w \in Seq(Plain) : <<w>> \in Seq(Seq(Plain))
    OBVIOUS
  <2> QED
    BY <2>1, <2>2
<1>12. \A w \in Seq(Plain) : <<w>> \in Seq(Seq(Plain))
  OBVIOUS
<1>13. \A c \in Plain : <<c>> \in Seq(Plain)
  OBVIOUS
<1> HIDE DEF F, D
<1>14. ~StoulAccepts(<< >>)
  BY DEF StoulAccepts
<1>15. /\ <<x>> \in Seq(Character) /\ <<y>> \in Seq(Character) /\ d = <<x>> \o <<y>>
       /\ d = (<< >> \o <<x>>) \o <<y>> /\ d = (<<x>> \o <<y>>) \o << >>
  <2>1. <<x>> \in Seq(Character) /\ <<y>> \in Seq(Character) /\ <<x, y>> = <<x>> \o <<y>>
    <3>1. \A u, v \in Character : <<u, v>> = <<u>> \o <<v>>
      BY TwoChars
    <3>2. <<x>> \in Seq(Character) /\ <<y>> \in Seq(Character)
      BY <1>5, OneChar
    <3> QED
      BY <1>5, <3>1, <3>2
  <2>2. << >> \o <<x>> = <<x>> /\ d \o << >> = d
    BY <1>2, <2>1, NoText
  <2> QED
    BY <1>5, <2>1, <2>2
<1>16. CASE x \in Delimiters
  <2>1. D = Fields(<< >>) \o Fields(<<y>>)
    <3>1. Fields((<< >> \o <<x>>) \o <<y>>) = Fields(<< >>) \o Fields(<<y>>)
      BY <1>15, <1>16, NoText, FieldsJoined
    <3> QED
      BY <1>15, <3>1 DEF D
  <2>2. Fields(<< >>) = <<(<< >>)>>
    BY FieldsAppend
  <2>3. CASE y \in Delimiters
    <3>1. Fields(<<y>>) = <<(<< >>)>> \o <<(<< >>)>>
      <4>1. (<< >> \o <<y>>) \o << >> = <<y>>
        BY <1>15, NoText
      <4>2. Fields((<< >> \o <<y>>) \o << >>) = Fields(<< >>) \o Fields(<< >>)
        BY <2>3, NoText, FieldsJoined
      <4> QED
        BY <2>2, <4>1, <4>2
    <3> DEFINE e == <<(<< >>)>>
    <3>2. D = e \o (e \o e)
      BY <2>1, <2>2, <3>1
    <3>3. e \in Seq(Seq(Plain))
      BY <1>11
    <3> HIDE DEF e
    <3>4. D = (e \o e) \o e /\ e \o e \in Seq(Seq(Plain))
      BY <3>2, <3>3, ListAssoc
    <3> DEFINE h == e \o e
    <3>5. h \in Seq(Seq(Plain)) /\ D = h \o e
      BY <3>4
    <3> HIDE DEF h
    <3>6. fs = F \o ((g \o h) \o e) /\ g \o h \in Seq(Seq(Plain))
      BY <1>9, <3>3, <3>5, ListAssoc, ZenonT(60)
    <3>7. Last(fs) = << >>
      BY <1>10, <1>11, <3>6 DEF e
    <3> QED
      BY <1>2, <1>14, <3>7
  <2>4. CASE y \notin Delimiters
    <3>1. <<y>> \in Seq(Plain) /\ Fields(<<y>>) = <<(<<y>>)>>
      <4>1. y \in Plain
        BY <1>5, <2>4 DEF Plain
      <4>2. <<y>> \in Seq(Plain)
        BY <1>13, <4>1
      <4> QED
        BY <4>2, FieldsPlain
    <3> DEFINE e == <<(<< >>)>>
               l == <<(<<y>>)>>
    <3>2. D = e \o l
      BY <2>1, <2>2, <3>1
    <3>3. e \in Seq(Seq(Plain)) /\ l \in Seq(Seq(Plain))
      BY <1>11, <1>12, <3>1
    <3> HIDE DEF e, l
    <3>4. fs = F \o ((g \o e) \o l) /\ g \o e \in Seq(Seq(Plain))
      BY <1>9, <3>2, <3>3, ListAssoc
    <3>5. fs[1] = f /\ Last(fs) = <<y>> /\ data = g \o e
      BY <1>10, <3>1, <3>4 DEF l
    <3>6. Checked(m, b, x, y, f, g)
      BY <1>2, <1>4, <1>7, <1>16, <3>5 DEF Checked, e
    <3> QED
      BY <1>2, <1>5, <3>6 DEF m
  <2> QED
    BY <2>3, <2>4
<1>17. CASE x \notin Delimiters
  <2>1. x \in Plain
    BY <1>5, <1>17 DEF Plain
  <2>2. CASE y \in Delimiters
    <3>1. D = Fields(<<x>>) \o Fields(<< >>)
      <4>1. Fields((<<x>> \o <<y>>) \o << >>) = Fields(<<x>>) \o Fields(<< >>)
        BY <1>15, <2>2, NoText, FieldsJoined
      <4> QED
        BY <1>15, <4>1 DEF D
    <3> DEFINE e == <<(<< >>)>>
               l == Fields(<<x>>)
    <3>2. Fields(<< >>) = e
      BY FieldsAppend
    <3>3. e \in Seq(Seq(Plain)) /\ l \in Seq(Seq(Plain))
      BY <1>11, <1>15, FieldsAppend DEF FieldLists
    <3> HIDE DEF e, l
    <3>4. fs = F \o ((g \o l) \o e) /\ g \o l \in Seq(Seq(Plain))
      BY <1>9, <3>1, <3>2, <3>3, ListAssoc, ZenonT(60) DEF l
    <3>5. Last(fs) = << >>
      BY <1>10, <1>11, <3>4 DEF e
    <3> QED
      BY <1>2, <1>14, <3>5
  <2>3. CASE y \notin Delimiters
    <3>1. d \in Seq(Plain)
      <4>1. y \in Plain
        BY <1>5, <2>3 DEF Plain
      <4>2. \A i \in 1..Len(d) : d[i] \in Plain
        <5>1. \A i \in 1..Len(d) : i = 1 \/ i = 2
          BY <1>2
        <5> QED
          BY <2>1, <4>1, <5>1 DEF x, y
      <4>3. Plain \in SUBSET Character
        BY DEF Plain
      <4> QED
        BY <1>2, <4>2, <4>3, Without
    <3>2. D = <<d>>
      BY <3>1, FieldsPlain DEF D
    <3>3. fs[1] = f /\ Last(fs) = d /\ data = g
      BY <1>9, <1>10, <3>1, <3>2
    <3>4. Checked(m, b, x, y, f, g)
      BY <1>2, <1>4, <1>5, <1>7, <1>17, <3>3 DEF Checked
    <3> QED
      BY <1>2, <1>5, <3>4 DEF m
  <2> QED
    BY <2>2, <2>3
<1> QED
  BY <1>16, <1>17

-----------------------------------------------------------------------------
\* Texts, their size and two of them joined, as terms the provers do not expand.
Text == Seq(Character)
Size(s) == Len(s)
One(c) == <<c>>
s ## t == s \o t

\* What is used of texts joined: they are texts,
LEMMA JoinedText == \A s, t \in Text : s ## t \in Text
BY Joins DEF ##, Text

\* with a size,
LEMMA SizeText ==
  \A s, t \in Text : Size(s ## t) = Size(s) + Size(t) /\ Size(s) \in Nat /\ Size(t) \in Nat
BY Joins DEF ##, Text, Size

\* in any order,
LEMMA AssocText == \A s, t, u \in Text : (s ## t) ## u = s ## (t ## u)
BY Assoc DEF ##, Text

\* and so is the empty one.
LEMMA EmptyText ==
  << >> \in Text /\ Size(<< >>) = 0 /\ \A s \in Text : s ## << >> = s /\ << >> ## s = s
BY NoText DEF ##, Text, Size

\* Their characters make a text what it is.
LEMMA EqualTexts ==
  \A s, t \in Text : Size(s) = Size(t) /\ (\A i \in 1..Size(s) : s[i] = t[i]) => s = t
BY SeqEqual DEF Text, Size

\* The characters of two texts joined.
LEMMA ElementsOfText ==
  \A s, t \in Text : \A i \in 1..(Size(s) + Size(t)) :
    (s ## t)[i] = IF i <= Size(s) THEN s[i] ELSE t[i - Size(s)]
BY ConcatProperties DEF ##, Text, Size

\* A text can be cut anywhere.
LEMMA TextCut ==
  ASSUME NEW s \in Text, NEW k \in 0..Size(s)
  PROVE  \E q, z \in Text : s = q ## z /\ Size(q) = k
<1> DEFINE q == SubSeq(s, 1, k)
           z == SubSeq(s, k + 1, Len(s))
<1>1. s \in Seq(Character) /\ k \in 0..Len(s)
  BY DEF Text, Size
<1>2. q \in Seq(Character) /\ z \in Seq(Character) /\ Len(q) = k /\ s = q \o z
  BY <1>1, CutInTwo, ZenonT(60)
<1> HIDE DEF q, z
<1>3. q \in Text /\ z \in Text /\ Size(q) = k
  BY <1>2 DEF Text, Size
<1>4. s = q ## z
  BY <1>2 DEF ##
<1> QED
  BY <1>3, <1>4

\* There is one way to cut it at a place.
LEMMA TextCutOnce ==
  ASSUME NEW s \in Text, NEW t \in Text, NEW p \in Text, NEW r \in Text,
         s ## t = p ## r, Size(s) = Size(p)
  PROVE  s = p /\ t = r
<1>1. /\ Size(s) \in Nat /\ Size(t) \in Nat /\ Size(r) \in Nat
      /\ Size(s ## t) = Size(s) + Size(t) /\ Size(p ## r) = Size(p) + Size(r)
  BY SizeText
<1>2. Size(t) = Size(r)
  BY <1>1
<1>3. /\ \A i \in 1..(Size(s) + Size(t)) : (s ## t)[i] = IF i <= Size(s) THEN s[i] ELSE t[i - Size(s)]
      /\ \A i \in 1..(Size(p) + Size(r)) : (p ## r)[i] = IF i <= Size(p) THEN p[i] ELSE r[i - Size(p)]
  BY ElementsOfText
<1>4. ASSUME NEW i \in 1..Size(s) PROVE s[i] = p[i]
  <2>1. i \in 1..(Size(s) + Size(t)) /\ i <= Size(s)
    BY <1>1
  <2> QED
    BY <1>2, <1>3, <2>1
<1>5. ASSUME NEW i \in 1..Size(t) PROVE t[i] = r[i]
  <2>1. i + Size(s) \in 1..(Size(s) + Size(t)) /\ ~(i + Size(s) <= Size(s)) /\ (i + Size(s)) - Size(s) = i
    BY <1>1
  <2> QED
    BY <1>2, <1>3, <2>1
<1> QED
  BY <1>2, <1>4, <1>5, EqualTexts

\* Of two ways to cut a text, the longer first part begins with the other.
LEMMA CutText ==
  ASSUME NEW s \in Text, NEW t \in Text, NEW p \in Text, NEW r \in Text,
         s ## t = p ## r, Size(p) <= Size(s)
  PROVE  \E z \in Text : s = p ## z /\ r = z ## t
<1>1. Size(p) \in 0..Size(s)
  BY SizeText
<1>2. PICK q, z \in Text : s = q ## z /\ Size(q) = Size(p)
  BY <1>1, TextCut
<1>3. (q ## z) ## t = q ## (z ## t)
  BY AssocText
<1>4. z ## t \in Text
  BY JoinedText
<1>5. q ## (z ## t) = p ## r
  BY <1>2, <1>3
<1>6. q = p /\ z ## t = r
  BY <1>2, <1>4, <1>5, TextCutOnce
<1> QED
  BY <1>2, <1>6

\* Texts with ends of the same length.
LEMMA SameEnd ==
  ASSUME NEW s \in Text, NEW t \in Text, NEW p \in Text, NEW r \in Text,
         s ## t = p ## r, Size(t) = Size(r)
  PROVE  s = p /\ t = r
<1>1. /\ Size(s) \in Nat /\ Size(t) \in Nat /\ Size(r) \in Nat /\ Size(p) \in Nat
      /\ Size(s ## t) = Size(s) + Size(t) /\ Size(p ## r) = Size(p) + Size(r)
  BY SizeText
<1>2. Size(s) = Size(p)
  BY <1>1
<1> QED
  BY <1>2, TextCutOnce

\* At most one character is a text.
LEMMA FewText ==
  \A w \in Few : w \in Text /\ Size(w) \in {0, 1}
BY FewAre DEF Text, Size

\* Damage in the terms of texts.
LEMMA DamagedMeans ==
  ASSUME NEW s, NEW t
  PROVE  Damaged(s, t) <=>
         \E u, v \in Text, w, x \in Few :
           w # x /\ s = u ## (w ## v) /\ t = u ## (x ## v)
<1>1. \A u, v \in Text, w \in Few : (u ## w) ## v = u ## (w ## v)
  BY FewText, AssocText
<1>2. Damaged(s, t) <=>
         \E u, v \in Text, w, x \in Few :
           w # x /\ s = (u ## w) ## v /\ t = (u ## x) ## v
  BY Zenon DEF Damaged, Text, ##
<1> QED
  BY <1>1, <1>2

\* The damage of two texts joined is in one of them.
LEMMA DamagedPart ==
  ASSUME NEW p \in Text, NEW r \in Text, NEW t, Damaged(p ## r, t)
  PROVE  \/ \E q \in Text : t = q ## r /\ Damaged(p, q)
         \/ \E q \in Text : t = p ## q /\ Damaged(r, q)
<1>1. PICK u, v \in Text, w, x \in Few :
        w # x /\ p ## r = u ## (w ## v) /\ t = u ## (x ## v)
  BY DamagedMeans
<1>2. w \in Text /\ x \in Text /\ Size(w) \in {0, 1}
  BY FewText
<1>3. \A a, b \in Text : Damaged(a ## (w ## b), a ## (x ## b))
  BY <1>1, DamagedMeans
<1>4. w ## v \in Text /\ x ## v \in Text /\ u ## w \in Text
  BY <1>2, JoinedText
<1>7. CASE Size(u ## w) <= Size(p)
  <2>1. (u ## w) ## v = p ## r
    BY <1>1, <1>2, AssocText
  <2>2. PICK z \in Text : p = (u ## w) ## z /\ v = z ## r
    BY <1>4, <1>7, <2>1, CutText
  <2>3. p = u ## (w ## z)
    BY <1>2, <2>2, AssocText
  <2>4. u ## (x ## z) \in Text
    BY <1>2, JoinedText
  <2>5. u ## (x ## (z ## r)) = (u ## (x ## z)) ## r
    BY <1>2, JoinedText, AssocText
  <2>6. t = (u ## (x ## z)) ## r
    BY <1>1, <2>2, <2>5
  <2> QED
    BY <1>3, <2>3, <2>4, <2>6
<1>8. CASE ~(Size(u ## w) <= Size(p))
  <2>1. Size(p) <= Size(u)
    <3>1. Size(u ## w) = Size(u) + Size(w) /\ Size(u) \in Nat /\ Size(p) \in Nat
      BY <1>2, SizeText
    <3> QED
      BY <1>2, <1>8, <3>1
  <2>2. PICK z \in Text : u = p ## z /\ r = z ## (w ## v)
    BY <1>1, <1>4, <2>1, CutText
  <2>3. z ## (x ## v) \in Text
    BY <1>2, JoinedText
  <2>4. (p ## z) ## (x ## v) = p ## (z ## (x ## v))
    BY <1>4, AssocText
  <2>5. t = p ## (z ## (x ## v))
    BY <1>1, <2>2, <2>4
  <2> QED
    BY <1>3, <2>2, <2>3, <2>5
<1> QED
  BY <1>7, <1>8

\* One character is a text.
LEMMA OneText ==
  /\ \A c \in Character : One(c) \in Text /\ Size(One(c)) = 1 /\ One(c)[1] = c /\ One(c) \in Few
  /\ \A c, d \in Character : One(c) = One(d) => c = d
BY OneChar DEF One, Text, Size, Few

\* What one character can become.
LEMMA DamagedChar ==
  ASSUME NEW a \in Character, NEW t, Damaged(<<a>>, t)
  PROVE  \/ t = << >>
         \/ \E c \in Character \ {a} : t = <<c>>
         \/ \E c \in Character : t = <<c>> \o <<a>> \/ t = <<a>> \o <<c>>
<1> DEFINE s == <<a>>
<1>1. s \in Seq(Character) /\ Len(s) = 1
  BY OneChar
<1>2. PICK u, v \in Seq(Character), w, x \in Few : w # x /\ s = (u \o w) \o v /\ t = (u \o x) \o v
  BY DEF Damaged
<1> HIDE DEF s
<1>3. /\ w \in Seq(Character) /\ Len(w) \in {0, 1} /\ (Len(w) = 0 <=> w = << >>)
      /\ x \in Seq(Character) /\ Len(u) \in Nat /\ Len(v) \in Nat
  BY FewAre, Joins
<1>4. Len(u) + Len(w) + Len(v) = 1
  <2>1. Len(u \o w) = Len(u) + Len(w) /\ u \o w \in Seq(Character)
    BY <1>3, Joins
  <2>2. Len((u \o w) \o v) = Len(u \o w) + Len(v)
    BY <2>1, Joins
  <2> QED
    BY <1>1, <1>2, <2>1, <2>2
<1>5. \A y \in Seq(Character) : Len(y) = 0 => y = << >>
  BY EmptySeq
<1>6. CASE Len(w) = 1
  <2>1. Len(u) = 0 /\ Len(v) = 0
    BY <1>3, <1>4, <1>6
  <2>2. u = << >> /\ v = << >>
    BY <1>5, <2>1
  <2>3. s = w /\ t = x
    BY <1>2, <1>3, <2>2, NoText
  <2>4. CASE x = << >>
    BY <2>3, <2>4
  <2>5. CASE x # << >>
    <3>1. PICK c \in Character : x = <<c>>
      BY <2>5 DEF Few
    <3>2. c # a
      BY <1>2, <2>3, <3>1 DEF s
    <3> QED
      BY <2>3, <3>1, <3>2
  <2> QED
    BY <2>4, <2>5
<1>7. CASE Len(w) # 1
  <2>1. w = << >> /\ x # << >> /\ Len(u) + Len(v) = 1
    BY <1>2, <1>3, <1>4, <1>7
  <2>2. PICK c \in Character : x = <<c>>
    BY <2>1 DEF Few
  <2>3. s = u \o v
    BY <1>2, <2>1, NoText
  <2>4. CASE Len(u) = 0
    <3>1. u = << >>
      BY <1>5, <2>4
    <3>2. v = s /\ u \o x = x
      BY <1>3, <2>3, <3>1, NoText
    <3>3. t = <<c>> \o <<a>>
      BY <1>2, <2>2, <3>2 DEF s
    <3> QED
      BY <3>3
  <2>5. CASE Len(u) # 0
    <3>1. Len(v) = 0
      BY <1>3, <2>1, <2>5
    <3>2. v = << >>
      BY <1>5, <3>1
    <3>3. s = u
      BY <2>3, <3>2, NoText
    <3>4. u \o x \in Seq(Character)
      BY <1>3, Joins
    <3>5. t = u \o x
      BY <1>2, <3>2, <3>4, NoText
    <3>6. t = <<a>> \o <<c>>
      BY <2>2, <3>3, <3>5 DEF s
    <3> QED
      BY <3>6
  <2> QED
    BY <2>4, <2>5
<1> QED
  BY <1>3, <1>6, <1>7

\* The same in the terms of texts.
LEMMA DamagedOne ==
  ASSUME NEW a \in Character, NEW t, Damaged(One(a), t)
  PROVE  \/ t = << >>
         \/ \E c \in Character \ {a} : t = One(c)
         \/ \E c \in Character : t = One(c) ## One(a) \/ t = One(a) ## One(c)
BY DamagedChar, Zenon DEF One, ##

\* A damaged text is one, and has another checksum.
LEMMA DamagedChecksum ==
  ASSUME NEW s, NEW t, Damaged(s, t)
  PROVE  t \in Text /\ Checksum(s) # Checksum(t)
<1>1. PICK u, v \in Seq(Character), w, x \in Few : w # x /\ s = (u \o w) \o v /\ t = (u \o x) \o v
  BY DEF Damaged
<1>2. Checksum((u \o w) \o v) # Checksum((u \o x) \o v)
  BY <1>1, ChecksumDiffers
<1> QED
  BY <1>1, <1>2, DamagedText DEF Text

-----------------------------------------------------------------------------
\* A character is in a text.
Has(s, c) == \E i \in 1..Size(s) : s[i] = c

\* What is in two texts joined is in one of them.
LEMMA HasJoined ==
  ASSUME NEW s \in Text, NEW t \in Text, NEW c
  PROVE  Has(s ## t, c) <=> Has(s, c) \/ Has(t, c)
<1>1. /\ Size(s) \in Nat /\ Size(t) \in Nat /\ Size(s ## t) = Size(s) + Size(t)
      /\ \A i \in 1..(Size(s) + Size(t)) : (s ## t)[i] = IF i <= Size(s) THEN s[i] ELSE t[i - Size(s)]
  BY SizeText, ElementsOfText
<1>2. ASSUME Has(s ## t, c) PROVE Has(s, c) \/ Has(t, c)
  <2>1. PICK i \in 1..(Size(s) + Size(t)) : (s ## t)[i] = c
    BY <1>1, <1>2 DEF Has
  <2>2. CASE i <= Size(s)
    <3>1. i \in 1..Size(s) /\ s[i] = c
      BY <1>1, <2>1, <2>2
    <3> QED
      BY <3>1 DEF Has
  <2>3. CASE ~(i <= Size(s))
    <3>1. i - Size(s) \in 1..Size(t) /\ t[i - Size(s)] = c
      BY <1>1, <2>1, <2>3
    <3> QED
      BY <3>1 DEF Has
  <2> QED
    BY <2>2, <2>3
<1>3. ASSUME NEW i \in 1..Size(s), s[i] = c PROVE Has(s ## t, c)
  <2>1. i \in 1..(Size(s) + Size(t)) /\ i <= Size(s)
    BY <1>1
  <2>2. (s ## t)[i] = c
    BY <1>1, <1>3, <2>1
  <2> QED
    BY <1>1, <2>1, <2>2 DEF Has
<1>4. ASSUME NEW i \in 1..Size(t), t[i] = c PROVE Has(s ## t, c)
  <2>1. i + Size(s) \in 1..(Size(s) + Size(t)) /\ ~(i + Size(s) <= Size(s)) /\ (i + Size(s)) - Size(s) = i
    BY <1>1
  <2>2. (s ## t)[i + Size(s)] = c
    BY <1>1, <1>4, <2>1
  <2> QED
    BY <1>1, <2>1, <2>2 DEF Has
<1> QED
  BY <1>2, <1>3, <1>4 DEF Has

\* The same for any two.
LEMMA HasText ==
  /\ \A s, t \in Text : \A c : Has(s ## t, c) <=> Has(s, c) \/ Has(t, c)
  /\ \A c : ~Has(<< >>, c)
  /\ \A d \in Character : \A c : Has(One(d), c) <=> c = d
<1>1. \A c : ~Has(<< >>, c)
  BY EmptyText DEF Has
<1>2. ASSUME NEW d \in Character, NEW c PROVE Has(One(d), c) <=> c = d
  <2>1. Size(One(d)) = 1 /\ One(d)[1] = d
    BY OneText
  <2>2. 1..1 = {1}
    OBVIOUS
  <2> QED
    BY <2>1, <2>2 DEF Has
<1> QED
  BY <1>1, <1>2, HasJoined

\* Texts without some of the characters.
LEMMA TextWithout ==
  /\ \A s \in Text : s \in Seq(NotStar) <=> ~Has(s, "*")
  /\ \A s \in Text : s \in Seq(NotBlock) <=> ~Has(s, "\\")
  /\ \A s \in Text : s \in Seq(Plain) <=> \A d \in Delimiters : ~Has(s, d)
  /\ Seq(NotStar) \subseteq Text /\ Seq(NotBlock) \subseteq Text /\ Seq(Plain) \subseteq Text
<1>1. NotStar \in SUBSET Character /\ NotBlock \in SUBSET Character /\ Plain \in SUBSET Character
  BY DEF NotStar, NotBlock, Plain
<1>2. Seq(NotStar) \subseteq Text /\ Seq(NotBlock) \subseteq Text /\ Seq(Plain) \subseteq Text
  BY <1>1, SeqMonotonic DEF Text
<1> SUFFICES ASSUME NEW s \in Text
             PROVE  /\ s \in Seq(NotStar) <=> ~Has(s, "*")
                    /\ s \in Seq(NotBlock) <=> ~Has(s, "\\")
                    /\ s \in Seq(Plain) <=> \A d \in Delimiters : ~Has(s, d)
  BY <1>2
<1>3. s \in Seq(Character) /\ Len(s) = Size(s) /\ \A i \in 1..Size(s) : s[i] \in Character
  BY ElementOfSeq DEF Text, Size
<1>4. /\ s \in Seq(NotStar) <=> \A i \in 1..Size(s) : s[i] \in NotStar
      /\ s \in Seq(NotBlock) <=> \A i \in 1..Size(s) : s[i] \in NotBlock
      /\ s \in Seq(Plain) <=> \A i \in 1..Size(s) : s[i] \in Plain
  BY <1>1, <1>3, Without
<1> QED
  BY <1>3, <1>4 DEF Has, NotStar, NotBlock, Plain

-----------------------------------------------------------------------------
\* The first field of a text.
First(s) == Fields(s)[1]

\* It ends before the first delimiter.
LEMMA FirstEnds ==
  ASSUME NEW p \in Seq(Plain), NEW d \in Delimiters, NEW v \in Text
  PROVE  First(p ## (One(d) ## v)) = p
<1>1. p \in Text /\ d \in Character /\ One(d) \in Text
  BY TextWithout, OneText, Known DEF Delimiters
<1>2. p ## (One(d) ## v) = (p ## One(d)) ## v
  BY <1>1, AssocText
<1>3. (p ## One(d)) ## v = (p \o <<d>>) \o v
  BY DEF ##, One
<1>4. Fields((p \o <<d>>) \o v) = <<p>> \o Fields(v)
  <2>1. p \in Seq(Character) /\ v \in Seq(Character)
    BY <1>1 DEF Text
  <2>2. Fields((p \o <<d>>) \o v) = Fields(p) \o Fields(v)
    BY <2>1, FieldsJoined, Zenon
  <2>3. Fields(p) = <<p>>
    BY FieldsPlain
  <2> QED
    BY <2>2, <2>3
<1>5. Fields(v) \in Seq(Seq(Plain))
  <2>1. v \in Seq(Character)
    BY DEF Text
  <2> QED
    BY <2>1, FieldsAppend DEF FieldLists
<1>6. \A g \in Seq(Seq(Plain)) : (<<p>> \o g)[1] = p
  <2> SUFFICES ASSUME NEW g \in Seq(Seq(Plain)) PROVE (<<p>> \o g)[1] = p
    OBVIOUS
  <2> DEFINE a == <<p>>
             S == Seq(Plain)
  <2>1. a \in Seq(S) /\ Len(a) = 1 /\ a[1] = p
    OBVIOUS
  <2> HIDE DEF a
  <2>2. g \in Seq(S) /\ Len(g) \in Nat
    BY LenProperties
  <2> HIDE DEF S
  <2>3. \A i \in 1..(Len(a) + Len(g)) : (a \o g)[i] = IF i <= Len(a) THEN a[i] ELSE g[i - Len(a)]
    BY <2>1, <2>2, ConcatProperties
  <2>4. 1 \in 1..(Len(a) + Len(g)) /\ 1 <= Len(a)
    BY <2>1, <2>2
  <2> QED
    BY <2>1, <2>3, <2>4 DEF a
<1>7. (<<p>> \o Fields(v))[1] = p
  BY <1>5, <1>6
<1> QED
  BY <1>2, <1>3, <1>4, <1>7 DEF First

\* Or is all of the text.
LEMMA FirstIs ==
  ASSUME NEW s \in Text
  PROVE  \/ s \in Seq(Plain) /\ First(s) = s
         \/ \E p \in Seq(Plain), d \in Delimiters, v \in Text :
              s = p ## (One(d) ## v) /\ First(s) = p
<1>1. s \in Seq(Character)
  BY DEF Text
<1>2. CASE s \in Seq(Plain)
  <2>1. Fields(s) = <<s>>
    BY <1>2, FieldsPlain
  <2> QED
    BY <1>2, <2>1 DEF First
<1>3. CASE s \notin Seq(Plain)
  <2>1. PICK p \in Seq(Plain), d \in Delimiters, v \in Seq(Character) :
          s = (p \o <<d>>) \o v
    BY <1>1, <1>3, FirstField, ZenonT(60)
  <2>2. v \in Text /\ p \in Text /\ One(d) \in Text
    <3>1. d \in Character
      BY Known DEF Delimiters
    <3> QED
      BY <3>1, TextWithout, OneText DEF Text
  <2>3. s = (p ## One(d)) ## v
    BY <2>1 DEF ##, One
  <2>4. s = p ## (One(d) ## v)
    BY <2>2, <2>3, AssocText
  <2>5. First(p ## (One(d) ## v)) = p
    BY <2>2, FirstEnds
  <2> QED
    BY <2>2, <2>4, <2>5
<1> QED
  BY <1>2, <1>3

\* Of two texts joined, the first field ends in the first one if that has a
\* delimiter.
LEMMA FirstOfJoined ==
  ASSUME NEW h \in Text, NEW t \in Text
  PROVE  \/ h \in Seq(Plain) /\ First(h ## t) = h ## First(t)
         \/ \E p \in Seq(Plain), d \in Delimiters, v \in Text :
              h = p ## (One(d) ## v) /\ First(h ## t) = p
<1>0. \A d \in Delimiters : One(d) \in Text
  BY Known, OneText DEF Delimiters
<1>1. ASSUME NEW p \in Seq(Plain), NEW d \in Delimiters, NEW v \in Text,
             h = p ## (One(d) ## v)
      PROVE  First(h ## t) = p
  <2>1. p \in Text /\ One(d) ## v \in Text /\ v ## t \in Text
    BY <1>0, TextWithout, JoinedText
  <2>2. (p ## (One(d) ## v)) ## t = p ## ((One(d) ## v) ## t)
    BY <2>1, AssocText
  <2>3. (One(d) ## v) ## t = One(d) ## (v ## t)
    BY <1>0, AssocText
  <2>4. h ## t = p ## (One(d) ## (v ## t))
    BY <1>1, <2>2, <2>3
  <2> QED
    BY <2>1, <2>4, FirstEnds
<1>2. CASE h \in Seq(Plain)
  <2>1. CASE t \in Seq(Plain) /\ First(t) = t
    <3>1. h ## t \in Text
      BY JoinedText
    <3>2. h ## t \in Seq(Plain)
      BY <1>2, <2>1, <3>1, HasText, TextWithout
    <3>3. Fields(h ## t) = <<h ## t>>
      BY <3>2, FieldsPlain
    <3> QED
      BY <1>2, <2>1, <3>3 DEF First
  <2>2. ASSUME NEW p \in Seq(Plain), NEW d \in Delimiters, NEW v \in Text,
               t = p ## (One(d) ## v), First(t) = p
        PROVE  First(h ## t) = h ## First(t)
    <3>1. p \in Text /\ One(d) ## v \in Text /\ h ## p \in Text
      BY <1>0, TextWithout, JoinedText
    <3>2. h ## t = (h ## p) ## (One(d) ## v)
      BY <2>2, <3>1, AssocText
    <3>3. h ## p \in Seq(Plain)
      BY <1>2, <3>1, HasText, TextWithout
    <3> QED
      BY <2>2, <3>2, <3>3, FirstEnds
  <2> QED
    BY <1>2, <2>1, <2>2, FirstIs
<1>3. CASE h \notin Seq(Plain)
  BY <1>1, <1>3, FirstIs
<1> QED
  BY <1>2, <1>3

-----------------------------------------------------------------------------
\* Two texts without a '*' before the first one are the same.
LEMMA StarOnce ==
  ASSUME NEW u \in Text, NEW v \in Text, NEW s \in Text, NEW t \in Text,
         ~Has(u, "*"), ~Has(v, "*"), u ## (One("*") ## s) = v ## (One("*") ## t)
  PROVE  u = v /\ s = t
<1> DEFINE e == One("*") ## s
           f == One("*") ## t
<1>1. One("*") \in Text /\ Size(One("*")) = 1 /\ One("*")[1] = "*"
  BY OneText, Known
<1>2. e \in Text /\ f \in Text
  BY <1>1, JoinedText
<1>3. e[1] = "*" /\ f[1] = "*" /\ Size(e) >= 1 /\ Size(f) >= 1 /\ Size(e) \in Nat /\ Size(f) \in Nat
  <2>1. Size(s) \in Nat /\ Size(t) \in Nat /\ Size(e) = 1 + Size(s) /\ Size(f) = 1 + Size(t)
    BY <1>1, SizeText
  <2>2. e[1] = "*" /\ f[1] = "*"
    BY <1>1, <2>1, ElementsOfText
  <2> QED
    BY <2>1, <2>2
<1>4. u ## e = v ## f
  OBVIOUS
<1> HIDE DEF e, f
<1>5. \A a, b, x, y \in Text :
        ~Has(a, "*") /\ y[1] = "*" /\ Size(y) >= 1 /\ Size(y) \in Nat /\ a ## x = b ## y
          => Size(a) <= Size(b)
  <2> SUFFICES ASSUME NEW a \in Text, NEW b \in Text, NEW x \in Text, NEW y \in Text,
                      ~Has(a, "*"), y[1] = "*", Size(y) >= 1, Size(y) \in Nat, a ## x = b ## y,
                      Size(b) < Size(a)
               PROVE  FALSE
    <3>1. \A a, b \in Text : Size(a) <= Size(b) \/ Size(b) < Size(a)
      BY SizeText
    <3> QED
      BY <3>1
  <2>1. /\ Size(a) \in Nat /\ Size(b) \in Nat /\ Size(x) \in Nat
        /\ \A i \in 1..(Size(a) + Size(x)) : (a ## x)[i] = IF i <= Size(a) THEN a[i] ELSE x[i - Size(a)]
        /\ \A i \in 1..(Size(b) + Size(y)) : (b ## y)[i] = IF i <= Size(b) THEN b[i] ELSE y[i - Size(b)]
    BY SizeText, ElementsOfText
  <2>2. /\ Size(b) + 1 \in 1..(Size(a) + Size(x)) /\ Size(b) + 1 \in 1..(Size(b) + Size(y))
        /\ Size(b) + 1 <= Size(a) /\ ~(Size(b) + 1 <= Size(b)) /\ (Size(b) + 1) - Size(b) = 1
        /\ Size(b) + 1 \in 1..Size(a)
    BY <2>1
  <2>3. a[Size(b) + 1] = "*"
    BY <2>1, <2>2
  <2> QED
    BY <2>2, <2>3 DEF Has
<1>6. Size(u) <= Size(v) /\ Size(v) <= Size(u)
  BY <1>2, <1>3, <1>4, <1>5
<1>7. Size(u) \in Nat /\ Size(v) \in Nat
  BY SizeText
<1>8. Size(u) = Size(v)
  BY <1>6, <1>7
<1>9. u = v /\ e = f
  BY <1>2, <1>4, <1>8, TextCutOnce
<1>10. One("*") ## s = One("*") ## t
  BY <1>9 DEF e, f
<1> QED
  BY <1>1, <1>9, <1>10, TextCutOnce

\* A text that is not empty begins with a character, and ends with one.
LEMMA TextHead ==
  ASSUME NEW s \in Text, Size(s) > 0
  PROVE  \E c \in Character, t \in Text : s = One(c) ## t
<1>1. 1 \in 0..Size(s)
  BY SizeText
<1>2. PICK q, t \in Text : s = q ## t /\ Size(q) = 1
  BY <1>1, TextCut
<1>3. q[1] \in Character
  <2>1. q \in Seq(Character) /\ 1 \in 1..Len(q)
    BY <1>2 DEF Text, Size
  <2> QED
    BY <2>1, ElementOfSeq
<1>4. Size(One(q[1])) = 1 /\ One(q[1])[1] = q[1] /\ One(q[1]) \in Text
  BY <1>3, OneText
<1>5. \A i \in 1..1 : One(q[1])[i] = q[i]
  BY <1>4
<1>6. q = One(q[1])
  BY <1>2, <1>4, <1>5, EqualTexts
<1> QED
  BY <1>2, <1>3, <1>6

\* The first character of a text.
LEMMA HeadText ==
  ASSUME NEW c \in Character, NEW t \in Text
  PROVE  One(c) ## t # << >> /\ Head(One(c) ## t) = c
<1>1. Size(One(c)) = 1 /\ One(c)[1] = c /\ One(c) \in Text /\ Size(t) \in Nat
  BY OneText, SizeText
<1>2. Size(One(c) ## t) = 1 + Size(t) /\ (One(c) ## t)[1] = c /\ One(c) ## t \in Text
  <2>1. 1 \in 1..(Size(One(c)) + Size(t)) /\ 1 <= Size(One(c))
    BY <1>1
  <2>2. (One(c) ## t)[1] = One(c)[1]
    BY <1>1, <2>1, ElementsOfText
  <2>3. Size(One(c) ## t) = 1 + Size(t) /\ One(c) ## t \in Text
    BY <1>1, SizeText, JoinedText
  <2> QED
    BY <1>1, <2>2, <2>3
<1>3. Size(One(c) ## t) # 0
  BY <1>1, <1>2
<1>4. One(c) ## t # << >>
  BY <1>3, EmptyText
<1> QED
  BY <1>2, <1>4 DEF Text

\* What an address in a block is before: the block's own '*'.
LEMMA BlockStar ==
  ASSUME NEW k \in Blocks, NEW u \in Text, NEW t \in Text, NEW w \in Text,
         k = u ## (t ## w), Size(t) > 0, Address(t) # {}
  PROVE  Has(t ## w, "*")
<1>1. /\ Size(u) \in Nat /\ Size(t) \in Nat /\ Size(w) \in Nat /\ t ## w \in Text
      /\ Size(t ## w) = Size(t) + Size(w) /\ k \in Text /\ Size(k) = Size(u) + (Size(t) + Size(w))
  BY SizeText, JoinedText
<1> DEFINE i == Size(u) + 1
           j == Size(u) + Size(t)
<1>2. i \in 1..Size(k) /\ j \in i..Size(k)
  BY <1>1
<1>3. SubSeq(k, i, j) = t
  <2>1. /\ u \in Seq(Character) /\ t \in Seq(Character) /\ w \in Seq(Character)
    BY DEF Text
  <2>2. SubSeq(u \o (t \o w), Len(u) + 1, Len(u) + Len(t)) = t
    BY <2>1, PartOf
  <2> QED
    BY <2>2 DEF ##, Size
<1>4. DOMAIN k = 1..Size(k) /\ Size(k) = Len(k)
  BY <1>1, LenProperties DEF Text, Size
<1>5. PICK l \in j..Size(k) : k[l] = "*"
  <2>1. i \in DOMAIN k /\ j \in i..Len(k)
    BY <1>2, <1>4
  <2>2. Address(SubSeq(k, i, j)) # {}
    BY <1>3
  <2> HIDE DEF i, j
  <2>3. \E l \in j..Len(k) : k[l] = "*"
    BY <2>1, <2>2, BlocksAssumption
  <2> QED
    BY <1>4, <2>3
<1>6. /\ l \in 1..(Size(u) + Size(t ## w)) /\ ~(l <= Size(u)) /\ l - Size(u) \in 1..Size(t ## w)
  BY <1>1, <1>5
<1>7. (u ## (t ## w))[l] = (t ## w)[l - Size(u)]
  BY <1>1, <1>6, ElementsOfText
<1> QED
  BY <1>5, <1>6, <1>7 DEF Has

\* An address behind a special character has another one in it.
LEMMA AddressTail ==
  ASSUME NEW c \in Special, NEW a \in Text, Address(One(c) ## a) # {}
  PROVE  \E q, t \in Text : a = q ## t /\ Size(t) > 0 /\ Address(t) # {}
<1>1. c \in Character /\ One(c) \in Text /\ Size(One(c)) = 1 /\ One(c)[1] = c
  BY CodeAssumption, OneText
<1> DEFINE s == One(c) ## a
<1>2. s \in Text /\ Size(s) = 1 + Size(a) /\ Size(a) \in Nat /\ s[1] = c
  <2>1. s \in Text /\ Size(s) = 1 + Size(a) /\ Size(a) \in Nat
    BY <1>1, JoinedText, SizeText
  <2>2. 1 \in 1..(Size(One(c)) + Size(a)) /\ 1 <= Size(One(c))
    BY <1>1, <2>1
  <2> QED
    BY <1>1, <2>1, <2>2, ElementsOfText
<1>3. /\ TALKER_LENGTH \in {1, 2}
      /\ \A tag \in Tags : tag \in Text /\ Size(tag) >= TALKER_LENGTH /\ Address(tag) # {}
      /\ \A tag \in Tags : \A i \in 1..Size(tag) : tag[i] \notin Special
  <2>1. \A tag \in Tags : tag \in Seq(NotSpecial) /\ tag \in Text
    BY TagFacts, SeqMonotonic DEF Text
  <2>2. \A tag \in Tags : \A i \in 1..Len(tag) : tag[i] \in NotSpecial
    BY <2>1, ElementOfSeq
  <2> QED
    BY <2>1, <2>2, TagFacts DEF Size, NotSpecial, Address
<1>4. s \notin Tags
  BY <1>2, <1>3
<1> DEFINE tag == SubSeq(s, TALKER_LENGTH + 1, Len(s))
<1>5. tag \in Tags /\ Len(s) = TALKER_LENGTH + TAG_LENGTH
  BY <1>4 DEF Address
<1>6. TALKER_LENGTH \in 1..Size(s)
  BY <1>2, <1>3, <1>5, TagFacts DEF Size
<1> HIDE DEF s
<1>7. PICK p \in Text : s = p ## tag /\ Size(p) = TALKER_LENGTH
  <2> DEFINE p == SubSeq(s, 1, TALKER_LENGTH)
  <2>1. s \in Seq(Character) /\ TALKER_LENGTH \in 0..Len(s)
    BY <1>2, <1>6 DEF Text, Size
  <2>2. p \in Seq(Character) /\ Len(p) = TALKER_LENGTH /\ s = p \o tag
    BY <2>1, CutInTwo, ZenonT(60)
  <2> HIDE DEF p
  <2> QED
    BY <2>2 DEF Text, Size, ##
<1> HIDE DEF tag
<1>8. Size(One(c)) <= Size(p) /\ p ## tag = One(c) ## a
  BY <1>1, <1>3, <1>7 DEF s
<1>9. PICK q \in Text : p = One(c) ## q /\ a = q ## tag
  BY <1>1, <1>3, <1>5, <1>8, CutText
<1>10. Size(tag) > 0
  <2>1. tag \in Text /\ Size(tag) >= TALKER_LENGTH /\ Size(tag) \in Nat
    BY <1>3, <1>5, SizeText
  <2> QED
    BY <1>3, <2>1
<1> QED
  BY <1>3, <1>5, <1>9, <1>10

-----------------------------------------------------------------------------
\* The line s is read as the text r, wherever that begins.
ReadAs(s, r) == r \in Text /\ \E p \in Text : ReadFrom(s, p, r)

\* A line is read from one place.
LEMMA ReadAsOne ==
  ASSUME NEW s, NEW r, NEW t, ReadAs(s, r), ReadAs(s, t)
  PROVE  r = t
<1>1. PICK p \in Text : r \in Text /\ s = p ## r /\ SearchPos(s) = Size(p) + 1
  BY DEF ReadAs, ReadFrom, ##, Size
<1>2. PICK q \in Text : t \in Text /\ s = q ## t /\ SearchPos(s) = Size(q) + 1
  BY DEF ReadAs, ReadFrom, ##, Size
<1>3. Size(p) \in Nat /\ Size(q) \in Nat
  BY SizeText
<1>4. Size(p) = Size(q)
  BY <1>1, <1>2, <1>3
<1>5. p ## r = q ## t
  BY <1>1, <1>2
<1> QED
  BY <1>1, <1>2, <1>4, <1>5, TextCutOnce

\* It begins with the second character, unless there is a tag block,
LEMMA ReadAsSecond ==
  ASSUME NEW c \in Character, NEW r \in Text, c # "\\" \/ ~Has(r, "\\")
  PROVE  ReadAs(One(c) ## r, r)
<1>1. c # "\\" \/ r \in Seq(NotBlock)
  BY TextWithout
<1>2. r \in Seq(Character)
  BY DEF Text
<1>3. ReadFrom(<<c>> \o r, <<c>>, r)
  BY <1>1, <1>2, ReadFromSecond
<1>4. One(c) \in Text
  BY OneText
<1>5. ReadFrom(One(c) ## r, One(c), r)
  BY <1>3 DEF One, ##
<1> QED
  BY <1>4, <1>5 DEF ReadAs

\* and after that with the second character behind it.
LEMMA ReadAsBlock ==
  ASSUME NEW k \in Text, ~Has(k, "\\"), NEW c \in Character, NEW r \in Text
  PROVE  ReadAs(One("\\") ## (k ## (One("\\") ## (One(c) ## r))), r)
<1> DEFINE b == One("\\")
           g == One(c)
           p == b ## (k ## (b ## g))
           q == <<"\\">> \o (k \o (<<"\\">> \o <<c>>))
<1>1. b \in Text /\ g \in Text
  BY OneText, Known
<1>2. k \in Seq(NotBlock) /\ r \in Seq(Character)
  BY TextWithout DEF Text
<1>3. ReadFrom(q \o r, q, r)
  BY <1>2, ReadFromBlock
<1>4. p = q /\ p ## r = q \o r
  BY DEF ##, One
<1> HIDE DEF q
<1>5. ReadFrom(p ## r, p, r)
  BY <1>3, <1>4
<1> HIDE DEF b, g
<1>6. b ## g \in Text /\ k ## (b ## g) \in Text /\ g ## r \in Text /\ p \in Text
  BY <1>1, JoinedText
<1>7. p ## r = b ## ((k ## (b ## g)) ## r)
  BY <1>1, <1>6, AssocText
<1>8. (k ## (b ## g)) ## r = k ## ((b ## g) ## r)
  BY <1>1, <1>6, AssocText
<1>9. (b ## g) ## r = b ## (g ## r)
  BY <1>1, AssocText
<1>10. p ## r = b ## (k ## (b ## (g ## r)))
  BY <1>7, <1>8, <1>9
<1>11. ReadAs(b ## (k ## (b ## (g ## r))), r)
  BY <1>5, <1>6, <1>10 DEF ReadAs
<1> QED
  BY <1>11 DEF b, g

\* The text r that a sentence m was read from: its body b and two characters.
Ended(m, r, b, x, y) ==
  /\ r = b ## (One("*") ## (One(x) ## One(y))) /\ ~Has(b, "*")
  /\ Address(First(b)) # {}
  /\ \E f \in Seq(Plain), g \in Seq(Seq(Plain)) : Checked(m, b, x, y, f, g)

\* Such are the lines that are accepted.
LEMMA AcceptedEnds ==
  ASSUME NEW s, NEW r, ReadAs(s, r), MakeSentence(s, "check").how = "ok"
  PROVE  \E b \in Text, x, y \in Character : Ended(MakeSentence(s, "check").sentence, r, b, x, y)
<1> DEFINE m == MakeSentence(s, "check").sentence
<1>1. PICK p : ReadFrom(s, p, r)
  BY DEF ReadAs
<1>2. PICK b \in Seq(NotStar), x, y \in Character, f \in Seq(Plain), g \in Seq(Seq(Plain)) :
        r = b \o (<<"*">> \o <<x, y>>) /\ Checked(m, b, x, y, f, g)
  BY <1>1, CheckedMeans
<1> HIDE DEF m
<1>3. <<x, y>> = <<x>> \o <<y>>
  BY TwoChars
<1>4. r = b ## (One("*") ## (One(x) ## One(y)))
  BY <1>2, <1>3 DEF ##, One
<1>5. b \in Text /\ ~Has(b, "*")
  BY TextWithout
<1>6. Fields(b) = <<f>> \o g /\ Address(f) # {}
  BY <1>2 DEF Checked
<1>7. First(b) = f
  <2>1. (<<f>> \o g)[1] = f
    <3> DEFINE a == <<f>>
               S == Seq(Plain)
    <3>1. a \in Seq(S) /\ Len(a) = 1 /\ a[1] = f
      OBVIOUS
    <3> HIDE DEF a
    <3>2. g \in Seq(S) /\ Len(g) \in Nat
      BY LenProperties
    <3> HIDE DEF S
    <3>3. \A i \in 1..(Len(a) + Len(g)) : (a \o g)[i] = IF i <= Len(a) THEN a[i] ELSE g[i - Len(a)]
      BY <3>1, <3>2, ConcatProperties
    <3>4. 1 \in 1..(Len(a) + Len(g)) /\ 1 <= Len(a)
      BY <3>1, <3>2
    <3> QED
      BY <3>1, <3>3, <3>4 DEF a
  <2> QED
    BY <1>6, <2>1 DEF First
<1>8. Ended(m, r, b, x, y)
  BY <1>2, <1>4, <1>5, <1>6, <1>7 DEF Ended
<1> QED
  BY <1>5, <1>8 DEF m

-----------------------------------------------------------------------------
\* The texts a line is made of: the body, which begins with no special character,
LEMMA BodyText ==
  ASSUME NEW m \in Objects
  PROVE  /\ Body(m) \in Text /\ ~Has(Body(m), "*") /\ ~Has(Body(m), "\\")
         /\ \E c \in NotSpecial, t \in Text : Body(m) = One(c) ## t
<1> DEFINE a == m.talker \o m.tag
           fs == m.fields
<1>1. Writable(m) /\ Body(m) = a \o Joined(fs)
  BY ObjectIs DEF Body
<1>2. Body(m) \in Text /\ ~Has(Body(m), "*")
  BY <1>1, BodyIs, TextWithout
<1>3. a \in Seq(NotSpecial) /\ Address(a) # {}
  BY <1>1 DEF Writable
<1>4. fs \in Seq(Seq(NotBlock))
  <2>1. PICK t \in Tags : \E n \in FieldCount(t) : fs \in [1..n -> Texts]
    <3>1. PICK t \in Tags :
            m \in [talker : IF Len(t) = TAG_LENGTH THEN Talkers \cup {<< >>} ELSE {<< >>},
                   tag : {t}, block : Blocks,
                   fields : UNION {[1..n -> Texts] : n \in FieldCount(t)}]
      BY DEF Objects
    <3>2. m.fields \in UNION {[1..n -> Texts] : n \in FieldCount(t)}
      BY <3>1
    <3> QED
      BY <3>2
  <2>0. PICK n \in FieldCount(t) : fs \in [1..n -> Texts]
    BY <2>1
  <2>2. n \in Nat
    BY AddressAssumption
  <2>3. \A x \in Texts : x \in Seq(NotBlock)
    <3>1. Character \ (Delimiters \cup {"\\"}) \subseteq NotBlock
      BY DEF NotBlock
    <3>2. \A x \in Texts : x \in Seq(Character \ (Delimiters \cup {"\\"}))
      BY AddressAssumption
    <3> QED
      BY <3>1, <3>2, TextFacts
  <2>4. fs \in [1..n -> Seq(NotBlock)]
    BY <2>0, <2>3
  <2> QED
    BY <2>2, <2>4, FunIsSeq
<1> HIDE DEF a, fs
<1>5. Joined(fs) \in Seq(NotBlock)
  <2>1. << >> \in Seq(NotBlock) /\ "," \in NotBlock
    BY EmptySeq, Known DEF NotBlock
  <2> QED
    BY <1>4, <2>1, JoinedIs
<1>6. Joined(fs) \in Text /\ ~Has(Joined(fs), "\\")
  BY <1>5, TextWithout
<1>7. a \in Text /\ ~Has(a, "\\") /\ \A i \in 1..Size(a) : a[i] \in NotSpecial
  <2>1. NotSpecial \subseteq Character /\ "\\" \notin NotSpecial
    BY DEF NotSpecial, Special
  <2>2. a \in Seq(Character)
    BY <1>3, <2>1, TextFacts
  <2>3. \A i \in 1..Len(a) : a[i] \in NotSpecial
    BY <1>3, ElementOfSeq
  <2> QED
    BY <2>1, <2>2, <2>3 DEF Text, Size, Has
<1>8. Body(m) = a ## Joined(fs)
  BY <1>1 DEF ##
<1>9. ~Has(Body(m), "\\")
  BY <1>6, <1>7, <1>8, HasText
<1>10. Size(a) > 0
  <2>1. a \in Seq(Character)
    BY <1>7 DEF Text
  <2>2. Len(a) >= TALKER_LENGTH /\ Len(a) \in Nat
    BY <1>3, <2>1, AddressSpecial
  <2> QED
    BY <2>2, TagFacts DEF Size
<1>11. PICK c \in Character, t \in Text : a = One(c) ## t
  BY <1>7, <1>10, TextHead
<1>12. c \in NotSpecial
  <2>1. a[1] = c
    <3>1. One(c) \in Text /\ Size(One(c)) = 1 /\ One(c)[1] = c /\ Size(t) \in Nat
      BY OneText, SizeText
    <3>2. 1 \in 1..(Size(One(c)) + Size(t)) /\ 1 <= Size(One(c))
      BY <3>1
    <3>3. (One(c) ## t)[1] = One(c)[1]
      BY <3>1, <3>2, ElementsOfText
    <3> QED
      BY <1>11, <3>1, <3>3
  <2>2. Size(a) \in Nat
    BY <1>7, SizeText
  <2>3. 1 \in 1..Size(a)
    BY <1>10, <2>2
  <2> QED
    BY <1>7, <2>1, <2>3
<1>13. Body(m) = One(c) ## (t ## Joined(fs)) /\ t ## Joined(fs) \in Text
  BY <1>6, <1>8, <1>11, OneText, AssocText, JoinedText
<1> QED
  BY <1>2, <1>9, <1>12, <1>13

\* the tag block, the start token,
LEMMA BlockText ==
  ASSUME NEW m \in Objects
  PROVE  /\ m.block \in Text /\ ~Has(m.block, "\\") /\ m.block \in Blocks
         /\ m.block # << >> =>
              \E c \in Character \ {"$", "!"}, t \in Text : m.block = One(c) ## t
         /\ StartToken(m.tag) \in {"$", "!"} /\ StartToken(m.tag) \in Character
<1>1. m.block \in Blocks /\ m.block \in Seq(NotBlock)
  BY ObjectIs
<1>2. m.block \in Text /\ ~Has(m.block, "\\")
  BY <1>1, TextWithout
<1>3. ASSUME m.block # << >>
      PROVE  \E c \in Character \ {"$", "!"}, t \in Text : m.block = One(c) ## t
  <2> DEFINE k == m.block
  <2>1. k \in Blocks /\ k # << >> /\ k \in Text
    BY <1>1, <1>2, <1>3
  <2> HIDE DEF k
  <2>2. Size(k) > 0
    BY <2>1, EmptySeq DEF Text, Size
  <2>3. PICK c \in Character, t \in Text : k = One(c) ## t
    BY <2>1, <2>2, TextHead
  <2>4. Head(k) = c
    BY <2>3, HeadText
  <2>5. c \notin {"$", "!"}
    BY <2>1, <2>4, BlocksAssumption
  <2> QED
    BY <2>3, <2>5 DEF k
<1>4. StartToken(m.tag) \in {"$", "!"}
  BY DEF StartToken
<1>5. StartToken(m.tag) \in Character
  BY <1>4, Known
<1> QED
  BY <1>1, <1>2, <1>3, <1>4, <1>5

\* the end token and the two digits.
LEMMA EndingText ==
  ASSUME NEW m \in Objects
  PROVE  \E c, d \in Character \ Special :
           /\ Ending(m) = One("*") ## (One(c) ## One(d)) /\ Ending(m) \in Text
           /\ Stoul(<<c, d>>) = Checksum(Body(m))
<1> DEFINE t == ChecksumText(Checksum(Body(m)))
<1>1. t \in Seq(DigitSet) /\ Len(t) = 2 /\ Stoul(t) = Checksum(Body(m)) /\ Ending(m) \in Seq(Character)
  BY ObjectIs, EndingIs
<1>2. Ending(m) = <<"*">> \o t
  BY DEF Ending
<1> HIDE DEF t
<1>3. t[1] \in DigitSet /\ t[2] \in DigitSet /\ t = <<t[1], t[2]>>
  <2>1. 1 \in 1..Len(t) /\ 2 \in 1..Len(t)
    BY <1>1
  <2>2. t[1] \in DigitSet /\ t[2] \in DigitSet
    BY <1>1, <2>1, ElementOfSeq
  <2>3. \A i \in 1..2 : t[i] = <<t[1], t[2]>>[i]
    OBVIOUS
  <2>4. <<t[1], t[2]>> \in Seq(DigitSet) /\ Len(<<t[1], t[2]>>) = 2
    BY <2>2
  <2> QED
    BY <1>1, <2>2, <2>3, <2>4, SeqEqual
<1>4. t[1] \in Character \ Special /\ t[2] \in Character \ Special
  BY <1>3, DigitsAssumption
<1>5. <<t[1], t[2]>> = <<t[1]>> \o <<t[2]>>
  BY <1>4, TwoChars
<1>6. Ending(m) = One("*") ## (One(t[1]) ## One(t[2]))
  BY <1>2, <1>3, <1>5 DEF ##, One
<1>7. Stoul(<<t[1], t[2]>>) = Checksum(Body(m))
  BY <1>1, <1>3
<1> QED
  BY <1>1, <1>4, <1>6, <1>7 DEF Text

-----------------------------------------------------------------------------
\* What is skipped, if a line is read from the middle of its tag block n on: parts
\* of the block and of its tokens.
Before(m, n) ==
  \E u, h \in Text, z \in Few, y \in {<< >>, One("\\")} :
    /\ m.block = u ## h /\ n = y ## (h ## z)
    /\ z = One("\\") \/ (y = << >> /\ h = m.block /\ h # << >>)

\* Only the last character of two texts is not in the first one.
LEMMA PrefixOf ==
  ASSUME NEW h \in Text, NEW z \in Text, NEW p \in Text, NEW d \in Character, NEW v \in Text,
         Size(z) \in {0, 1}, h ## z = p ## (One(d) ## v)
  PROVE  \E w \in Text : h = p ## w
<1>1. One(d) \in Text /\ Size(One(d)) = 1 /\ One(d) ## v \in Text
  BY OneText, JoinedText
<1>2. /\ Size(h) \in Nat /\ Size(p) \in Nat /\ Size(v) \in Nat
      /\ Size(h ## z) = Size(h) + Size(z) /\ Size(One(d) ## v) = 1 + Size(v)
      /\ Size(p ## (One(d) ## v)) = Size(p) + Size(One(d) ## v)
  BY <1>1, SizeText
<1>3. Size(p) <= Size(h)
  BY <1>2
<1> QED
  BY <1>1, <1>3, CutText

\* In this there is no address.
LEMMA NoAddress ==
  ASSUME NEW m \in Objects, NEW n, Before(m, n), ~Has(n, "*"), Size(n) >= TALKER_LENGTH,
         NEW b \in Text, Address(First((n ## One(StartToken(m.tag))) ## b)) # {}
  PROVE  FALSE
<1> DEFINE c == StartToken(m.tag)
           k == m.block
           f == First((n ## One(c)) ## b)
<1>1. PICK u, h \in Text, z \in Few, y \in {<< >>, One("\\")} :
        k = u ## h /\ n = y ## (h ## z)
  BY DEF Before
<1>2. /\ z \in Text /\ Size(z) \in {0, 1} /\ y \in Text /\ k \in Blocks
      /\ c \in {"$", "!"} /\ c \in Character /\ One(c) \in Text /\ Address(f) # {}
      /\ One("\\") \in Text /\ Size(One("\\")) = 1
  BY FewText, EmptyText, OneText, Known, BlockText
<1> HIDE DEF c, k
<1>3. h ## z \in Text /\ n \in Text /\ One(c) ## b \in Text /\ Size(n) \in Nat /\ TALKER_LENGTH \in {1, 2}
  BY <1>1, <1>2, JoinedText, SizeText, TagFacts
<1>4. (n ## One(c)) ## b = n ## (One(c) ## b)
  BY <1>2, <1>3, AssocText
<1>5. f = First(n ## (One(c) ## b))
  BY <1>4
<1> HIDE DEF f
<1>6. ASSUME f = n ## First(One(c) ## b)
      PROVE  FALSE
  <2>1. First(One(c) ## b) = One(c) ## First(b)
    <3>1. ASSUME NEW p \in Seq(Plain), NEW d \in Delimiters, NEW v \in Text, One(c) = p ## (One(d) ## v)
          PROVE  FALSE
      <4>1. d \in Character /\ p \in Text /\ One(d) \in Text
        BY Known, TextWithout, OneText DEF Delimiters
      <4>2. One(d) ## v \in Text
        BY <4>1, JoinedText
      <4>3. Has(One(c), d)
        BY <3>1, <4>1, <4>2, HasText
      <4> QED
        BY <1>2, <4>1, <4>3, HasText DEF Delimiters
    <3> QED
      BY <1>2, <3>1, FirstOfJoined
  <2>2. First(b) \in Text
    BY FirstIs, TextWithout
  <2> DEFINE r == One(c) ## First(b)
  <2>3. r \in Text /\ Size(r) = 1 + Size(First(b)) /\ Size(First(b)) \in Nat /\ r[1] = c
    <3>1. Size(One(c)) = 1 /\ One(c)[1] = c
      BY <1>2, OneText
    <3>2. r \in Text /\ Size(r) = 1 + Size(First(b)) /\ Size(First(b)) \in Nat
      BY <1>2, <2>2, <3>1, JoinedText, SizeText
    <3>3. 1 \in 1..(Size(One(c)) + Size(First(b))) /\ 1 <= Size(One(c))
      BY <3>1, <3>2
    <3>4. r[1] = One(c)[1]
      BY <1>2, <2>2, <3>3, ElementsOfText
    <3> QED
      BY <3>1, <3>2, <3>4
  <2>4. f = n ## r
    BY <1>6, <2>1
  <2> HIDE DEF r
  <2>5. f \in Text /\ Size(f) = Size(n) + Size(r)
    BY <1>3, <2>3, <2>4, JoinedText, SizeText
  <2>6. /\ Size(n) + 1 \in 1..(Size(n) + Size(r)) /\ ~(Size(n) + 1 <= Size(n))
        /\ (Size(n) + 1) - Size(n) = 1 /\ Size(n) + 1 > TALKER_LENGTH
    BY <1>3, <2>3
  <2>7. f[Size(n) + 1] = c
    BY <1>3, <2>3, <2>4, <2>6, ElementsOfText
  <2>8. f \in Seq(Character) /\ Size(n) + 1 \in 1..Len(f)
    BY <2>5, <2>6 DEF Text, Size
  <2>9. c \notin Special
    BY <1>2, <2>6, <2>7, <2>8, AddressSpecial
  <2> QED
    BY <1>2, <2>9 DEF Special
<1>7. ASSUME NEW p \in Seq(Plain), NEW d \in Delimiters, NEW v \in Text,
             n = p ## (One(d) ## v), f = p
      PROVE  FALSE
  <2>1. d \in Character /\ p \in Text /\ One(d) \in Text /\ One(d) ## v \in Text
    BY Known, TextWithout, OneText, JoinedText DEF Delimiters
  <2>2. Size(p) \in Nat /\ Size(p) > 0
    <3>1. p \in Seq(Character)
      BY <2>1 DEF Text
    <3>2. Len(p) >= TALKER_LENGTH /\ Len(p) \in Nat
      BY <1>2, <1>7, <3>1, AddressSpecial
    <3> QED
      BY <1>3, <3>2 DEF Size
  <2>3. ASSUME NEW q \in Text, NEW t \in Text, NEW w \in Text,
               h = q ## (t ## w), Size(t) > 0, Address(t) # {}
        PROVE  FALSE
    <3>1. t ## w \in Text /\ u ## q \in Text
      BY JoinedText
    <3>2. k = (u ## q) ## (t ## w)
      BY <1>1, <2>3, <3>1, AssocText
    <3>3. Has(t ## w, "*")
      BY <1>2, <2>3, <3>1, <3>2, BlockStar
    <3>4. Has(h, "*")
      BY <2>3, <3>1, <3>3, HasText
    <3>5. Has(n, "*")
      BY <1>1, <1>2, <1>3, <3>4, HasText
    <3> QED
      BY <3>5
  <2>4. CASE y = << >>
    <3>1. h ## z = p ## (One(d) ## v)
      BY <1>1, <1>3, <1>7, <2>4, EmptyText
    <3>2. PICK w \in Text : h = p ## w
      BY <1>2, <2>1, <3>1, PrefixOf
    <3>3. p ## w \in Text
      BY <2>1, JoinedText
    <3>4. h = << >> ## (p ## w) /\ << >> \in Text
      BY <3>2, <3>3, EmptyText
    <3> QED
      BY <1>2, <1>7, <2>1, <2>2, <2>3, <3>4
  <2>5. CASE y = One("\\")
    <3>1. One("\\") ## (h ## z) = p ## (One(d) ## v)
      BY <1>1, <1>7, <2>5
    <3>2. Size(One("\\")) <= Size(p)
      BY <1>2, <2>2
    <3>3. PICK a \in Text : p = One("\\") ## a /\ h ## z = a ## (One(d) ## v)
      BY <1>2, <1>3, <2>1, <3>1, <3>2, CutText
    <3>4. PICK w \in Text : h = a ## w
      BY <1>2, <2>1, <3>3, PrefixOf
    <3>5. Address(One("\\") ## a) # {} /\ "\\" \in Special
      BY <1>2, <1>7, <3>3 DEF Special
    <3>6. PICK q, t \in Text : a = q ## t /\ Size(t) > 0 /\ Address(t) # {}
      BY <3>5, AddressTail
    <3>7. (q ## t) ## w = q ## (t ## w)
      BY AssocText
    <3> QED
      BY <2>3, <3>4, <3>6, <3>7
  <2> QED
    BY <2>4, <2>5
<1> QED
  BY <1>3, <1>5, <1>6, <1>7, FirstOfJoined

-----------------------------------------------------------------------------
\* A line with the end of the one of m, read from g on: g does not change the
\* checksum, and the line begins with an address.
LEMMA Skipped ==
  ASSUME NEW m \in Objects, NEW g \in Text, NEW s, ReadAs(s, g ## (Body(m) ## Ending(m))),
         MakeSentence(s, "check").how = "ok"
  PROVE  /\ ~Has(g, "*") /\ Checksum(g ## Body(m)) = Checksum(Body(m))
         /\ Address(First(g ## Body(m))) # {}
         /\ \E c, d \in Character \ Special :
              Ended(MakeSentence(s, "check").sentence, g ## (Body(m) ## Ending(m)), g ## Body(m), c, d)
<1> DEFINE q == Body(m)
           e == Ending(m)
           r == g ## (q ## e)
           w == MakeSentence(s, "check").sentence
<1>1. q \in Text
  BY BodyText
<1>2. PICK c, d \in Character \ Special :
        e = One("*") ## (One(c) ## One(d)) /\ e \in Text /\ Stoul(<<c, d>>) = Checksum(q)
  BY EndingText
<1>3. PICK b \in Text, x, y \in Character : Ended(w, r, b, x, y)
  BY AcceptedEnds
<1> HIDE DEF q, e, w
<1>4. r = (g ## q) ## e /\ g ## q \in Text
  BY <1>1, <1>2, AssocText, JoinedText
<1> HIDE DEF r
<1>5. \A i, j \in Character : /\ One("*") ## (One(i) ## One(j)) \in Text
                              /\ Size(One("*") ## (One(i) ## One(j))) = 3
                              /\ One(i) ## One(j) \in Text
  <2> TAKE i, j \in Character
  <2>1. /\ One(i) \in Text /\ One(j) \in Text /\ One("*") \in Text
        /\ Size(One(i)) = 1 /\ Size(One(j)) = 1 /\ Size(One("*")) = 1
    BY OneText, Known
  <2>2. One(i) ## One(j) \in Text /\ Size(One(i) ## One(j)) = 1 + 1
    BY <2>1, JoinedText, SizeText
  <2>3. Size(One("*") ## (One(i) ## One(j))) = 1 + (1 + 1) /\ One("*") ## (One(i) ## One(j)) \in Text
    BY <2>1, <2>2, JoinedText, SizeText
  <2> QED
    BY <2>2, <2>3
<1>6. r = b ## (One("*") ## (One(x) ## One(y)))
  BY <1>3 DEF Ended
<1>7. g ## q = b /\ e = One("*") ## (One(x) ## One(y))
  <2> DEFINE t == One("*") ## (One(x) ## One(y))
  <2>1. t \in Text /\ Size(t) = 3 /\ Size(e) = 3
    BY <1>2, <1>5
  <2>2. (g ## q) ## e = b ## t
    BY <1>4, <1>6
  <2> HIDE DEF t
  <2>3. g ## q = b /\ e = t
    BY <1>2, <1>4, <2>1, <2>2, SameEnd
  <2> QED
    BY <2>3 DEF t
<1>8. x = c /\ y = d
  <2>1. One("*") \in Text /\ Size(One("*")) = 1
    BY OneText, Known
  <2>2. One(c) ## One(d) = One(x) ## One(y)
    <3>1. One("*") ## (One(c) ## One(d)) = One("*") ## (One(x) ## One(y))
      BY <1>2, <1>7
    <3> QED
      BY <1>5, <2>1, <3>1, TextCutOnce
  <2>3. One(c) = One(x) /\ One(d) = One(y)
    BY <2>2, OneText, TextCutOnce
  <2> QED
    BY <2>3, OneText
<1>9. Ended(w, r, g ## q, c, d)
  BY <1>3, <1>7, <1>8
<1>10. ~Has(g, "*")
  BY <1>1, <1>9, HasText DEF Ended
<1>11. Checksum(g ## q) = Checksum(q)
  <2>1. c \notin Delimiters
    BY DEF Special
  <2>2. Stoul(<<c, d>>) = Checksum(g ## q)
    BY <1>9, <2>1 DEF Ended, Checked
  <2> QED
    BY <1>2, <2>2
<1>12. Address(First(g ## q)) # {}
  BY <1>9 DEF Ended
<1> QED
  BY <1>9, <1>10, <1>11, <1>12 DEF q, e, r, w

\* One character changes the checksum, two do unless they are the same.
LEMMA SumLonger ==
  ASSUME NEW s \in Text, NEW c \in Character
  PROVE  /\ Checksum(One(c) ## s) # Checksum(s)
         /\ \A d \in Character : Checksum((One(c) ## One(d)) ## s) = Checksum(s) => c = d
<1>1. s \in Seq(Character)
  BY DEF Text
<1>2. Checksum(<<c>> \o s) # Checksum(s)
  BY <1>1, ChecksumLonger
<1>3. ASSUME NEW d \in Character, Checksum((One(c) ## One(d)) ## s) = Checksum(s)
      PROVE  c = d
  <2>1. <<c, d>> = <<c>> \o <<d>>
    BY TwoChars
  <2>2. Checksum(<<c, d>> \o s) = Checksum(s)
    BY <1>3, <2>1 DEF ##, One
  <2> QED
    BY <1>1, <2>2, ChecksumLonger
<1> QED
  BY <1>2, <1>3 DEF ##, One

\* Texts of one character.
LEMMA SizeOne ==
  ASSUME NEW s \in Text, Size(s) = 1
  PROVE  \E c \in Character : s = One(c)
<1>1. PICK c \in Character, t \in Text : s = One(c) ## t
  BY TextHead
<1>2. Size(One(c)) = 1 /\ One(c) \in Text /\ Size(s) = Size(One(c)) + Size(t) /\ Size(t) \in Nat
  BY <1>1, OneText, SizeText
<1>3. Size(t) = 0
  BY <1>2
<1>4. t = << >>
  BY <1>3, EmptySeq DEF Text, Size
<1> QED
  BY <1>1, <1>2, <1>4, EmptyText

\* What is skipped of a tag block is not a start token.
LEMMA BeforeIsNot ==
  ASSUME NEW m \in Objects, NEW n, Before(m, n)
  PROVE  n \in Text /\ n # One(StartToken(m.tag))
<1> DEFINE c == StartToken(m.tag)
           k == m.block
<1>1. PICK u, h \in Text, z \in Few, y \in {<< >>, One("\\")} :
        /\ k = u ## h /\ n = y ## (h ## z)
        /\ z = One("\\") \/ (y = << >> /\ h = k /\ h # << >>)
  BY DEF Before
<1>2. c \in {"$", "!"} /\ c \in Character /\ z \in Text /\ y \in Text /\ k \in Text
  BY BlockText, FewText, EmptyText, OneText, Known
<1>3. ASSUME k # << >> PROVE \E i \in Character \ {"$", "!"}, t \in Text : k = One(i) ## t
  BY <1>3, BlockText
<1> HIDE DEF c, k
<1>4. h ## z \in Text /\ n \in Text
  BY <1>1, <1>2, JoinedText
<1>5. ASSUME n = One(c), z = One("\\") PROVE FALSE
  <2>1. Has(n, "\\")
    <3>1. Has(z, "\\")
      BY <1>5, HasText, Known
    <3>2. Has(h ## z, "\\")
      BY <1>2, <3>1, HasText
    <3> QED
      BY <1>1, <1>2, <1>4, <3>2, HasText
  <2> QED
    BY <1>2, <1>5, <2>1, HasText
<1>6. ASSUME n = One(c), y = << >>, h = k, h # << >> PROVE FALSE
  <2>1. PICK i \in Character \ {"$", "!"}, t \in Text : k = One(i) ## t
    BY <1>3, <1>6
  <2>2. One(i) \in Text /\ Has(One(i), i)
    BY OneText, HasText
  <2>3. Has(h, i)
    BY <1>6, <2>1, <2>2, HasText
  <2>4. Has(n, i)
    BY <1>1, <1>2, <1>4, <2>3, HasText
  <2> QED
    BY <1>2, <1>6, <2>4, HasText
<1> QED
  BY <1>1, <1>4, <1>5, <1>6 DEF c

\* So nothing was skipped, if the line is accepted.
LEMMA NothingSkipped ==
  ASSUME NEW m \in Objects, NEW g \in Text, NEW s, ReadAs(s, g ## (Body(m) ## Ending(m))),
         MakeSentence(s, "check").how = "ok",
         \/ g = << >> \/ Size(g) = 1
         \/ \E n : Before(m, n) /\ g = n ## One(StartToken(m.tag))
  PROVE  g = << >>
<1> DEFINE q == Body(m)
           c == StartToken(m.tag)
<1>1. ~Has(g, "*") /\ Checksum(g ## q) = Checksum(q) /\ Address(First(g ## q)) # {}
  BY Skipped
<1>2. q \in Text /\ c \in Character
  BY BodyText, BlockText
<1>3. ASSUME Size(g) = 1 PROVE FALSE
  <2>1. PICK i \in Character : g = One(i)
    BY <1>3, SizeOne
  <2> HIDE DEF q
  <2> QED
    BY <1>1, <1>2, <2>1, SumLonger
<1>4. ASSUME NEW n, Before(m, n), g = n ## One(c) PROVE FALSE
  <2>1. n \in Text /\ n # One(c)
    BY <1>4, BeforeIsNot
  <2>2. One(c) \in Text /\ Size(One(c)) = 1 /\ Size(n) \in Nat /\ TALKER_LENGTH \in {1, 2}
    BY <1>2, <2>1, OneText, SizeText, TagFacts
  <2>3. ~Has(n, "*")
    BY <1>1, <1>4, <2>1, <2>2, HasText
  <2>4. ~(Size(n) >= TALKER_LENGTH)
    BY <1>1, <1>2, <1>4, <2>3, NoAddress
  <2>5. CASE Size(n) = 0
    <3>1. n = << >>
      BY <2>1, <2>5, EmptySeq DEF Text, Size
    <3>2. g = One(c)
      BY <1>4, <2>2, <3>1, EmptyText
    <3> QED
      BY <1>3, <2>2, <3>2
  <2>6. CASE Size(n) = 1
    <3>1. PICK i \in Character : n = One(i)
      BY <2>1, <2>6, SizeOne
    <3> HIDE DEF q, c
    <3>2. i = c
      BY <1>1, <1>2, <1>4, <3>1, SumLonger
    <3> QED
      BY <2>1, <3>1, <3>2
  <2>7. Size(n) = 0 \/ Size(n) = 1
    BY <2>2, <2>4
  <2> QED
    BY <2>5, <2>6, <2>7
<1> QED
  BY <1>3, <1>4

\* Nor does it begin behind the first character of the body.
LEMMA NotShorter ==
  ASSUME NEW m \in Objects, NEW c \in Character, NEW t \in Text, Body(m) = One(c) ## t,
         NEW s, ReadAs(s, t ## Ending(m)), MakeSentence(s, "check").how = "ok"
  PROVE  FALSE
<1> DEFINE e == Ending(m)
           r == t ## e
           w == MakeSentence(s, "check").sentence
<1>1. PICK i, d \in Character \ Special :
        e = One("*") ## (One(i) ## One(d)) /\ e \in Text /\ Stoul(<<i, d>>) = Checksum(Body(m))
  BY EndingText
<1>2. PICK b \in Text, x, y \in Character : Ended(w, r, b, x, y)
  BY AcceptedEnds
<1> HIDE DEF e, w
<1>3. ~Has(t, "*")
  <2>1. ~Has(One(c) ## t, "*") /\ One(c) \in Text
    BY BodyText, OneText
  <2> QED
    BY <2>1, HasText
<1>4. t ## (One("*") ## (One(i) ## One(d))) = b ## (One("*") ## (One(x) ## One(y))) /\ ~Has(b, "*")
  BY <1>1, <1>2 DEF Ended
<1>5. One(i) ## One(d) \in Text /\ One(x) ## One(y) \in Text
  BY OneText, JoinedText
<1>6. t = b /\ One(i) ## One(d) = One(x) ## One(y)
  BY <1>3, <1>4, <1>5, StarOnce
<1>7. One(i) = One(x) /\ One(d) = One(y)
  BY <1>6, OneText, TextCutOnce
<1>8. i = x /\ d = y
  BY <1>7, OneText
<1>9. Stoul(<<i, d>>) = Checksum(t)
  <2>1. x \notin Delimiters
    BY <1>8 DEF Special
  <2> QED
    BY <1>2, <1>6, <1>8, <2>1 DEF Ended, Checked
<1>10. Checksum(One(c) ## t) # Checksum(t)
  BY SumLonger
<1> QED
  BY <1>1, <1>9, <1>10

-----------------------------------------------------------------------------
\* A sentence read from the body of m is m, or has one field more.
LEMMA ReadsBody ==
  ASSUME NEW m \in Objects, NEW w, NEW r, NEW x, NEW y, Ended(w, r, Body(m), x, y)
  PROVE  /\ x \notin Delimiters => Reads(w, m)
         /\ x \in Delimiters => Reads(w, OneFieldMore(m))
<1>1. PICK f \in Seq(Plain), g \in Seq(Seq(Plain)) : Checked(w, Body(m), x, y, f, g)
  BY DEF Ended
<1> DEFINE a == m.talker \o m.tag
           fs == m.fields
<1>2. Writable(m)
  BY ObjectIs
<1>3. Fields(Body(m)) = <<a>> \o fs /\ fs \in Seq(Seq(Plain)) /\ a \in Seq(NotSpecial)
      /\ Address(a) = {[talker |-> m.talker, tag |-> m.tag]}
  BY <1>2, BodyIs DEF Writable
<1>4. a \in Seq(Plain)
  BY <1>3, TagFacts, TextFacts
<1>5. Fields(Body(m)) = <<f>> \o g
  BY <1>1 DEF Checked
<1> HIDE DEF a, fs
<1>6. f = a /\ g = fs
  <2> DEFINE S == Seq(Plain)
             i == <<f>>
             j == <<a>>
  <2>1. i \in Seq(S) /\ j \in Seq(S) /\ Len(i) = 1 /\ Len(j) = 1 /\ i[1] = f /\ j[1] = a
    BY <1>4
  <2>2. i \o g = j \o fs
    BY <1>3, <1>5
  <2>3. g \in Seq(S) /\ fs \in Seq(S)
    BY <1>3
  <2> HIDE DEF S, i, j
  <2>4. i = j /\ g = fs
    BY <2>1, <2>2, <2>3, JoinedSame
  <2> QED
    BY <2>1, <2>4
<1>7. w.talker = m.talker /\ w.tag = m.tag
  BY <1>1, <1>3, <1>6 DEF Checked
<1>8. ASSUME x \notin Delimiters PROVE Reads(w, m)
  <2>1. w.fields = fs
    BY <1>1, <1>6, <1>8 DEF Checked
  <2> QED
    BY <1>7, <2>1 DEF Reads, fs
<1>9. ASSUME x \in Delimiters PROVE Reads(w, OneFieldMore(m))
  <2>1. w.fields = fs \o <<(<< >>)>>
    BY <1>1, <1>6, <1>9 DEF Checked
  <2>2. Append(fs, << >>) = fs \o <<(<< >>)>>
    <3> DEFINE S == Seq(Plain)
    <3>1. fs \in Seq(S) /\ << >> \in S
      BY <1>3, EmptySeq
    <3> HIDE DEF S
    <3> QED
      BY <3>1, AppendIsConcat
  <2>3. PICK t \in Tags :
          m \in [talker : IF Len(t) = TAG_LENGTH THEN Talkers \cup {<< >>} ELSE {<< >>},
                 tag : {t}, block : Blocks,
                 fields : UNION {[1..n -> Texts] : n \in FieldCount(t)}]
    BY DEF Objects
  <2>4. /\ OneFieldMore(m).talker = m.talker /\ OneFieldMore(m).tag = m.tag
        /\ OneFieldMore(m).fields = Append(fs, << >>)
    BY <2>3 DEF OneFieldMore, fs
  <2> QED
    BY <1>7, <2>1, <2>2, <2>4 DEF Reads
<1> QED
  BY <1>8, <1>9

\* A damaged body has another checksum.
LEMMA BodyDamaged ==
  ASSUME NEW m \in Objects, NEW t, Damaged(Body(m), t),
         NEW s, ReadAs(s, t ## Ending(m)), MakeSentence(s, "check").how = "ok"
  PROVE  FALSE
<1> DEFINE e == Ending(m)
           w == MakeSentence(s, "check").sentence
<1>1. PICK i, d \in Character \ Special :
        e = One("*") ## (One(i) ## One(d)) /\ e \in Text /\ Stoul(<<i, d>>) = Checksum(Body(m))
  BY EndingText
<1>2. PICK b \in Text, x, y \in Character : Ended(w, t ## e, b, x, y)
  BY AcceptedEnds
<1> HIDE DEF e, w
<1>3. t \in Text /\ Checksum(Body(m)) # Checksum(t)
  BY DamagedChecksum
<1>4. \A u, v \in Character : /\ Size(One("*") ## (One(u) ## One(v))) = 3
                              /\ One("*") ## (One(u) ## One(v)) \in Text
                              /\ One(u) ## One(v) \in Text
  <2> TAKE u, v \in Character
  <2>1. /\ One(u) \in Text /\ One(v) \in Text /\ One("*") \in Text
        /\ Size(One(u)) = 1 /\ Size(One(v)) = 1 /\ Size(One("*")) = 1
    BY OneText, Known
  <2>2. One(u) ## One(v) \in Text /\ Size(One(u) ## One(v)) = 1 + 1
    BY <2>1, JoinedText, SizeText
  <2>3. Size(One("*") ## (One(u) ## One(v))) = 1 + (1 + 1) /\ One("*") ## (One(u) ## One(v)) \in Text
    BY <2>1, <2>2, JoinedText, SizeText
  <2> QED
    BY <2>2, <2>3
<1>5. t = b /\ One("*") ## (One(i) ## One(d)) = One("*") ## (One(x) ## One(y))
  <2>1. t ## (One("*") ## (One(i) ## One(d))) = b ## (One("*") ## (One(x) ## One(y)))
    BY <1>1, <1>2 DEF Ended
  <2> QED
    BY <1>3, <1>4, <2>1, SameEnd
<1>6. One("*") \in Text /\ Size(One("*")) = 1
  BY OneText, Known
<1>7. One(i) ## One(d) = One(x) ## One(y)
  BY <1>4, <1>5, <1>6, TextCutOnce
<1>8. One(i) = One(x) /\ One(d) = One(y)
  BY <1>7, OneText, TextCutOnce
<1>9. i = x /\ d = y
  BY <1>8, OneText
<1>10. Stoul(<<i, d>>) = Checksum(t)
  <2>1. x \notin Delimiters
    BY <1>9 DEF Special
  <2> QED
    BY <1>2, <1>5, <1>9, <2>1 DEF Ended, Checked
<1> QED
  BY <1>1, <1>3, <1>10

\* A damaged digit of two, of which there are two again.
LEMMA DigitDamaged ==
  ASSUME NEW c \in Character, NEW d \in Character, NEW x \in Character, NEW y \in Character,
         Damaged(One(c) ## One(d), One(x) ## One(y)), x # c
  PROVE  y = d
<1>1. /\ One(c) \in Text /\ One(d) \in Text /\ One(x) \in Text /\ One(y) \in Text
      /\ Size(One(c)) = 1 /\ Size(One(d)) = 1 /\ Size(One(x)) = 1 /\ Size(One(y)) = 1
  BY OneText
<1>2. CASE \E q \in Text : One(x) ## One(y) = q ## One(d)
  <2>1. PICK q \in Text : One(x) ## One(y) = q ## One(d)
    BY <1>2
  <2>2. One(y) = One(d)
    BY <1>1, <2>1, SameEnd
  <2> QED
    BY <2>2, OneText
<1>3. CASE \E q \in Text : One(x) ## One(y) = One(c) ## q
  <2>1. PICK q \in Text : One(x) ## One(y) = One(c) ## q
    BY <1>3
  <2>2. One(x) = One(c)
    BY <1>1, <2>1, TextCutOnce
  <2> QED
    BY <2>2, OneText
<1> QED
  BY <1>1, <1>2, <1>3, DamagedPart

\* What is left of a damaged end: the end token, and two characters that are the
\* checksum of the body.
LEMMA EndDamaged ==
  ASSUME NEW m \in Objects, NEW t, Damaged(Ending(m), t),
         NEW s, ReadAs(s, Body(m) ## t), MakeSentence(s, "check").how = "ok"
  PROVE  \E x, y \in Character :
           /\ Ended(MakeSentence(s, "check").sentence, Body(m) ## t, Body(m), x, y)
           /\ t = One("*") ## (One(x) ## One(y))
           /\ x \in Delimiters => \E c \in Character : Ending(m) = One("*") ## (One(c) ## One(y))
<1> DEFINE q == Body(m)
           r == q ## t
           w == MakeSentence(s, "check").sentence
<1>1. PICK c, d \in Character \ Special :
        /\ Ending(m) = One("*") ## (One(c) ## One(d)) /\ Stoul(<<c, d>>) = Checksum(q)
  BY EndingText
<1>2. PICK b \in Text, x, y \in Character : Ended(w, r, b, x, y)
  BY AcceptedEnds
<1>3. q \in Text /\ ~Has(q, "*")
  BY BodyText
<1> HIDE DEF q, w
<1>4. /\ \A i \in Character : One(i) \in Text /\ Size(One(i)) = 1
      /\ One("*") \in Text /\ "*" \in Character
  BY OneText, Known
<1>5. /\ One(c) ## One(d) \in Text /\ Size(One(c) ## One(d)) = 2
      /\ One(x) ## One(y) \in Text /\ Size(One(x) ## One(y)) = 2
  <2>1. One(c) ## One(d) \in Text /\ One(x) ## One(y) \in Text
    BY <1>4, JoinedText
  <2>2. Size(One(c) ## One(d)) = 1 + 1 /\ Size(One(x) ## One(y)) = 1 + 1
    BY <1>4, SizeText
  <2> QED
    BY <2>1, <2>2
<1>6. ~Has(One(c) ## One(d), "*")
  BY <1>4, HasText DEF Special, Delimiters
<1>7. r = b ## (One("*") ## (One(x) ## One(y))) /\ ~Has(b, "*")
  BY <1>2 DEF Ended
<1>8. Has(r, "*")
  <2>1. Has(One("*"), "*")
    BY <1>4, HasText
  <2>2. One("*") ## (One(x) ## One(y)) \in Text /\ Has(One("*") ## (One(x) ## One(y)), "*")
    BY <1>4, <1>5, <2>1, HasText, JoinedText
  <2> QED
    BY <1>7, <2>2, HasText
<1>9. ASSUME NEW j \in Text, r = q ## (One("*") ## j)
      PROVE  b = q /\ j = One(x) ## One(y)
  <2>1. q ## (One("*") ## j) = b ## (One("*") ## (One(x) ## One(y)))
    BY <1>7, <1>9
  <2> QED
    BY <1>3, <1>5, <1>7, <2>1, StarOnce
<1> DEFINE f == One(c) ## One(d)
<1>10. f \in Text /\ Size(f) = 2 /\ ~Has(f, "*")
  BY <1>5, <1>6
<1>11. ASSUME NEW p \in Text, t = p ## f, Damaged(One("*"), p)
       PROVE  FALSE
  <2> HIDE DEF f
  <2>1. CASE p = << >>
    <3>1. t = f
      BY <1>10, <1>11, <2>1, EmptyText
    <3> QED
      BY <1>3, <1>8, <1>10, <3>1, HasText
  <2>2. ASSUME NEW i \in Character \ {"*"}, p = One(i) PROVE FALSE
    <3>1. ~Has(p, "*")
      BY <2>2, HasText
    <3>2. t \in Text /\ ~Has(t, "*")
      BY <1>10, <1>11, <3>1, HasText, JoinedText
    <3> QED
      BY <1>3, <1>8, <3>2, HasText
  <2>3. ASSUME NEW i \in Character, p = One("*") ## One(i) PROVE FALSE
    <3>1. One(i) ## f \in Text /\ Size(One(i) ## f) = 1 + 2
      BY <1>4, <1>10, JoinedText, SizeText
    <3>2. t = One("*") ## (One(i) ## f)
      BY <1>4, <1>10, <1>11, <2>3, AssocText
    <3>3. One(i) ## f = One(x) ## One(y)
      BY <1>9, <3>1, <3>2
    <3> QED
      BY <1>5, <3>1, <3>3
  <2>4. ASSUME NEW i \in Character, p = One(i) ## One("*") PROVE FALSE
    <3>1. CASE i = "*"
      BY <1>4, <2>3, <2>4, <3>1
    <3>2. CASE i # "*"
      <4>1. q ## One(i) \in Text /\ One("*") ## f \in Text
        BY <1>3, <1>4, <1>10, JoinedText
      <4>2. ~Has(q ## One(i), "*")
        BY <1>3, <1>4, <3>2, HasText
      <4>3. t = One(i) ## (One("*") ## f)
        BY <1>4, <1>10, <1>11, <2>4, AssocText
      <4>4. r = (q ## One(i)) ## (One("*") ## f)
        BY <1>3, <1>4, <4>1, <4>3, AssocText
      <4>5. (q ## One(i)) ## (One("*") ## f) = b ## (One("*") ## (One(x) ## One(y)))
        BY <1>7, <4>4
      <4>6. q ## One(i) = b /\ f = One(x) ## One(y)
        BY <1>5, <1>7, <1>10, <4>1, <4>2, <4>5, StarOnce
      <4>7. One(c) = One(x) /\ One(d) = One(y)
        <5>1. One(c) ## One(d) = One(x) ## One(y)
          BY <4>6 DEF f
        <5> QED
          BY <1>4, <5>1, TextCutOnce
      <4>8. c = x /\ d = y
        BY <4>7, OneText
      <4>9. Stoul(<<c, d>>) = Checksum(q ## One(i))
        <5>1. x \notin Delimiters
          BY <4>8 DEF Special
        <5> QED
          BY <1>2, <4>6, <4>8, <5>1 DEF Ended, Checked
      <4>10. Damaged(q, q ## One(i))
        <5>1. << >> \in Text /\ << >> \in Few /\ One(i) \in Few /\ << >> # One(i)
          <6>1. Size(One(i)) = 1 /\ Size(<< >>) = 0
            BY <1>4, EmptyText
          <6> QED
            BY <6>1, EmptyText, OneText DEF Few
        <5>2. q = q ## (<< >> ## << >>) /\ q ## One(i) = q ## (One(i) ## << >>)
          BY <1>3, <1>4, EmptyText
        <5> QED
          BY <1>3, <5>1, <5>2, DamagedMeans
      <4>11. Checksum(q) # Checksum(q ## One(i))
        BY <4>10, DamagedChecksum
      <4> QED
        BY <1>1, <4>9, <4>11
    <3> QED
      BY <3>1, <3>2
  <2> QED
    BY <1>4, <1>11, <2>1, <2>2, <2>3, <2>4, DamagedOne
<1>12. PICK p \in Text : t = One("*") ## p /\ Damaged(f, p)
  <2>1. Damaged(One("*") ## f, t)
    BY <1>1
  <2> HIDE DEF f
  <2> QED
    BY <1>4, <1>10, <1>11, <2>1, DamagedPart
<1>13. b = q /\ p = One(x) ## One(y)
  BY <1>9, <1>12
<1>14. ASSUME x \in Delimiters
       PROVE  \E i \in Character : Ending(m) = One("*") ## (One(i) ## One(y))
  <2>1. x # c
    BY <1>14 DEF Special
  <2>2. Damaged(One(c) ## One(d), One(x) ## One(y))
    BY <1>12, <1>13
  <2>3. y = d
    BY <2>1, <2>2, DigitDamaged
  <2> QED
    BY <1>1, <2>3
<1> QED
  BY <1>2, <1>12, <1>13, <1>14 DEF q, w

-----------------------------------------------------------------------------
\* The body of a line and its end.
Rest(m) == Body(m) ## Ending(m)

\* An accepted line begins with a start token or a tag block token.
LEMMA AcceptedHead ==
  ASSUME NEW c \in Character, NEW t \in Text, MakeSentence(One(c) ## t, "check").how = "ok"
  PROVE  c \in {"$", "!", "\\"}
<1>1. One(c) ## t \in Seq(Character)
  <2>1. One(c) ## t \in Text
    BY OneText, JoinedText
  <2> QED
    BY <2>1 DEF Text
<1>2. Head(One(c) ## t) \in {"$", "!", "\\"}
  BY <1>1, AcceptedLine
<1> QED
  BY <1>2, HeadText

\* What a line is made of.
LEMMA LineText ==
  ASSUME NEW m \in Objects
  PROVE  /\ Rest(m) \in Text /\ ~Has(Rest(m), "\\")
         /\ ForeignString(m) =
              IF m.block = << >> THEN One(StartToken(m.tag)) ## Rest(m)
              ELSE One("\\") ## (m.block ## (One("\\") ## (One(StartToken(m.tag)) ## Rest(m))))
<1> DEFINE b == One("\\")
           g == One(StartToken(m.tag))
           k == m.block
           r == Rest(m)
<1>1. PICK c, d \in Character \ Special :
        Ending(m) = One("*") ## (One(c) ## One(d)) /\ Ending(m) \in Text
  BY EndingText
<1>2. ~Has(Ending(m), "\\")
  <2>1. One(c) \in Text /\ One(d) \in Text /\ One("*") \in Text /\ "*" \in Character
    BY OneText, Known
  <2>2. ~Has(One(c) ## One(d), "\\") /\ One(c) ## One(d) \in Text
    BY <2>1, HasText, JoinedText DEF Special
  <2>3. ~Has(One("*"), "\\")
    BY <2>1, HasText
  <2> QED
    BY <1>1, <2>1, <2>2, <2>3, HasText
<1>3. r \in Text /\ ~Has(r, "\\")
  <2>1. Body(m) \in Text /\ ~Has(Body(m), "\\")
    BY BodyText
  <2> QED
    BY <1>1, <1>2, <2>1, HasText, JoinedText DEF Rest
<1>4. ForeignString(m) = Ahead(m) ## r
  <2>1. Writable(m) /\ m.block \in Seq(NotBlock)
    BY ObjectIs
  <2>2. ForeignString(m) = Ahead(m) \o (Body(m) \o Ending(m))
    BY <2>1, ForeignIs
  <2> QED
    BY <2>2 DEF ##, Rest
<1>5. Ahead(m) = IF k = << >> THEN g ELSE b ## (k ## (b ## g))
  BY DEF Ahead, ##, One
<1>6. b \in Text /\ g \in Text /\ k \in Text
  BY OneText, Known, BlockText
<1> HIDE DEF b, g, k, r
<1>7. b ## g \in Text /\ k ## (b ## g) \in Text
  BY <1>6, JoinedText
<1>8. (b ## (k ## (b ## g))) ## r = b ## ((k ## (b ## g)) ## r)
  BY <1>3, <1>6, <1>7, AssocText
<1>9. (k ## (b ## g)) ## r = k ## ((b ## g) ## r)
  BY <1>3, <1>6, <1>7, AssocText
<1>10. (b ## g) ## r = b ## (g ## r)
  BY <1>3, <1>6, AssocText
<1>11. ForeignString(m) = IF k = << >> THEN g ## r ELSE b ## (k ## (b ## (g ## r)))
  BY <1>4, <1>5, <1>8, <1>9, <1>10
<1> QED
  BY <1>3, <1>11 DEF b, g, k, r

\* s is the line of m with its body or its end damaged, which it is read from.
Behind(m, s) ==
  \E p, t \in Text : /\ ForeignString(m) = p ## Rest(m) /\ s = p ## t
                     /\ Damaged(Rest(m), t) /\ ReadAs(s, t)

\* If the damage is before the body, the line is read from there all the same.
LEMMA HeadDamaged ==
  ASSUME NEW m \in Objects, m.block = << >>, NEW s, Damaged(ForeignString(m), s),
         MakeSentence(s, "check").how = "ok"
  PROVE  ReadAs(s, Rest(m)) \/ Behind(m, s)
<1> DEFINE c == StartToken(m.tag)
           r == Rest(m)
<1>1. c \in {"$", "!"} /\ c \in Character /\ One(c) \in Text /\ c # "\\"
  BY BlockText, OneText
<1>2. r \in Text /\ ~Has(r, "\\") /\ ForeignString(m) = One(c) ## r
  BY LineText
<1>3. PICK e \in NotSpecial, f \in Text : r = One(e) ## f
  <2>1. PICK e \in NotSpecial, t \in Text : Body(m) = One(e) ## t
    BY BodyText
  <2>2. Ending(m) \in Text /\ One(e) \in Text /\ t ## Ending(m) \in Text
    BY EndingText, OneText, JoinedText DEF NotSpecial
  <2> QED
    BY <2>1, <2>2, AssocText DEF Rest
<1>4. \A g \in Text : ReadAs(s, g ## r) /\ (g = << >> \/ Size(g) = 1) => ReadAs(s, r)
  <2> SUFFICES ASSUME NEW g \in Text, ReadAs(s, g ## r), g = << >> \/ Size(g) = 1 PROVE ReadAs(s, r)
    OBVIOUS
  <2>1. g = << >>
    BY NothingSkipped DEF Rest
  <2> QED
    BY <1>2, <2>1, EmptyText
<1> HIDE DEF c, r
<1>5. ASSUME NEW q \in Text, s = q ## r, Damaged(One(c), q) PROVE ReadAs(s, r)
  <2>1. CASE q = << >>
    <3>1. s = One(e) ## f /\ e \in Character
      BY <1>2, <1>3, <1>5, <2>1, EmptyText DEF NotSpecial
    <3>2. e \in {"$", "!", "\\"}
      BY <3>1, AcceptedHead
    <3> QED
      BY <3>2 DEF NotSpecial, Special
  <2>2. ASSUME NEW i \in Character, q = One(i) PROVE ReadAs(s, r)
    BY <1>2, <1>5, <2>2, ReadAsSecond
  <2>3. ASSUME NEW i \in Character, q = One(i) ## One(c) PROVE ReadAs(s, r)
    <3>1. s = One(i) ## (One(c) ## r) /\ One(c) ## r \in Text
      BY <1>1, <1>2, <1>5, <2>3, OneText, AssocText, JoinedText
    <3>2. ~Has(One(c) ## r, "\\")
      BY <1>1, <1>2, HasText
    <3>3. ReadAs(s, One(c) ## r)
      BY <3>1, <3>2, ReadAsSecond
    <3> QED
      BY <1>1, <1>4, <3>3, OneText
  <2>4. ASSUME NEW i \in Character, q = One(c) ## One(i) PROVE ReadAs(s, r)
    <3>1. s = One(c) ## (One(i) ## r) /\ One(i) ## r \in Text
      BY <1>1, <1>2, <1>5, <2>4, OneText, AssocText, JoinedText
    <3>2. ReadAs(s, One(i) ## r)
      BY <1>1, <3>1, ReadAsSecond
    <3> QED
      BY <1>4, <3>2, OneText
  <2> QED
    BY <1>1, <1>5, <2>1, <2>2, <2>3, <2>4, DamagedOne
<1>6. ASSUME NEW t \in Text, s = One(c) ## t, Damaged(r, t) PROVE Behind(m, s)
  <2>1. ReadAs(s, t)
    BY <1>1, <1>6, ReadAsSecond
  <2> QED
    BY <1>1, <1>2, <1>6, <2>1 DEF Behind, r
<1> QED
  BY <1>1, <1>2, <1>5, <1>6, DamagedPart DEF r

-----------------------------------------------------------------------------
\* Texts of a damaged block: without a tag block token, or with one in it.
LEMMA DamagedBlock ==
  ASSUME NEW k \in Text, ~Has(k, "\\"), NEW q \in Text, Damaged(k, q)
  PROVE  \/ ~Has(q, "\\")
         \/ \E u, v, w \in Text : /\ q = u ## (One("\\") ## v) /\ k = w ## v /\ ~Has(u, "\\")
                                  /\ v \in Text
<1>1. PICK u, v \in Text, w, x \in Few :
        w # x /\ k = u ## (w ## v) /\ q = u ## (x ## v)
  BY DamagedMeans
<1>2. w \in Text /\ x \in Text /\ w ## v \in Text /\ x ## v \in Text /\ u ## w \in Text
  BY FewText, JoinedText
<1>3. ~Has(u, "\\") /\ ~Has(w ## v, "\\")
  BY <1>1, <1>2, HasText
<1>4. ~Has(v, "\\")
  BY <1>2, <1>3, HasText
<1>5. CASE Has(x, "\\")
  <2>1. x = One("\\")
    <3>1. x # << >>
      BY <1>5, HasText
    <3>2. PICK c \in Character : x = One(c)
      BY <3>1 DEF Few, One
    <3>3. c = "\\"
      BY <1>5, <3>2, HasText
    <3> QED
      BY <3>2, <3>3
  <2>2. k = (u ## w) ## v
    BY <1>1, <1>2, AssocText
  <2> QED
    BY <1>1, <1>2, <1>3, <2>1, <2>2
<1>6. CASE ~Has(x, "\\")
  <2>1. ~Has(x ## v, "\\")
    BY <1>2, <1>4, <1>6, HasText
  <2>2. ~Has(q, "\\")
    BY <1>1, <1>2, <1>3, <2>1, HasText
  <2> QED
    BY <2>2
<1> QED
  BY <1>5, <1>6

\* The same of a line with a tag block.
LEMMA BlockDamaged ==
  ASSUME NEW m \in Objects, m.block # << >>, NEW s, Damaged(ForeignString(m), s),
         MakeSentence(s, "check").how = "ok"
  PROVE  ReadAs(s, Rest(m)) \/ Behind(m, s)
<1> DEFINE c == StartToken(m.tag)
           k == m.block
           r == Rest(m)
           b == One("\\")
           g == One(c)
<1>1. c \in {"$", "!"} /\ c \in Character /\ g \in Text /\ c # "\\" /\ Size(g) = 1 /\ ~Has(g, "\\")
  BY BlockText, OneText, HasText
<1>2. b \in Text /\ Size(b) = 1 /\ "\\" \in Character /\ Has(b, "\\") /\ b \in Few
  BY OneText, Known, HasText
<1>3. r \in Text /\ ~Has(r, "\\") /\ ForeignString(m) = b ## (k ## (b ## (g ## r)))
  BY LineText
<1>4. k \in Text /\ ~Has(k, "\\") /\ k # << >>
  BY BlockText
<1>5. PICK e \in Character \ {"$", "!"}, f \in Text : k = One(e) ## f
  BY BlockText
<1>6. PICK i \in Character, j \in Text : Body(m) = One(i) ## j
  BY BodyText DEF NotSpecial
<1>7. r = One(i) ## (j ## Ending(m)) /\ j ## Ending(m) \in Text
  <2>1. Ending(m) \in Text
    BY EndingText
  <2>2. One(i) \in Text
    BY OneText
  <2>3. (One(i) ## j) ## Ending(m) = One(i) ## (j ## Ending(m))
    BY <2>1, <2>2, AssocText
  <2>4. j ## Ending(m) \in Text
    BY <2>1, JoinedText
  <2>5. r = Body(m) ## Ending(m)
    BY DEF Rest
  <2> QED
    BY <1>6, <2>3, <2>4, <2>5
<1>8. ~ReadAs(s, j ## Ending(m))
  BY <1>6, NotShorter
<1>9. \A x \in Text : ReadAs(s, x ## r) /\ (x = << >> \/ Size(x) = 1) => ReadAs(s, r)
  <2> SUFFICES ASSUME NEW x \in Text, ReadAs(s, x ## r), x = << >> \/ Size(x) = 1 PROVE ReadAs(s, r)
    OBVIOUS
  <2>1. x = << >>
    BY NothingSkipped DEF Rest
  <2> QED
    BY <1>3, <2>1, EmptyText
\* Nothing of the block is before an address.
<1>10. \A u, h \in Text, z \in Few, y \in {<< >>, b} :
         (k = u ## h /\ (z = b \/ (y = << >> /\ h = k))) => ~ReadAs(s, ((y ## (h ## z)) ## g) ## r)
  <2> SUFFICES ASSUME NEW u \in Text, NEW h \in Text, NEW z \in Few, NEW y \in {<< >>, b},
                      k = u ## h, z = b \/ (y = << >> /\ h = k),
                      ReadAs(s, ((y ## (h ## z)) ## g) ## r)
               PROVE  FALSE
    OBVIOUS
  <2> DEFINE n == y ## (h ## z)
  <2>1. Before(m, n)
    BY <1>4 DEF Before
  <2>2. z \in Text /\ y \in Text
    BY <1>2, FewText, EmptyText
  <2>3. n \in Text
    BY <2>2, JoinedText
  <2> HIDE DEF n
  <2>4. n ## g \in Text
    BY <1>1, <2>3, JoinedText
  <2>5. n ## g = << >>
    <3>1. ReadAs(s, (n ## g) ## (Body(m) ## Ending(m)))
      BY DEF n, Rest
    <3> QED
      BY <2>1, <2>4, <3>1, NothingSkipped
  <2>6. Size(n ## g) = Size(n) + 1 /\ Size(n) \in Nat
    BY <1>1, <2>3, SizeText
  <2> QED
    BY <2>5, <2>6, EmptyText
<1> HIDE DEF c, k, r, b, g
<1>11. g ## r \in Text /\ b ## (g ## r) \in Text /\ k ## (b ## (g ## r)) \in Text
  BY <1>1, <1>2, <1>3, <1>4, JoinedText
\* Nor if what is read begins with a part of the block and one character.
<1>12. \A u, h \in Text, z \in Few, y \in {<< >>, b} :
         (k = u ## h /\ (z = b \/ (y = << >> /\ h = k))) => ~ReadAs(s, y ## (h ## (z ## (g ## r))))
  <2> SUFFICES ASSUME NEW u \in Text, NEW h \in Text, NEW z \in Few, NEW y \in {<< >>, b}
               PROVE  y ## (h ## (z ## (g ## r))) = ((y ## (h ## z)) ## g) ## r
    BY <1>10
  <2>1. z \in Text /\ y \in Text
    BY <1>2, FewText, EmptyText
  <2>2. h ## z \in Text /\ y ## (h ## z) \in Text
    BY <2>1, JoinedText
  <2>3. ((y ## (h ## z)) ## g) ## r = (y ## (h ## z)) ## (g ## r)
    BY <1>1, <1>3, <2>2, AssocText
  <2>4. (y ## (h ## z)) ## (g ## r) = y ## ((h ## z) ## (g ## r))
    BY <1>11, <2>1, <2>2, AssocText
  <2>5. (h ## z) ## (g ## r) = h ## (z ## (g ## r))
    BY <1>11, <2>1, AssocText
  <2> QED
    BY <2>3, <2>4, <2>5
<1>13. << >> \in Text /\ << >> \in Few /\ k = << >> ## k /\ \A x \in Text : << >> ## x = x
  BY <1>4, EmptyText DEF Few
<1>14. ~ReadAs(s, k ## (b ## (g ## r))) /\ ~ReadAs(s, b ## (k ## (b ## (g ## r))))
  <2>1. ~ReadAs(s, << >> ## (k ## (b ## (g ## r))))
    BY <1>2, <1>4, <1>12, <1>13
  <2>2. ~ReadAs(s, b ## (k ## (b ## (g ## r))))
    BY <1>2, <1>4, <1>12, <1>13
  <2> QED
    BY <1>11, <1>13, <2>1, <2>2
<1>15. ASSUME NEW v \in Text, NEW u \in Text, k = u ## v PROVE ~ReadAs(s, v ## (b ## (g ## r)))
  <2>1. ~ReadAs(s, << >> ## (v ## (b ## (g ## r))))
    BY <1>2, <1>12, <1>13, <1>15
  <2>2. v ## (b ## (g ## r)) \in Text
    BY <1>11, JoinedText
  <2> QED
    BY <1>13, <2>1, <2>2
<1>16. ASSUME NEW z \in Few PROVE ~ReadAs(s, k ## (z ## (g ## r)))
  <2>1. ~ReadAs(s, << >> ## (k ## (z ## (g ## r))))
    BY <1>4, <1>12, <1>13
  <2>2. z ## (g ## r) \in Text /\ k ## (z ## (g ## r)) \in Text
    <3>1. z \in Text
      BY FewText
    <3> QED
      BY <1>4, <1>11, <3>1, JoinedText
  <2> QED
    BY <1>13, <2>1, <2>2
<1>17. ASSUME ReadAs(s, g ## r) PROVE ReadAs(s, r)
  BY <1>1, <1>9, <1>17
\* A first token damaged,
<1>18. ASSUME NEW q \in Text, s = q ## (k ## (b ## (g ## r))), Damaged(b, q) PROVE ReadAs(s, r)
  <2>1. CASE q = << >>
    <3>1. f ## (b ## (g ## r)) \in Text
      BY <1>11, JoinedText
    <3>2. k ## (b ## (g ## r)) = One(e) ## (f ## (b ## (g ## r)))
      BY <1>5, <1>11, OneText, AssocText
    <3>3. s = One(e) ## (f ## (b ## (g ## r)))
      BY <1>11, <1>18, <2>1, <3>2, EmptyText
    <3>4. e \in {"$", "!", "\\"}
      BY <3>1, <3>3, AcceptedHead
    <3>5. Has(k, e)
      BY <1>5, OneText, HasText
    <3> QED
      BY <1>4, <3>4, <3>5
  <2>2. ASSUME NEW x \in Character \ {"\\"}, q = One(x) PROVE FALSE
    <3>1. ReadAs(s, k ## (b ## (g ## r)))
      BY <1>11, <1>18, <2>2, ReadAsSecond
    <3> QED
      BY <1>14, <3>1
  <2>3. ASSUME NEW x \in Character \ {"\\"}, q = One(x) ## b PROVE FALSE
    <3>1. s = One(x) ## (b ## (k ## (b ## (g ## r)))) /\ b ## (k ## (b ## (g ## r))) \in Text
      BY <1>2, <1>11, <1>18, <2>3, OneText, AssocText, JoinedText
    <3>2. ReadAs(s, b ## (k ## (b ## (g ## r))))
      BY <3>1, ReadAsSecond
    <3> QED
      BY <1>14, <3>2
  <2>4. ASSUME q = b ## b PROVE FALSE
    <3>1. s = b ## (b ## (k ## (b ## (g ## r))))
      BY <1>2, <1>11, <1>18, <2>4, AssocText
    <3>2. k ## (b ## (g ## r)) = One(e) ## (f ## (b ## (g ## r))) /\ f ## (b ## (g ## r)) \in Text
      BY <1>5, <1>11, OneText, AssocText, JoinedText
    <3>3. s = b ## (<< >> ## (b ## (One(e) ## (f ## (b ## (g ## r))))))
      <4>1. b ## (k ## (b ## (g ## r))) \in Text
        BY <1>2, <1>11, JoinedText
      <4> QED
        BY <1>13, <3>1, <3>2, <4>1
    <3>4. ReadAs(s, f ## (b ## (g ## r)))
      BY <1>13, <3>2, <3>3, HasText, ReadAsBlock DEF b
    <3> QED
      BY <1>5, <1>15, <3>4, OneText
  <2>5. ASSUME NEW x \in Character \ {"\\"}, q = b ## One(x) PROVE ReadAs(s, r)
    <3>1. One(x) \in Text /\ ~Has(One(x), "\\")
      BY OneText, HasText
    <3>2. One(x) ## k \in Text /\ ~Has(One(x) ## k, "\\")
      BY <1>4, <3>1, JoinedText, HasText
    <3>3. One(x) ## (k ## (b ## (g ## r))) = (One(x) ## k) ## (b ## (g ## r))
      BY <1>4, <1>11, <3>1, AssocText
    <3>4. s = b ## (One(x) ## (k ## (b ## (g ## r))))
      BY <1>2, <1>11, <1>18, <2>5, <3>1, AssocText
    <3>5. s = b ## ((One(x) ## k) ## (b ## (g ## r)))
      BY <3>3, <3>4
    <3> QED
      BY <1>1, <1>3, <3>2, <3>5, ReadAsBlock DEF b, g
  <2>6. \A x \in Character : x = "\\" => One(x) = b
    BY DEF b
  <2>7. \/ q = << >>
        \/ \E x \in Character \ {"\\"} : q = One(x)
        \/ \E x \in Character : q = One(x) ## b \/ q = b ## One(x)
    BY <1>2, <1>18, DamagedOne DEF b
  <2> QED
    BY <2>1, <2>2, <2>3, <2>4, <2>5, <2>6, <2>7
\* the block,
<1>19. ASSUME NEW q \in Text, s = b ## (q ## (b ## (g ## r))), Damaged(k, q) PROVE ReadAs(s, r)
  <2>1. CASE ~Has(q, "\\")
    BY <1>1, <1>3, <1>19, <2>1, ReadAsBlock DEF b, g
  <2>2. ASSUME NEW u \in Text, NEW v \in Text, NEW w \in Text,
               q = u ## (b ## v), k = w ## v, ~Has(u, "\\")
        PROVE  ReadAs(s, r)
    <3>1. b ## v \in Text /\ v ## (b ## (g ## r)) \in Text
      BY <1>2, <1>11, JoinedText
    <3>2. (u ## (b ## v)) ## (b ## (g ## r)) = u ## ((b ## v) ## (b ## (g ## r)))
      BY <1>11, <3>1, AssocText
    <3>3. (b ## v) ## (b ## (g ## r)) = b ## (v ## (b ## (g ## r)))
      BY <1>2, <1>11, AssocText
    <3>4. s = b ## (u ## (b ## (v ## (b ## (g ## r)))))
      BY <1>19, <2>2, <3>2, <3>3
    <3>5. CASE v = << >>
      <4>1. s = b ## (u ## (b ## (b ## (g ## r))))
        BY <1>11, <1>13, <3>4, <3>5
      <4>2. ReadAs(s, g ## r)
        BY <1>2, <1>11, <2>2, <4>1, ReadAsBlock DEF b
      <4> QED
        BY <1>17, <4>2
    <3>6. CASE v # << >>
      <4>1. Size(v) > 0
        BY <3>6, EmptySeq DEF Text, Size
      <4>2. PICK x \in Character, y \in Text : v = One(x) ## y
        BY <4>1, TextHead
      <4>3. v ## (b ## (g ## r)) = One(x) ## (y ## (b ## (g ## r)))
        BY <1>11, <4>2, OneText, AssocText
      <4>4. y ## (b ## (g ## r)) \in Text /\ w ## One(x) \in Text
        BY <1>11, OneText, JoinedText
      <4>5. ReadAs(s, y ## (b ## (g ## r)))
        BY <2>2, <3>4, <4>3, <4>4, ReadAsBlock DEF b
      <4>6. k = (w ## One(x)) ## y
        BY <2>2, <4>2, OneText, AssocText
      <4> QED
        BY <1>15, <4>4, <4>5, <4>6
    <3> QED
      BY <3>5, <3>6
  <2> QED
    BY <1>4, <1>19, <2>1, <2>2, DamagedBlock DEF b
\* the second token,
<1>20. ASSUME NEW q \in Text, s = b ## (k ## (q ## (g ## r))), Damaged(b, q) PROVE ReadAs(s, r)
  <2>1. CASE q = << >>
    <3>1. s = b ## (k ## (g ## r)) /\ k ## (g ## r) \in Text
      BY <1>4, <1>11, <1>13, <1>20, <2>1, JoinedText
    <3>2. ~Has(g ## r, "\\")
      BY <1>1, <1>3, HasText
    <3>3. ~Has(k ## (g ## r), "\\")
      BY <1>4, <1>11, <3>2, HasText
    <3>4. ReadAs(s, k ## (g ## r))
      BY <1>2, <3>1, <3>3, ReadAsSecond DEF b
    <3>5. k ## (g ## r) = k ## (<< >> ## (g ## r))
      BY <1>11, <1>13
    <3> QED
      BY <1>13, <1>16, <3>4, <3>5
  <2>2. ASSUME NEW x \in Character \ {"\\"}, q = One(x) PROVE FALSE
    <3>1. ~Has(One(x), "\\") /\ One(x) \in Text /\ One(x) \in Few
      BY OneText, HasText
    <3>2. ~Has(g ## r, "\\")
      BY <1>1, <1>3, HasText
    <3>3. ~Has(One(x) ## (g ## r), "\\") /\ One(x) ## (g ## r) \in Text
      BY <1>11, <3>1, <3>2, HasText, JoinedText
    <3>4. ~Has(k ## (One(x) ## (g ## r)), "\\") /\ k ## (One(x) ## (g ## r)) \in Text
      BY <1>4, <3>3, HasText, JoinedText
    <3>5. ReadAs(s, k ## (One(x) ## (g ## r)))
      BY <1>2, <1>20, <2>2, <3>4, ReadAsSecond DEF b
    <3> QED
      BY <1>16, <3>1, <3>5
  <2>3. ASSUME NEW x \in Character \ {"\\"}, q = One(x) ## b PROVE ReadAs(s, r)
    <3>1. ~Has(One(x), "\\") /\ One(x) \in Text
      BY OneText, HasText
    <3>2. k ## One(x) \in Text /\ ~Has(k ## One(x), "\\")
      BY <1>4, <3>1, JoinedText, HasText
    <3>3. (One(x) ## b) ## (g ## r) = One(x) ## (b ## (g ## r))
      BY <1>2, <1>11, <3>1, AssocText
    <3>4. k ## (One(x) ## (b ## (g ## r))) = (k ## One(x)) ## (b ## (g ## r))
      BY <1>4, <1>11, <3>1, AssocText
    <3>5. s = b ## ((k ## One(x)) ## (b ## (g ## r)))
      BY <1>20, <2>3, <3>3, <3>4
    <3> QED
      BY <1>1, <1>3, <3>2, <3>5, ReadAsBlock DEF b, g
  <2>4. ASSUME NEW x \in Character, q = b ## One(x) PROVE ReadAs(s, r)
    <3>1. (b ## One(x)) ## (g ## r) = b ## (One(x) ## (g ## r))
      BY <1>2, <1>11, OneText, AssocText
    <3>2. s = b ## (k ## (b ## (One(x) ## (g ## r))))
      BY <1>20, <2>4, <3>1
    <3>3. ReadAs(s, g ## r)
      BY <1>4, <1>11, <3>2, ReadAsBlock DEF b
    <3> QED
      BY <1>17, <3>3
  <2>5. \A x \in Character : x = "\\" => One(x) = b
    BY DEF b
  <2>6. \/ q = << >>
        \/ \E x \in Character \ {"\\"} : q = One(x)
        \/ \E x \in Character : q = One(x) ## b \/ q = b ## One(x)
    BY <1>2, <1>20, DamagedOne DEF b
  <2> QED
    BY <1>2, <2>1, <2>2, <2>3, <2>4, <2>5, <2>6
\* and the start token.
<1>21. ASSUME NEW q \in Text, s = b ## (k ## (b ## (q ## r))), Damaged(g, q) PROVE ReadAs(s, r)
  <2>1. CASE q = << >>
    <3>1. s = b ## (k ## (b ## (One(i) ## (j ## Ending(m)))))
      BY <1>3, <1>7, <1>13, <1>21, <2>1
    <3>2. ReadAs(s, j ## Ending(m))
      BY <1>4, <1>7, <3>1, ReadAsBlock DEF b
    <3> QED
      BY <1>8, <3>2
  <2>2. ASSUME NEW x \in Character, q = One(x) PROVE ReadAs(s, r)
    BY <1>3, <1>4, <1>21, <2>2, ReadAsBlock DEF b
  <2>3. ASSUME NEW x \in Character, q = One(x) ## g PROVE ReadAs(s, r)
    <3>1. s = b ## (k ## (b ## (One(x) ## (g ## r))))
      BY <1>1, <1>3, <1>21, <2>3, OneText, AssocText
    <3>2. ReadAs(s, g ## r)
      BY <1>4, <1>11, <3>1, ReadAsBlock DEF b
    <3> QED
      BY <1>17, <3>2
  <2>4. ASSUME NEW x \in Character, q = g ## One(x) PROVE ReadAs(s, r)
    <3>1. s = b ## (k ## (b ## (g ## (One(x) ## r)))) /\ One(x) ## r \in Text
      BY <1>1, <1>3, <1>21, <2>4, OneText, AssocText, JoinedText
    <3>2. ReadAs(s, One(x) ## r)
      BY <1>1, <1>4, <3>1, ReadAsBlock DEF b, g
    <3> QED
      BY <1>9, <3>2, OneText
  <2>5. \/ q = << >> \/ \E x \in Character : q = One(x)
        \/ \E x \in Character : q = One(x) ## g \/ q = g ## One(x)
    BY <1>1, <1>21, DamagedOne DEF g
  <2> QED
    BY <2>1, <2>2, <2>3, <2>4, <2>5
<1>22. ASSUME NEW t \in Text, s = b ## (k ## (b ## (g ## t))), Damaged(r, t) PROVE Behind(m, s)
  <2> DEFINE p == b ## (k ## (b ## g))
  <2>1. b ## g \in Text /\ k ## (b ## g) \in Text /\ p \in Text
    BY <1>1, <1>2, <1>4, JoinedText
  <2>2. ASSUME NEW x \in Text PROVE p ## x = b ## (k ## (b ## (g ## x)))
    <3>1. p ## x = b ## ((k ## (b ## g)) ## x)
      BY <1>2, <2>1, AssocText
    <3>2. (k ## (b ## g)) ## x = k ## ((b ## g) ## x)
      BY <1>4, <2>1, AssocText
    <3>3. (b ## g) ## x = b ## (g ## x)
      BY <1>1, <1>2, AssocText
    <3> QED
      BY <3>1, <3>2, <3>3
  <2>3. ReadAs(s, t)
    BY <1>1, <1>4, <1>22, ReadAsBlock DEF b, g
  <2>4. ForeignString(m) = p ## r /\ s = p ## t
    BY <1>3, <1>22, <2>2
  <2> HIDE DEF p
  <2> QED
    BY <1>22, <2>1, <2>3, <2>4 DEF Behind, r
<1>23. Damaged(b ## (k ## (b ## (g ## r))), s)
  BY <1>3
<1>24. ASSUME NEW t \in Text, s = b ## t, Damaged(k ## (b ## (g ## r)), t)
       PROVE  ReadAs(s, r) \/ Behind(m, s)
  <2>1. ASSUME NEW u \in Text, t = k ## u, Damaged(b ## (g ## r), u)
        PROVE  ReadAs(s, r) \/ Behind(m, s)
    <3>1. ASSUME NEW v \in Text, u = b ## v, Damaged(g ## r, v)
          PROVE  ReadAs(s, r) \/ Behind(m, s)
      BY <1>1, <1>3, <1>21, <1>22, <1>24, <2>1, <3>1, DamagedPart
    <3> QED
      BY <1>2, <1>11, <1>20, <1>24, <2>1, <3>1, DamagedPart
  <2> QED
    BY <1>4, <1>11, <1>19, <1>24, <2>1, DamagedPart
<1> QED
  BY <1>2, <1>11, <1>18, <1>23, <1>24, DamagedPart DEF r

-----------------------------------------------------------------------------
\* The last character but one replaced.
LEMMA ReplacedText ==
  ASSUME NEW p \in Text, NEW c \in Character, NEW d \in Character, NEW x \in Character
  PROVE  p ## (One(x) ## One(d)) =
           ReplaceAt(p ## (One(c) ## One(d)), Size(p ## (One(c) ## One(d))) - 1, x)
<1> DEFINE s == p ## (One(c) ## One(d))
           t == p ## (One(x) ## One(d))
           n == Size(p)
           k == Size(s) - 1
           r == [s EXCEPT ![k] = x]
<1>1. ASSUME NEW i \in Character
      PROVE  LET z == p ## (One(i) ## One(d))
             IN /\ z \in Text /\ Size(z) = n + 2 /\ n \in Nat /\ z[n + 1] = i /\ z[n + 2] = d
                /\ \A j \in 1..n : z[j] = p[j]
  <2> DEFINE y == One(i) ## One(d)
             z == p ## y
  <2>1. /\ One(i) \in Text /\ One(d) \in Text /\ Size(One(i)) = 1 /\ Size(One(d)) = 1
        /\ One(i)[1] = i /\ One(d)[1] = d
    BY OneText
  <2>2. y \in Text /\ Size(y) = 2
    BY <2>1, JoinedText, SizeText
  <2>3. \A j \in 1..(1 + 1) : y[j] = IF j <= 1 THEN One(i)[j] ELSE One(d)[j - 1]
    BY <2>1, ElementsOfText
  <2>4. y[1] = i /\ y[2] = d
    <3>1. 1 \in 1..(1 + 1) /\ 2 \in 1..(1 + 1) /\ 2 - 1 = 1
      OBVIOUS
    <3> QED
      BY <2>1, <2>3, <3>1
  <2> HIDE DEF y
  <2>5. z \in Text /\ Size(z) = n + 2 /\ n \in Nat
    BY <2>2, JoinedText, SizeText
  <2>6. \A j \in 1..(n + 2) : z[j] = IF j <= n THEN p[j] ELSE y[j - n]
    BY <2>2, ElementsOfText
  <2> HIDE DEF z
  <2>7. z[n + 1] = i /\ z[n + 2] = d
    <3>1. /\ n + 1 \in 1..(n + 2) /\ n + 2 \in 1..(n + 2) /\ ~(n + 1 <= n) /\ ~(n + 2 <= n)
          /\ (n + 1) - n = 1 /\ (n + 2) - n = 2
      BY <2>5
    <3> QED
      BY <2>4, <2>6, <3>1
  <2>8. \A j \in 1..n : z[j] = p[j]
    BY <2>5, <2>6
  <2> QED
    BY <2>5, <2>7, <2>8 DEF y, z
<1>2. /\ s \in Text /\ Size(s) = n + 2 /\ n \in Nat /\ s[n + 1] = c /\ s[n + 2] = d
      /\ \A j \in 1..n : s[j] = p[j]
  BY <1>1
<1>3. /\ t \in Text /\ Size(t) = n + 2 /\ t[n + 1] = x /\ t[n + 2] = d
      /\ \A j \in 1..n : t[j] = p[j]
  BY <1>1
<1> HIDE DEF s, t, n
<1>4. k = n + 1 /\ k \in 1..Size(s)
  BY <1>2
<1> HIDE DEF k
<1>5. /\ r \in Text /\ Size(r) = Size(s)
      /\ \A j \in 1..Size(s) : r[j] = IF j = k THEN x ELSE s[j]
  <2>1. s \in Seq(Character) /\ k \in 1..Len(s)
    BY <1>2, <1>4 DEF Text, Size
  <2>2. /\ r \in Seq(Character) /\ Len(r) = Len(s)
        /\ \A j \in 1..Len(s) : r[j] = IF j = k THEN x ELSE s[j]
    BY <2>1, ExceptSeq
  <2> HIDE DEF r
  <2> QED
    BY <2>2 DEF Text, Size
<1> HIDE DEF r
<1>6. ASSUME NEW j \in 1..Size(t) PROVE t[j] = r[j]
  <2>1. j \in 1..Size(s) /\ (j \in 1..n \/ j = n + 1 \/ j = n + 2)
    BY <1>2, <1>3
  <2>2. CASE j \in 1..n
    <3>1. j # k
      BY <1>2, <1>4, <2>2
    <3> QED
      BY <1>2, <1>3, <1>5, <2>1, <2>2, <3>1
  <2>3. CASE j = n + 1
    BY <1>3, <1>4, <1>5, <2>1, <2>3
  <2>4. CASE j = n + 2
    <3>1. j # k
      BY <1>2, <1>4, <2>4
    <3> QED
      BY <1>2, <1>3, <1>5, <2>1, <2>4, <3>1
  <2> QED
    BY <2>1, <2>2, <2>3, <2>4
<1>7. t = r
  BY <1>2, <1>3, <1>5, <1>6, EqualTexts
<1> QED
  BY <1>7 DEF ReplaceAt, s, t, k, r

\* A line whose checksum is right and that is read from the body of m on, undamaged,
\* is read as m.
LEMMA RestReads ==
  ASSUME NEW m \in Objects, NEW s, ReadAs(s, Rest(m)), MakeSentence(s, "check").how = "ok"
  PROVE  Reads(MakeSentence(s, "check").sentence, m)
<1> DEFINE w == MakeSentence(s, "check").sentence
           r == Rest(m)
<1>1. << >> \in Text /\ r \in Text /\ Body(m) \in Text
  BY EmptyText, LineText, BodyText
<1>2. << >> ## r = r /\ << >> ## Body(m) = Body(m)
  BY <1>1, EmptyText
<1>3. ReadAs(s, << >> ## (Body(m) ## Ending(m)))
  BY <1>2 DEF Rest
<1>4. PICK c, d \in Character \ Special :
        Ended(w, << >> ## (Body(m) ## Ending(m)), << >> ## Body(m), c, d)
  BY <1>1, <1>3, Skipped
<1>5. Ended(w, << >> ## (Body(m) ## Ending(m)), Body(m), c, d) /\ c \notin Delimiters
  BY <1>2, <1>4 DEF Special
<1> QED
  BY <1>5, ReadsBody

\* A line damaged in its body or its end is refused, or read as m, or a delimiter
\* is in the place of the first digit.
LEMMA BehindReads ==
  ASSUME NEW m \in Objects, NEW s, Behind(m, s), MakeSentence(s, "check").how = "ok"
  PROVE  LET w == MakeSentence(s, "check").sentence
             z == ForeignString(m)
         IN \/ Reads(w, m)
            \/ /\ s \in {ReplaceAt(z, Len(z) - 1, d) : d \in Delimiters}
               /\ Reads(w, OneFieldMore(m))
<1> DEFINE w == MakeSentence(s, "check").sentence
           z == ForeignString(m)
           b == Body(m)
           e == Ending(m)
<1>1. PICK p, t \in Text : z = p ## (b ## e) /\ s = p ## t /\ Damaged(b ## e, t) /\ ReadAs(s, t)
  BY DEF Behind, Rest
<1>2. b \in Text /\ e \in Text
  BY BodyText, EndingText
<1>3. ASSUME NEW q \in Text, t = q ## e, Damaged(b, q) PROVE FALSE
  BY <1>1, <1>3, BodyDamaged
<1>4. ASSUME NEW q \in Text, t = b ## q, Damaged(e, q)
      PROVE  \/ Reads(w, m)
             \/ /\ s \in {ReplaceAt(z, Len(z) - 1, d) : d \in Delimiters}
                /\ Reads(w, OneFieldMore(m))
  <2>1. ReadAs(s, b ## q)
    BY <1>1, <1>4
  <2>2. PICK x, y \in Character :
          /\ Ended(w, b ## q, b, x, y)
          /\ q = One("*") ## (One(x) ## One(y))
          /\ x \in Delimiters => \E c \in Character : e = One("*") ## (One(c) ## One(y))
    BY <1>4, <2>1, EndDamaged
  <2>3. (x \notin Delimiters => Reads(w, m)) /\ (x \in Delimiters => Reads(w, OneFieldMore(m)))
    BY <2>2, ReadsBody
  <2>4. CASE x \notin Delimiters
    BY <2>3, <2>4
  <2>5. CASE x \in Delimiters
    <3>1. PICK c \in Character : e = One("*") ## (One(c) ## One(y))
      BY <2>2, <2>5
    <3> DEFINE o == p ## (b ## One("*"))
    <3>2. One("*") \in Text /\ b ## One("*") \in Text /\ o \in Text
      BY <1>2, OneText, Known, JoinedText
    <3>3. ASSUME NEW i \in Character
          PROVE  p ## (b ## (One("*") ## (One(i) ## One(y)))) = o ## (One(i) ## One(y))
      <4>1. One(i) \in Text /\ One(y) \in Text
        BY OneText
      <4>2. One(i) ## One(y) \in Text
        BY <4>1, JoinedText
      <4>3. (b ## One("*")) ## (One(i) ## One(y)) = b ## (One("*") ## (One(i) ## One(y)))
        BY <1>2, <3>2, <4>2, AssocText
      <4>4. o ## (One(i) ## One(y)) = p ## ((b ## One("*")) ## (One(i) ## One(y)))
        BY <3>2, <4>2, AssocText
      <4> QED
        BY <4>3, <4>4
    <3> HIDE DEF o
    <3>4. z = o ## (One(c) ## One(y)) /\ s = o ## (One(x) ## One(y))
      <4>1. s = p ## (b ## q)
        BY <1>1, <1>4
      <4> QED
        BY <1>1, <2>2, <3>1, <3>3, <4>1
    <3>5. s = ReplaceAt(z, Size(z) - 1, x)
      BY <3>2, <3>4, ReplacedText
    <3>6. s = ReplaceAt(z, Len(z) - 1, x)
      BY <3>5 DEF Size
    <3> QED
      BY <2>3, <2>5, <3>6
  <2> QED
    BY <2>4, <2>5
<1> HIDE DEF w, z, b, e
<1>5. \/ \E q \in Text : t = q ## e /\ Damaged(b, q)
      \/ \E q \in Text : t = b ## q /\ Damaged(e, q)
  BY <1>1, <1>2, DamagedPart
<1>6. \/ Reads(w, m)
      \/ /\ s \in {ReplaceAt(z, Len(z) - 1, d) : d \in Delimiters}
         /\ Reads(w, OneFieldMore(m))
  BY <1>3, <1>4, <1>5
<1> QED
  BY <1>6 DEF w, z

\* With the checksum checked, a line that was written with the checksum where
\* make_sentence looks for it, and in which one character was lost, added or
\* replaced, is refused or read as the sentence written, for any tags, talkers,
\* texts and tag blocks the assumptions allow; but for a delimiter in the place
\* of the first digit (detail.cpp:43), which makes one empty field more.
THEOREM SentenceDamageDetected == Spec => []DamageDetected
<1>1. ASSUME SentenceIInv PROVE DamageDetected
  <2> DEFINE z == ForeignString(object)
             w == MakeSentence(line, "check").sentence
  <2> SUFFICES ASSUME stage = "read", handling = "check", got.how = "ok", sent = z
               PROVE  \/ Reads(got.sentence, object)
                      \/ /\ line \in {ReplaceAt(z, Len(z) - 1, d) : d \in Delimiters}
                         /\ Reads(got.sentence, OneFieldMore(object))
    BY DEF DamageDetected
  <2>1. /\ object \in Objects /\ got = MakeSentence(line, "check")
        /\ MakeSentence(line, "check").how = "ok"
        /\ (line = z \/ Damaged(z, line))
    BY <1>1 DEF SentenceIInv
  <2>2. CASE line = z
    <3>1. UndamagedReadBack
      BY <1>1, SentenceReadBack
    <3> QED
      BY <2>2, <3>1 DEF UndamagedReadBack
  <2>3. CASE Damaged(z, line)
    <3>1. ReadAs(line, Rest(object)) \/ Behind(object, line)
      BY <2>1, <2>3, HeadDamaged, BlockDamaged
    <3>2. CASE ReadAs(line, Rest(object))
      BY <2>1, <3>2, RestReads
    <3>3. CASE Behind(object, line)
      BY <2>1, <3>3, BehindReads
    <3> QED
      BY <3>1, <3>2, <3>3
  <2> QED
    BY <2>1, <2>2, <2>3
<1> QED
  BY <1>1, SentenceInvariant, PTL

-----------------------------------------------------------------------------
\* How reading ends, and the tags that are extracted.
LEMMA ReadingEnds ==
  ASSUME NEW s, NEW h
  PROVE  /\ MakeSentence(s, h).how \in {"ok", "invalid_argument", "checksum_error", "out_of_range"}
         /\ ExtractId(s) \subseteq Tags
<1>1. \A how : Refused(how).how = how
  BY DEF Refused
<1>2. \A t, n : EnsureChecksum(s, t, n) \in {"ok", "invalid_argument", "checksum_error"}
  BY DEF EnsureChecksum
<1>3. MakeSentence(s, h).how \in {"ok", "invalid_argument", "checksum_error", "out_of_range"}
  <2> DEFINE from == SearchPos(s)
             fields == ParseFields(s, from)
             address == Address(fields[1])
             data == SubSeq(fields, 2, Len(fields) - 1)
             checked == IF h = "check" THEN EnsureChecksum(s, Last(fields), from) ELSE "ok"
             a == CHOOSE x \in address : TRUE
             r == [how |-> "ok", sentence |->
                    [talker |-> a.talker, tag |-> a.tag, fields |-> data,
                     block |-> IF BlockEnd(s) = 0 THEN <<>> ELSE SubSeq(s, 2, BlockEnd(s) - 1)]]
  <2>1. checked \in {"ok", "invalid_argument", "checksum_error"}
    BY <1>2
  <2>2. r.how = "ok"
    OBVIOUS
  <2>3. MakeSentence(s, h) \in {Refused("invalid_argument"), Refused("out_of_range"), Refused(checked), r}
    BY DEF MakeSentence
  <2> HIDE DEF checked, r
  <2> QED
    BY <1>1, <2>1, <2>2, <2>3
<1>4. ExtractId(s) \subseteq Tags
  <2>1. ASSUME NEW a, NEW x \in Address(a) PROVE x.tag \in Tags
    <3> DEFINE tag == SubSeq(a, TALKER_LENGTH + 1, Len(a))
               talker == SubSeq(a, 1, TALKER_LENGTH)
               p == [talker |-> << >>, tag |-> a]
               q == [talker |-> IF talker \in Talkers THEN talker ELSE << >>, tag |-> tag]
    <3>1. (a \in Tags /\ x = p) \/ (tag \in Tags /\ x = q)
      BY DEF Address
    <3>2. p.tag = a /\ q.tag = tag
      OBVIOUS
    <3> HIDE DEF p, q, tag
    <3> QED
      BY <3>1, <3>2
  <2> QED
    BY <2>1 DEF ExtractId
<1> QED
  BY <1>3, <1>4

\* The lines stay texts of the alphabet, and reading ends in one of the ways there are.
THEOREM SentenceTypeOK == Spec => []TypeOK
<1>1. ASSUME SentenceIInv PROVE TypeOK
  <2>1. sent \in Seq(Character) /\ line \in Seq(Character)
    BY <1>1, SentenceLines
  <2>2. got.how \in {"none", "ok", "invalid_argument", "checksum_error", "out_of_range"}
        /\ id \subseteq Tags
    <3>1. CASE stage = "read"
      BY <1>1, <3>1, ReadingEnds DEF SentenceIInv
    <3>2. CASE stage # "read"
      BY <1>1, <3>2 DEF SentenceIInv, Refused
    <3> QED
      BY <3>1, <3>2
  <2> QED
    BY <1>1, <2>1, <2>2 DEF SentenceIInv, TypeOK
<1> QED
  BY <1>1, SentenceInvariant, PTL
=============================================================================
