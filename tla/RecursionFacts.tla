--------------------------- MODULE RecursionFacts ---------------------------
(***************************************************************************)
(* What the proofs about data rest on: induction over the natural numbers, *)
(* stated with a set in the place of a predicate, and over sequences; the  *)
(* greatest element of a set; a number that grows with each element taken; *)
(* what FlattenSeq makes of a sequence; and how a text is cut in two.      *)
(***************************************************************************)
EXTENDS Integers, SequencesExt, SequenceTheorems, FiniteSetTheorems, WellFoundedInduction,
        TLAPS

\* A set of natural numbers that is not empty has a least element.
LEMMA Least ==
  ASSUME NEW T \in SUBSET Nat, T # {}
  PROVE  \E n \in T : \A m \in T : n <= m
<1>1. PICK x \in T : \A y \in T : ~(<<y, x>> \in OpToRel(<, Nat))
  BY NatLessThanWellFounded, WFMin, Zenon
<1>2. ASSUME NEW y \in T PROVE x <= y
  <2>1. x \in Nat /\ y \in Nat
    OBVIOUS
  <2>2. y < x => <<y, x>> \in OpToRel(<, Nat)
    BY <2>1 DEF OpToRel
  <2>3. ~(y < x)
    BY <1>1, <2>2
  <2> QED
    BY <2>1, <2>3
<1> QED
  BY <1>2

\* A set that has 0, and with each number the next one, has all of them.
LEMMA Induction ==
  ASSUME NEW T, 0 \in T, \A n \in Nat : n \in T => n + 1 \in T
  PROVE  Nat \subseteq T
<1> SUFFICES ASSUME Nat \ T # {} PROVE FALSE
  OBVIOUS
<1>1. PICK n \in Nat \ T : \A m \in Nat \ T : n <= m
  BY Least
<1>2. n - 1 \in Nat /\ n - 1 \notin Nat \ T /\ (n - 1) + 1 = n
  BY <1>1
<1> QED
  BY <1>1, <1>2

\* The greatest element of a set of numbers below a bound.
LEMMA MaxOf ==
  ASSUME NEW S \in SUBSET Nat, S # {}, NEW b \in Nat, \A x \in S : x <= b
  PROVE  Max(S) \in S /\ \A x \in S : x <= Max(S)
<1> DEFINE T == {b - x : x \in S}
<1>1. T \in SUBSET Nat /\ T # {}
  <2>1. \A x \in S : x \in Nat /\ x <= b
    OBVIOUS
  <2>2. \A x \in S : b - x \in Nat
    BY <2>1
  <2> QED
    BY <2>2
<1>2. PICK n \in T : \A m \in T : n <= m
  BY <1>1, Least
<1>3. PICK x \in S : n = b - x
  OBVIOUS
<1>4. \A y \in S : x >= y
  BY <1>2, <1>3
<1>5. \E z \in S : \A y \in S : z >= y
  BY <1>4
<1>6. Max(S) \in S /\ \A y \in S : Max(S) >= y
  BY <1>5 DEF Max
<1> QED
  BY <1>6

\* The recursive function of FlattenSeq is what its equation says.
LEMMA FlattenFunction ==
  ASSUME NEW S, NEW s \in Seq(Seq(S)), NEW f,
         f = CHOOSE g : g = [i \in 1..Len(s) |-> IF i = 1 THEN s[i] ELSE g[i-1] \o s[i]]
  PROVE  f = [i \in 1..Len(s) |-> IF i = 1 THEN s[i] ELSE f[i-1] \o s[i]]
<1> DEFINE G(g, n) == g = [i \in 1..n |-> IF i = 1 THEN s[i] ELSE g[i-1] \o s[i]]
           T == {n \in Nat : \E g : G(g, n)}
<1>1. 0 \in T
  <2>1. G([i \in 1..0 |-> 0], 0)
    OBVIOUS
  <2> QED BY <2>1
<1>2. ASSUME NEW n \in Nat, n \in T PROVE n + 1 \in T
  <2>1. PICK g : G(g, n)
    BY <1>2
  <2> DEFINE h == [i \in 1..(n+1) |-> IF i = n + 1 THEN (IF i = 1 THEN s[i] ELSE g[i-1] \o s[i]) ELSE g[i]]
  <2>2. ASSUME NEW i \in 1..(n+1) PROVE h[i] = IF i = 1 THEN s[i] ELSE h[i-1] \o s[i]
     <3>1. CASE i = n + 1
       BY <3>1
     <3>2. CASE i # n + 1
       <4>1. i \in 1..n
         BY <3>2
       <4>2. i # 1 => h[i-1] = g[i-1]
         BY <4>1
       <4>3. g[i] = IF i = 1 THEN s[i] ELSE g[i-1] \o s[i]
         BY <2>1, <4>1
       <4> QED BY <4>1, <4>2, <4>3, <3>2
     <3> QED BY <3>1, <3>2
  <2>3. G(h, n + 1)
    <3> HIDE DEF h
    <3>1. h = [i \in 1..(n+1) |-> h[i]]
      BY DEF h
    <3> QED BY <3>1, <2>2
  <2>4. \E k : G(k, n + 1)
    <3> HIDE DEF h, G
    <3> QED BY <2>3
  <2>5. n + 1 \in Nat
    OBVIOUS
  <2> HIDE DEF G
  <2> QED BY <2>4, <2>5
<1> HIDE DEF T
<1>3. Len(s) \in T
  BY <1>1, <1>2, Induction, LenProperties
<1> QED
  BY <1>3 DEF T

\* A sequence of prefixes that grow by one of the sequences each ends with all
\* of them.
LEMMA FlattenIs ==
  ASSUME NEW S, NEW s \in Seq(Seq(S)), NEW p,
         p[0] = << >>,
         \A i \in 1..Len(s) : p[i] = p[i - 1] \o s[i]
  PROVE  FlattenSeq(s) = p[Len(s)]
<1>1. Len(s) \in Nat /\ DOMAIN s = 1..Len(s) /\ s \in [1..Len(s) -> Seq(S)]
  BY LenProperties
<1>2. CASE Len(s) = 0
  BY <1>1, <1>2, EmptySeq DEF FlattenSeq
<1>3. CASE Len(s) # 0
  <2> DEFINE f == CHOOSE g : g = [i \in 1..Len(s) |-> IF i = 1 THEN s[i] ELSE g[i-1] \o s[i]]
             T == {n \in Nat : n + 1 \in 1..Len(s) => f[n + 1] = p[n + 1]}
  <2>1. f = [i \in 1..Len(s) |-> IF i = 1 THEN s[i] ELSE f[i-1] \o s[i]]
    <3> HIDE DEF f
    <3> QED
      BY FlattenFunction, ZenonT(60) DEF f
  <2>2. FlattenSeq(s) = f[Len(s)]
    BY <1>3 DEF FlattenSeq
  <2> HIDE DEF f, T
  <2>3. \A i \in 1..Len(s) : s[i] \in Seq(S) /\ f[i] = IF i = 1 THEN s[i] ELSE f[i - 1] \o s[i]
    BY <1>1, <2>1
  <2>4. 0 \in T
    <3>1. 1 \in 1..Len(s) /\ 1 - 1 = 0
      BY <1>1, <1>3
    <3>2. f[1] = s[1] /\ p[1] = << >> \o s[1] /\ s[1] \in Seq(S)
      BY <2>3, <3>1
    <3>3. << >> \o s[1] = s[1]
      BY <3>2, ConcatEmptySeq
    <3> QED
      BY <3>2, <3>3 DEF T
  <2>5. ASSUME NEW n \in Nat, n \in T PROVE n + 1 \in T
    <3> SUFFICES ASSUME (n + 1) + 1 \in 1..Len(s) PROVE f[(n + 1) + 1] = p[(n + 1) + 1]
      BY DEF T
    <3> DEFINE k == (n + 1) + 1
    <3>1. k \in 1..Len(s) /\ k # 1 /\ k - 1 = n + 1 /\ n + 1 \in 1..Len(s)
      BY <1>1
    <3>2. f[n + 1] = p[n + 1]
      BY <2>5, <3>1 DEF T
    <3> HIDE DEF k
    <3>3. f[k] = f[k - 1] \o s[k] /\ p[k] = p[k - 1] \o s[k]
      BY <2>3, <3>1
    <3>4. f[k] = p[k]
      BY <3>1, <3>2, <3>3
    <3> QED
      BY <3>4 DEF k
  <2>6. Len(s) - 1 \in T
    <3>1. Nat \subseteq T
      BY <2>4, <2>5, Induction
    <3> QED
      BY <1>1, <1>3, <3>1
  <2>7. f[Len(s)] = p[Len(s)]
    BY <1>1, <1>3, <2>6 DEF T
  <2> QED
    BY <2>2, <2>7
<1> QED
  BY <1>2, <1>3

-----------------------------------------------------------------------------
\* A function on the first numbers is a sequence.
LEMMA FunIsSeq ==
  ASSUME NEW S, NEW n \in Nat, NEW f \in [1..n -> S]
  PROVE  f \in Seq(S) /\ Len(f) = n
  OBVIOUS

\* A sequence with an element before it.
LEMMA ConsFacts ==
  ASSUME NEW S, NEW x \in S, NEW s \in Seq(S)
  PROVE  /\ Cons(x, s) \in Seq(S) /\ Len(Cons(x, s)) = Len(s) + 1
         /\ Cons(x, s)[1] = x /\ \A i \in 1..Len(s) : Cons(x, s)[i + 1] = s[i]
<1> DEFINE u == <<x>>
<1>1. u \in Seq(S) /\ Len(u) = 1 /\ u[1] = x /\ Len(s) \in Nat
  BY LenProperties
<1> HIDE DEF u
<1>2. /\ u \o s \in Seq(S) /\ Len(u \o s) = Len(u) + Len(s)
      /\ \A i \in 1..(Len(u) + Len(s)) : (u \o s)[i] = IF i <= Len(u) THEN u[i] ELSE s[i - Len(u)]
  BY <1>1, ConcatProperties
<1>3. /\ 1 \in 1..(1 + Len(s))
      /\ \A i \in 1..Len(s) : i + 1 \in 1..(1 + Len(s)) /\ ~(i + 1 <= 1) /\ (i + 1) - 1 = i
  BY <1>1
<1> QED
  BY <1>1, <1>2, <1>3 DEF u, Cons

-----------------------------------------------------------------------------
\* The greatest of the first numbers, and those below it.
LEMMA MaxOfFirst ==
  ASSUME NEW i \in Nat, i > 0
  PROVE  Max(1..i) = i /\ (1..i) \ {i} = 1..(i - 1) /\ 1..i # {}
<1>1. (1..i) \in SUBSET Nat /\ i \in 1..i /\ \A x \in 1..i : x <= i
  OBVIOUS
<1>2. Max(1..i) \in 1..i /\ \A x \in 1..i : x <= Max(1..i)
  BY <1>1, MaxOf
<1>3. Max(1..i) = i
  BY <1>1, <1>2
<1> QED
  BY <1>1, <1>3

\* The greatest of a set of the first numbers is one of them.
LEMMA MaxOfSome ==
  ASSUME NEW n \in Nat, NEW s \in SUBSET (1..n), s # {}
  PROVE  /\ Max(s) \in s /\ Max(s) \in 1..n /\ s \ {Max(s)} \in SUBSET (1..n)
         /\ \A x \in s : x <= Max(s)
<1>1. s \in SUBSET Nat /\ \A x \in s : x <= n
  OBVIOUS
<1>2. Max(s) \in s /\ \A x \in s : x <= Max(s)
  BY <1>1, MaxOf
<1> QED
  BY <1>2

\* The recursive function of a fold over the first numbers, whose step h stays
\* in some set.
IsFold(f, n, T, base, h) ==
  /\ f \in [SUBSET (1..n) -> T]
  /\ \A s \in SUBSET (1..n) :
       f[s] = IF s = {} THEN base ELSE h[<<f[s \ {Max(s)}], Max(s)>>]

\* There is one.
LEMMA FoldExists ==
  ASSUME NEW n \in Nat, NEW T, NEW base \in T, NEW h \in [T \X (1..n) -> T]
  PROVE  \E f : IsFold(f, n, T, base, h)
<1> DEFINE G(f, m) == /\ f \in [SUBSET (1..m) -> T]
                      /\ \A s \in SUBSET (1..m) :
                           f[s] = IF s = {} THEN base ELSE h[<<f[s \ {Max(s)}], Max(s)>>]
           K == {m \in Nat : m <= n => \E f : G(f, m)}
<1> HIDE DEF G
<1>1. 0 \in K
  <2> DEFINE f == [s \in SUBSET (1..0) |-> base]
  <2>1. \A s \in SUBSET (1..0) : s = {}
    OBVIOUS
  <2>2. G(f, 0)
    BY <2>1 DEF G
  <2> HIDE DEF f
  <2> QED
    BY <2>2
<1>2. ASSUME NEW m \in Nat, m \in K PROVE m + 1 \in K
  <2> SUFFICES ASSUME m + 1 <= n PROVE \E f : G(f, m + 1)
    OBVIOUS
  <2>1. PICK f : G(f, m)
    BY <1>2
  <2> DEFINE k == m + 1
             g == [s \in SUBSET (1..k) |->
                     IF k \in s THEN h[<<f[s \ {k}], k>>] ELSE f[s]]
  <2>2. k \in 1..n /\ k \in Nat
    BY <1>2
  <2>3. \A s \in SUBSET (1..k) : s \ {k} \in SUBSET (1..m) /\ (k \notin s => s \in SUBSET (1..m))
    BY <1>2
  <2>4. \A s \in SUBSET (1..m) : f[s] \in T /\ k \notin s
    BY <1>2, <2>1 DEF G
  <2>5. ASSUME NEW s \in SUBSET (1..k)
        PROVE  /\ g[s] \in T
               /\ g[s] = IF s = {} THEN base ELSE h[<<g[s \ {Max(s)}], Max(s)>>]
    <3>1. CASE k \in s
      <4>1. Max(s) = k
        <5>1. Max(s) \in 1..k /\ k <= Max(s)
          BY <2>2, <3>1, MaxOfSome
        <5> QED
          BY <2>2, <5>1
      <4>2. g[s] = h[<<f[s \ {k}], k>>] /\ f[s \ {k}] \in T
        BY <2>3, <2>4, <3>1
      <4>3. g[s \ {k}] = f[s \ {k}]
        <5>1. s \ {k} \in SUBSET (1..k) /\ k \notin s \ {k}
          OBVIOUS
        <5> QED
          BY <5>1
      <4> HIDE DEF g, k
      <4> QED
        BY <2>2, <3>1, <4>1, <4>2, <4>3
    <3>2. CASE k \notin s
      <4>1. g[s] = f[s] /\ s \in SUBSET (1..m)
        BY <2>3, <3>2
      <4>2. f[s] = IF s = {} THEN base ELSE h[<<f[s \ {Max(s)}], Max(s)>>]
        BY <2>1, <4>1 DEF G
      <4>3. s # {} => g[s \ {Max(s)}] = f[s \ {Max(s)}]
        BY <3>2
      <4> HIDE DEF g, k
      <4> QED
        BY <2>4, <4>1, <4>2, <4>3
    <3> QED
      BY <3>1, <3>2
  <2>6. G(g, k)
    <3>1. g \in [SUBSET (1..k) -> T]
      <4>1. g = [s \in SUBSET (1..k) |-> g[s]]
        OBVIOUS
      <4> HIDE DEF g, k
      <4> QED
        BY <2>5, <4>1
    <3> HIDE DEF g, k
    <3> QED
      BY <2>5, <3>1 DEF G
  <2> HIDE DEF g
  <2> QED
    BY <2>6
<1>3. n \in K
  <2> HIDE DEF K
  <2> QED
    BY <1>1, <1>2, Induction
<1>4. PICK f : G(f, n)
  BY <1>3
<1> QED
  BY <1>4 DEF G, IsFold

\* What holds of the base and is kept by every step holds at the end.
LEMMA FoldSteps ==
  ASSUME NEW n \in Nat, NEW g, NEW P,
         g[{}] \in P[0],
         \A i \in 1..n : g[1..(i - 1)] \in P[i - 1] => g[1..i] \in P[i]
  PROVE  g[1..n] \in P[n]
<1> DEFINE K == {m \in Nat : m <= n => g[1..m] \in P[m]}
<1>1. 0 \in K
  <2>1. 1..0 = {}
    OBVIOUS
  <2> QED
    BY <2>1
<1>2. ASSUME NEW m \in Nat, m \in K PROVE m + 1 \in K
  <2> SUFFICES ASSUME m + 1 <= n PROVE g[1..(m + 1)] \in P[m + 1]
    OBVIOUS
  <2> DEFINE k == m + 1
  <2>1. k \in 1..n /\ k - 1 = m /\ g[1..m] \in P[m]
    BY <1>2
  <2> HIDE DEF k
  <2>2. g[1..k] \in P[k]
    BY <2>1
  <2> QED
    BY <2>2 DEF k
<1> HIDE DEF K
<1>3. n \in K
  BY <1>1, <1>2, Induction
<1> QED
  BY <1>3 DEF K

-----------------------------------------------------------------------------
\* The pieces FlattenSeq joins being of the same length k, the length of all.
LEMMA FlattenLength ==
  ASSUME NEW S, NEW s \in Seq(Seq(S)), NEW k \in Nat, \A i \in 1..Len(s) : Len(s[i]) = k
  PROVE  FlattenSeq(s) \in Seq(S) /\ Len(FlattenSeq(s)) = Len(s) * k
<1>1. Len(s) \in Nat /\ DOMAIN s = 1..Len(s) /\ s \in [1..Len(s) -> Seq(S)]
  BY LenProperties
<1>2. CASE Len(s) = 0
  <2>1. s = << >>
    BY <1>2, EmptySeq
  <2>2. << >> \in Seq(S) /\ Len(<< >>) = 0
    BY EmptySeq
  <2> QED
    BY <1>2, <2>1, <2>2 DEF FlattenSeq
<1>3. CASE Len(s) # 0
  <2> DEFINE f == CHOOSE g : g = [i \in 1..Len(s) |-> IF i = 1 THEN s[i] ELSE g[i-1] \o s[i]]
             T == {n \in Nat : n + 1 \in 1..Len(s) => /\ f[n + 1] \in Seq(S)
                                                      /\ Len(f[n + 1]) = (n + 1) * k}
  <2>1. f = [i \in 1..Len(s) |-> IF i = 1 THEN s[i] ELSE f[i-1] \o s[i]]
    <3> HIDE DEF f
    <3> QED
      BY FlattenFunction, ZenonT(60) DEF f
  <2>2. FlattenSeq(s) = f[Len(s)]
    BY <1>3 DEF FlattenSeq
  <2> HIDE DEF f, T
  <2>3. \A i \in 1..Len(s) : s[i] \in Seq(S) /\ f[i] = IF i = 1 THEN s[i] ELSE f[i - 1] \o s[i]
    BY <1>1, <2>1
  <2>4. 0 \in T
    <3>1. 1 \in 1..Len(s)
      BY <1>1, <1>3
    <3>2. f[1] \in Seq(S) /\ Len(f[1]) = k
      BY <2>3, <3>1
    <3> QED
      BY <3>2 DEF T
  <2>5. ASSUME NEW n \in Nat, n \in T PROVE n + 1 \in T
    <3> SUFFICES ASSUME (n + 1) + 1 \in 1..Len(s)
                 PROVE  f[(n + 1) + 1] \in Seq(S) /\ Len(f[(n + 1) + 1]) = ((n + 1) + 1) * k
      BY DEF T
    <3> DEFINE j == (n + 1) + 1
    <3>1. j \in 1..Len(s) /\ j # 1 /\ j - 1 = n + 1 /\ n + 1 \in 1..Len(s)
      BY <1>1
    <3>2. f[n + 1] \in Seq(S) /\ Len(f[n + 1]) = (n + 1) * k
      BY <2>5, <3>1 DEF T
    <3>3. ((n + 1) * k) + k = j * k
      OBVIOUS
    <3> HIDE DEF j
    <3>4. f[j] = f[j - 1] \o s[j] /\ s[j] \in Seq(S) /\ Len(s[j]) = k
      BY <2>3, <3>1
    <3>5. f[j] \in Seq(S) /\ Len(f[j]) = ((n + 1) * k) + k
      <4> DEFINE u == f[n + 1]
                 v == s[j]
      <4>1. u \in Seq(S) /\ v \in Seq(S) /\ Len(u) = (n + 1) * k /\ Len(v) = k /\ f[j] = u \o v
        BY <3>1, <3>2, <3>4
      <4> HIDE DEF u, v
      <4>2. u \o v \in Seq(S) /\ Len(u \o v) = Len(u) + Len(v)
        BY <4>1, ConcatProperties
      <4> QED
        BY <4>1, <4>2
    <3> QED
      BY <3>3, <3>5 DEF j
  <2>6. Len(s) - 1 \in T
    <3>1. Nat \subseteq T
      BY <2>4, <2>5, Induction
    <3> QED
      BY <1>1, <1>3, <3>1
  <2>7. f[Len(s)] \in Seq(S) /\ Len(f[Len(s)]) = Len(s) * k
    <3>1. (Len(s) - 1) + 1 = Len(s)
      BY <1>1
    <3> QED
      BY <1>1, <1>3, <2>6, <3>1 DEF T
  <2> QED
    BY <2>2, <2>7
<1> QED
  BY <1>2, <1>3

-----------------------------------------------------------------------------
\* A set of sequences that has the empty one, and with each sequence all that
\* are longer by an element, has all of them.
LEMMA SequenceInduction ==
  ASSUME NEW S, NEW T, << >> \in T,
         \A s \in Seq(S) : \A x \in S : s \in T => Append(s, x) \in T
  PROVE  Seq(S) \subseteq T
<1> DEFINE K == {n \in Nat : \A s \in Seq(S) : Len(s) = n => s \in T}
<1>1. 0 \in K
  BY EmptySeq
<1>2. ASSUME NEW n \in Nat, n \in K PROVE n + 1 \in K
  <2> SUFFICES ASSUME NEW s \in Seq(S), Len(s) = n + 1 PROVE s \in T
    OBVIOUS
  <2> DEFINE r == SubSeq(s, 1, n)
  <2>1. /\ s \in [1..(n + 1) -> S] /\ n + 1 \in 1..(n + 1)
        /\ s[n + 1] \in S /\ n \in 0..Len(s) /\ \A i \in 1..n : s[i] \in S
    BY LenProperties
  <2>2. r \in Seq(S) /\ Len(r) = n /\ \A i \in 1..n : r[i] = s[i]
    BY <2>1
  <2> HIDE DEF r
  <2>3. r \in T
    BY <1>2, <2>2
  <2>4. Append(r, s[n + 1]) \in T
    BY <2>1, <2>2, <2>3
  <2>5. /\ Append(r, s[n + 1]) \in Seq(S) /\ Len(Append(r, s[n + 1])) = n + 1
        /\ \A i \in 1..n : Append(r, s[n + 1])[i] = s[i]
        /\ Append(r, s[n + 1])[n + 1] = s[n + 1]
    BY <2>1, <2>2, AppendProperties
  <2>6. \A i \in 1..(n + 1) : Append(r, s[n + 1])[i] = s[i]
    BY <2>5
  <2>7. Append(r, s[n + 1]) = s
    BY <2>5, <2>6, SeqEqual
  <2> QED
    BY <2>4, <2>7
<1> HIDE DEF K
<1>3. Nat \subseteq K
  BY <1>1, <1>2, Induction
<1> QED
  BY <1>3, LenProperties DEF K

\* FlattenSeq joins the sequences one after the other.
LEMMA FlattenAppend ==
  ASSUME NEW S, NEW s \in Seq(Seq(S)), NEW x \in Seq(S)
  PROVE  FlattenSeq(Append(s, x)) = FlattenSeq(s) \o x
<1> DEFINE n == Len(s)
           t == Append(s, x)
           f == CHOOSE g : g = [i \in 1..Len(t) |-> IF i = 1 THEN t[i] ELSE g[i-1] \o t[i]]
           p == [i \in 0..(n + 1) |-> IF i = 0 THEN << >> ELSE f[i]]
<1>1. /\ t \in Seq(Seq(S)) /\ Len(t) = n + 1 /\ n \in Nat /\ t[n + 1] = x
      /\ \A i \in 1..n : t[i] = s[i] /\ s[i] \in Seq(S)
  BY AppendProperties, LenProperties
<1> HIDE DEF t, n
<1>2. f = [i \in 1..Len(t) |-> IF i = 1 THEN t[i] ELSE f[i-1] \o t[i]]
  BY <1>1, FlattenFunction, ZenonT(60)
<1> HIDE DEF f
<1>3. \A i \in 1..(n + 1) : f[i] = IF i = 1 THEN t[i] ELSE f[i-1] \o t[i]
  BY <1>1, <1>2
<1>4. p[0] = << >> /\ \A i \in 1..(n + 1) : p[i] = f[i]
  BY <1>1
<1> HIDE DEF p
<1>5. ASSUME NEW i \in 1..(n + 1) PROVE p[i] = p[i - 1] \o t[i]
  <2>1. CASE i = 1
    <3>1. t[i] \in Seq(S)
      BY <1>1, <2>1
    <3>2. << >> \o t[i] = t[i]
      BY <3>1, ConcatEmptySeq
    <3>3. p[i] = t[i] /\ p[i - 1] = << >>
      BY <1>3, <1>4, <2>1
    <3> QED
      BY <3>2, <3>3
  <2>2. CASE i # 1
    <3>1. i - 1 \in 1..(n + 1)
      BY <1>1, <2>2
    <3> QED
      BY <1>3, <1>4, <2>2, <3>1
  <2> QED
    BY <2>1, <2>2
<1>6. FlattenSeq(t) = p[n + 1]
  BY <1>1, <1>4, <1>5, FlattenIs
<1>7. \A i \in 1..Len(s) : p[i] = p[i - 1] \o s[i]
  <2> SUFFICES ASSUME NEW i \in 1..n PROVE p[i] = p[i - 1] \o s[i]
    BY DEF n
  <2>1. i \in 1..(n + 1)
    BY <1>1
  <2> QED
    BY <1>1, <1>5, <2>1
<1>8. FlattenSeq(s) = p[n]
  BY <1>4, <1>7, FlattenIs DEF n
<1>9. n + 1 \in 1..(n + 1) /\ (n + 1) - 1 = n
  BY <1>1
<1> QED
  BY <1>1, <1>5, <1>6, <1>8, <1>9 DEF t

-----------------------------------------------------------------------------
\* Two sequences that make the same with others, and are of the same length.
LEMMA JoinedSame ==
  ASSUME NEW S, NEW s \in Seq(S), NEW t \in Seq(S), NEW p \in Seq(S), NEW r \in Seq(S),
         s \o t = p \o r, Len(s) = Len(p)
  PROVE  s = p /\ t = r
<1>1. /\ Len(s) \in Nat /\ Len(t) \in Nat /\ Len(r) \in Nat
      /\ Len(s \o t) = Len(s) + Len(t) /\ Len(p \o r) = Len(p) + Len(r)
      /\ \A i \in 1..(Len(s) + Len(t)) : (s \o t)[i] = IF i <= Len(s) THEN s[i] ELSE t[i - Len(s)]
      /\ \A i \in 1..(Len(p) + Len(r)) : (p \o r)[i] = IF i <= Len(p) THEN p[i] ELSE r[i - Len(p)]
  BY ConcatProperties, LenProperties
<1>2. \A i \in 1..Len(s) : s[i] = p[i]
  BY <1>1
<1>3. s = p
  BY <1>2, SeqEqual
<1>4. Len(t) = Len(r)
  BY <1>1
<1>5. ASSUME NEW i \in 1..Len(t) PROVE t[i] = r[i]
  <2>1. i + Len(s) \in 1..(Len(s) + Len(t)) /\ ~(i + Len(s) <= Len(s)) /\ (i + Len(s)) - Len(s) = i
    BY <1>1
  <2> QED
    BY <1>1, <1>4, <2>1
<1> QED
  BY <1>3, <1>4, <1>5, SeqEqual

\* Any cut of a sequence.
LEMMA CutInTwo ==
  ASSUME NEW S, NEW s \in Seq(S), NEW k \in 0..Len(s)
  PROVE  /\ SubSeq(s, 1, k) \in Seq(S) /\ Len(SubSeq(s, 1, k)) = k
         /\ SubSeq(s, k + 1, Len(s)) \in Seq(S) /\ Len(SubSeq(s, k + 1, Len(s))) = Len(s) - k
         /\ \A i \in 1..k : SubSeq(s, 1, k)[i] = s[i]
         /\ \A i \in 1..(Len(s) - k) : SubSeq(s, k + 1, Len(s))[i] = s[k + i]
         /\ s = SubSeq(s, 1, k) \o SubSeq(s, k + 1, Len(s))
<1>1. Len(s) \in Nat /\ k \in Nat /\ k <= Len(s) /\ \A i \in 1..Len(s) : s[i] \in S
  BY LenProperties, ElementOfSeq
<1>2. /\ SubSeq(s, 1, k) \in Seq(S) /\ Len(SubSeq(s, 1, k)) = (IF 1 <= k THEN k - 1 + 1 ELSE 0)
      /\ \A i \in 1..(k - 1 + 1) : SubSeq(s, 1, k)[i] = s[1 + i - 1]
  <2>1. \A i \in 1..k : s[i] \in S
    BY <1>1
  <2> QED
    BY <1>1, <2>1, SubSeqProperties
<1>3. /\ SubSeq(s, k + 1, Len(s)) \in Seq(S)
      /\ Len(SubSeq(s, k + 1, Len(s))) = (IF k + 1 <= Len(s) THEN Len(s) - (k + 1) + 1 ELSE 0)
      /\ \A i \in 1..(Len(s) - (k + 1) + 1) : SubSeq(s, k + 1, Len(s))[i] = s[(k + 1) + i - 1]
  <2>1. \A i \in (k + 1)..Len(s) : s[i] \in S
    BY <1>1
  <2> QED
    BY <1>1, <2>1, SubSeqProperties
<1> DEFINE u == SubSeq(s, 1, k)
           v == SubSeq(s, k + 1, Len(s))
<1>4. /\ u \in Seq(S) /\ Len(u) = k /\ \A i \in 1..k : u[i] = s[i]
      /\ v \in Seq(S) /\ Len(v) = Len(s) - k /\ \A i \in 1..(Len(s) - k) : v[i] = s[k + i]
  BY <1>1, <1>2, <1>3
<1> HIDE DEF u, v
<1>5. /\ u \o v \in Seq(S) /\ Len(u \o v) = Len(u) + Len(v)
      /\ \A i \in 1..(Len(u) + Len(v)) : (u \o v)[i] = IF i <= Len(u) THEN u[i] ELSE v[i - Len(u)]
  BY <1>4, ConcatProperties
<1>6. Len(u \o v) = Len(s)
  BY <1>1, <1>4, <1>5
<1>7. ASSUME NEW i \in 1..Len(s) PROVE (u \o v)[i] = s[i]
  <2>1. CASE i <= k
    BY <1>1, <1>4, <1>5, <2>1
  <2>2. CASE ~(i <= k)
    <3>1. i - k \in 1..(Len(s) - k) /\ k + (i - k) = i
      BY <1>1, <2>2
    <3> QED
      BY <1>1, <1>4, <1>5, <2>2, <3>1
  <2> QED
    BY <2>1, <2>2
<1>8. u \o v = s
  BY <1>5, <1>6, <1>7, SeqEqual
<1> QED
  BY <1>4, <1>8 DEF u, v

\* Of two ways to cut a sequence, the longer first part begins with the other.
LEMMA CutTwice ==
  ASSUME NEW S, NEW s \in Seq(S), NEW t \in Seq(S), NEW p \in Seq(S), NEW r \in Seq(S),
         s \o t = p \o r, Len(p) <= Len(s)
  PROVE  \E z \in Seq(S) : s = p \o z /\ r = z \o t
<1> DEFINE q == SubSeq(s, 1, Len(p))
           z == SubSeq(s, Len(p) + 1, Len(s))
<1>1. Len(p) \in 0..Len(s)
  BY LenProperties
<1>2. q \in Seq(S) /\ Len(q) = Len(p) /\ z \in Seq(S) /\ s = q \o z
  BY <1>1, CutInTwo, ZenonT(60)
<1> HIDE DEF q, z
<1>3. (q \o z) \o t = q \o (z \o t)
  BY <1>2, ConcatAssociative, SMTT(60)
<1>4. z \o t \in Seq(S)
  BY <1>2, ConcatProperties
<1>5. p \o r = q \o (z \o t)
  BY <1>2, <1>3
<1>6. p = q /\ r = z \o t
  BY <1>2, <1>4, <1>5, JoinedSame
<1> QED
  BY <1>2, <1>6

\* A part of a sequence from the end of the first of two on.
LEMMA SecondPart ==
  ASSUME NEW S, NEW s \in Seq(S), NEW t \in Seq(S)
  PROVE  /\ SubSeq(s \o t, Len(s) + 1, Len(s \o t)) = t
         /\ SubSeq(s \o t, 1, Len(s)) = s
<1>1. s \o t \in Seq(S) /\ Len(s) \in 0..Len(s \o t)
  BY ConcatProperties, LenProperties
<1> DEFINE u == SubSeq(s \o t, 1, Len(s))
           v == SubSeq(s \o t, Len(s) + 1, Len(s \o t))
<1>2. u \in Seq(S) /\ Len(u) = Len(s) /\ v \in Seq(S) /\ s \o t = u \o v
  BY <1>1, CutInTwo, ZenonT(60)
<1> HIDE DEF u, v
<1>3. s \o t = u \o v /\ Len(s) = Len(u)
  BY <1>2
<1>4. s = u /\ t = v
  BY <1>2, <1>3, JoinedSame
<1> QED
  BY <1>4 DEF u, v

-----------------------------------------------------------------------------
\* A set of subsets of a finite set has them all, if it has the empty one and with
\* each one those with one element more.
LEMMA SubsetInduction ==
  ASSUME NEW S, IsFiniteSet(S), NEW T, {} \in T,
         \A s \in SUBSET S : \A x \in S \ s : s \in T => s \cup {x} \in T
  PROVE  SUBSET S \subseteq T
<1> DEFINE K == {n \in Nat : \A s \in SUBSET S : Cardinality(s) = n => s \in T}
<1>1. ASSUME NEW s \in SUBSET S PROVE IsFiniteSet(s) /\ Cardinality(s) \in Nat
  BY <1>1, FS_Subset, FS_CardinalityType
<1>2. 0 \in K
  BY <1>1, FS_EmptySet
<1>3. ASSUME NEW n \in Nat, n \in K PROVE n + 1 \in K
  <2> SUFFICES ASSUME NEW s \in SUBSET S, Cardinality(s) = n + 1 PROVE s \in T
    OBVIOUS
  <2>1. IsFiniteSet(s) /\ s # {}
    BY <1>1, FS_EmptySet
  <2>2. PICK x \in s : TRUE
    BY <2>1
  <2>3. Cardinality(s \ {x}) = n
    <3>1. Cardinality(s \ {x}) = Cardinality(s) - 1
      BY <2>1, <2>2, FS_RemoveElement
    <3> QED
      BY <3>1
  <2>4. s \ {x} \in T
    BY <1>3, <2>3
  <2>5. (s \ {x}) \cup {x} = s /\ x \in S \ (s \ {x}) /\ s \ {x} \in SUBSET S
    OBVIOUS
  <2> QED
    BY <2>4, <2>5
<1> HIDE DEF K
<1>4. Nat \subseteq K
  BY <1>2, <1>3, Induction
<1> QED
  BY <1>1, <1>4 DEF K

\* g[s] is the sum of f over s, whatever is taken first.
Additive(g, f, S) ==
  /\ g \in [SUBSET S -> Int]
  /\ g[{}] = 0
  /\ \A s \in SUBSET S : \A x \in s : g[s] = f[x] + g[s \ {x}]

\* There are such sums.
LEMMA AdditiveExists ==
  ASSUME NEW S, IsFiniteSet(S), NEW f \in [S -> Int]
  PROVE  \E g : Additive(g, f, S)
<1> DEFINE T == {s \in SUBSET S : \E g : Additive(g, f, s)}
<1>1. {} \in T
  <2>1. Additive([s \in SUBSET {} |-> 0], f, {})
    BY DEF Additive
  <2> QED
    BY <2>1
<1>2. ASSUME NEW s \in SUBSET S, NEW x \in S \ s, s \in T PROVE s \cup {x} \in T
  <2>1. PICK g : Additive(g, f, s)
    BY <1>2
  <2> DEFINE t == s \cup {x}
             h == [r \in SUBSET t |-> IF x \in r THEN f[x] + g[r \ {x}] ELSE g[r]]
  <2>2. /\ g \in [SUBSET s -> Int] /\ g[{}] = 0
        /\ \A r \in SUBSET s : \A y \in r : g[r] = f[y] + g[r \ {y}]
    BY <2>1 DEF Additive
  <2>3. \A r \in SUBSET t : r \ {x} \in SUBSET s /\ (x \notin r => r \in SUBSET s)
    OBVIOUS
  <2>4. f[x] \in Int /\ \A y \in s : f[y] \in Int
    OBVIOUS
  <2>5. h \in [SUBSET t -> Int]
    BY <2>2, <2>3, <2>4
  <2>6. h[{}] = 0
    BY <2>2
  <2>7. ASSUME NEW r \in SUBSET t, NEW y \in r PROVE h[r] = f[y] + h[r \ {y}]
    <3>1. r \ {y} \in SUBSET t
      OBVIOUS
    <3>2. CASE x \notin r
      <4>1. h[r] = g[r] /\ h[r \ {y}] = g[r \ {y}] /\ r \in SUBSET s
        BY <2>3, <3>1, <3>2
      <4> QED
        BY <2>2, <4>1
    <3>3. CASE y = x
      <4>1. h[r] = f[x] + g[r \ {x}] /\ h[r \ {x}] = g[r \ {x}]
        BY <3>1, <3>3
      <4> QED
        BY <3>3, <4>1
    <3>4. CASE x \in r /\ y # x
      <4>1. h[r] = f[x] + g[r \ {x}] /\ h[r \ {y}] = f[x] + g[(r \ {y}) \ {x}]
        BY <3>1, <3>4
      <4>2. r \ {x} \in SUBSET s /\ y \in r \ {x} /\ (r \ {x}) \ {y} = (r \ {y}) \ {x} /\ y \in s
        BY <2>3, <3>4
      <4> DEFINE q == (r \ {y}) \ {x}
      <4>3. g[r \ {x}] = f[y] + g[q]
        <5>1. g[r \ {x}] = f[y] + g[(r \ {x}) \ {y}]
          <6> HIDE DEF t, h, q
          <6> QED
            BY <2>2, <4>2
        <5> QED
          BY <4>2, <5>1
      <4>4. g[q] \in Int
        <5>1. q \in SUBSET s
          BY <2>3
        <5> QED
          BY <2>2, <5>1
      <4> HIDE DEF q, h
      <4> QED
        BY <2>4, <4>1, <4>2, <4>3, <4>4 DEF q
    <3> QED
      BY <3>2, <3>3, <3>4
  <2>8. Additive(h, f, t)
    <3> HIDE DEF h, t
    <3> QED
      BY <2>5, <2>6, <2>7 DEF Additive
  <2>9. \E k : Additive(k, f, t)
    <3> HIDE DEF h, t
    <3> QED
      BY <2>8
  <2>10. t \in SUBSET S
    OBVIOUS
  <2> HIDE DEF t
  <2>11. t \in T
    BY <2>9, <2>10
  <2> QED
    BY <2>11 DEF t
<1> HIDE DEF T
<1>3. S \in T
  BY <1>1, <1>2, SubsetInduction
<1> QED
  BY <1>3 DEF T

\* SumFunction is one of them.
LEMMA SumIs ==
  ASSUME NEW S, IsFiniteSet(S), NEW f \in [S -> Int], NEW g, Additive(g, f, S)
  PROVE  SumFunction(f) = g[S]
<1> DEFINE F(h) == h = [s \in SUBSET S |-> IF s = {} THEN 0
                          ELSE LET x == CHOOSE y \in s : TRUE IN f[x] + h[s \ {x}]]
           k == CHOOSE h : F(h)
<1>1. /\ g \in [SUBSET S -> Int] /\ g[{}] = 0
      /\ \A s \in SUBSET S : \A x \in s : g[s] = f[x] + g[s \ {x}]
  BY DEF Additive
<1>2. F(g)
  <2>1. ASSUME NEW s \in SUBSET S, s # {}
        PROVE  g[s] = LET x == CHOOSE y \in s : TRUE IN f[x] + g[s \ {x}]
    <3>1. PICK x : x = CHOOSE y \in s : TRUE
      OBVIOUS
    <3>2. x \in s
      BY <2>1, <3>1
    <3> QED
      BY <1>1, <3>1, <3>2
  <2>2. g = [s \in SUBSET S |-> g[s]]
    BY <1>1
  <2> QED
    BY <1>1, <2>1, <2>2
<1>3. F(k)
  <2>1. \E h : F(h)
    <3> HIDE DEF F
    <3> QED
      BY <1>2
  <2> HIDE DEF F
  <2> QED
    BY <2>1
<1>4. SumFunction(f) = k[S]
  <2>1. DOMAIN f = S
    OBVIOUS
  <2> QED
    BY <2>1 DEF SumFunction, SumFunctionOnSet, FoldFunctionOnSet, MapThenFoldSet
<1> HIDE DEF k
<1>5. \A s \in SUBSET S : k[s] = IF s = {} THEN 0
                            ELSE LET x == CHOOSE y \in s : TRUE IN f[x] + k[s \ {x}]
  BY <1>3
<1> HIDE DEF F
<1> DEFINE K == {n \in Nat : \A s \in SUBSET S : Cardinality(s) = n => k[s] = g[s]}
<1>6. ASSUME NEW s \in SUBSET S PROVE IsFiniteSet(s) /\ Cardinality(s) \in Nat
  BY <1>6, FS_Subset, FS_CardinalityType
<1>7. 0 \in K
  BY <1>1, <1>5, <1>6, FS_EmptySet
<1>8. ASSUME NEW n \in Nat, n \in K PROVE n + 1 \in K
  <2> SUFFICES ASSUME NEW s \in SUBSET S, Cardinality(s) = n + 1 PROVE k[s] = g[s]
    OBVIOUS
  <2>1. IsFiniteSet(s) /\ s # {}
    BY <1>6, FS_EmptySet
  <2>2. PICK x : x = CHOOSE y \in s : TRUE
    OBVIOUS
  <2>3. x \in s
    BY <2>1, <2>2
  <2>4. k[s] = f[x] + k[s \ {x}]
    BY <1>5, <2>1, <2>2
  <2>5. Cardinality(s \ {x}) = n /\ s \ {x} \in SUBSET S
    <3>1. Cardinality(s \ {x}) = Cardinality(s) - 1
      BY <2>1, <2>3, FS_RemoveElement
    <3> QED
      BY <3>1
  <2>6. k[s \ {x}] = g[s \ {x}]
    BY <1>8, <2>5
  <2> QED
    BY <1>1, <2>3, <2>4, <2>6
<1>9. Nat \subseteq K
  <2> HIDE DEF K
  <2> QED
    BY <1>7, <1>8, Induction
<1>10. k[S] = g[S]
  BY <1>6, <1>9
<1> QED
  BY <1>4, <1>10

\* So the sums over the subsets of a set are related as those of Additive are.
LEMMA SumFacts ==
  ASSUME NEW S, IsFiniteSet(S), NEW f \in [S -> Int]
  PROVE  \E g : /\ Additive(g, f, S)
                /\ \A s \in SUBSET S : SumFunction([x \in s |-> f[x]]) = g[s]
<1>1. PICK g : Additive(g, f, S)
  BY AdditiveExists
<1>2. ASSUME NEW s \in SUBSET S PROVE SumFunction([x \in s |-> f[x]]) = g[s]
  <2> DEFINE fs == [x \in s |-> f[x]]
             gs == [r \in SUBSET s |-> g[r]]
  <2>1. IsFiniteSet(s)
    BY FS_Subset
  <2>2. fs \in [s -> Int]
    OBVIOUS
  <2>3. Additive(gs, fs, s)
    BY <1>1 DEF Additive
  <2> HIDE DEF fs
  <2>4. SumFunction(fs) = gs[s]
    BY <2>1, <2>2, <2>3, SumIs
  <2> QED
    BY <2>4 DEF fs
<1> QED
  BY <1>1, <1>2
=============================================================================
