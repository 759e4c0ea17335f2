--------------------------- MODULE AisValuesProofs ---------------------------
(***************************************************************************)
(* Proofs about AisValues, for every set of the messages of AisContents,   *)
(* whatever applications set and other devices send, any number of calls   *)
(* of setters and of times a message is sent on.                           *)
(*                                                                         *)
(* The table of values is known by what its assumptions say of it, which   *)
(* TLC evaluates for every value of every message; the proofs go by kind   *)
(* of value and not by message.                                            *)
(*                                                                         *)
(* The inductive invariant says what each member may hold before and after *)
(* it has travelled, that before the first transmission it is what the     *)
(* last setter stored, and how far it may be from the member of the object *)
(* that was first made from bits, whether it waits to be sent on again or  *)
(* has arrived.  All else are lemmas about one setter, one transmission    *)
(* and one getter, and about the identities of stations.                   *)
(***************************************************************************)
EXTENDS AisValues, RecursionFacts, FiniteSetTheorems

-----------------------------------------------------------------------------
\* Powers of two that are the sizes of values.
LEMMA Powers ==
  ASSUME NEW b \in 1..30
  PROVE  /\ 2^b \in Nat /\ 2^(b - 1) \in Nat /\ 2^(b - 1) > 0
         /\ 2^b = 2^(b - 1) + 2^(b - 1)
<1> DEFINE Double(k) == 2^k \in Nat /\ 2^(k - 1) \in Nat /\ 2^(k - 1) > 0 /\ 2^k = 2^(k - 1) + 2^(k - 1)
<1>1. Double(1) /\ Double(2) /\ Double(3) /\ Double(4) /\ Double(5) /\ Double(6)
  OBVIOUS
<1>2. Double(7) /\ Double(8) /\ Double(9) /\ Double(10) /\ Double(11) /\ Double(12)
  OBVIOUS
<1>3. Double(13) /\ Double(14) /\ Double(15) /\ Double(16) /\ Double(17) /\ Double(18)
  OBVIOUS
<1>4. Double(19) /\ Double(20) /\ Double(21) /\ Double(22) /\ Double(23) /\ Double(24)
  OBVIOUS
<1>5. Double(25) /\ Double(26) /\ Double(27) /\ Double(28) /\ Double(29) /\ Double(30)
  OBVIOUS
<1> HIDE DEF Double
<1>6. Double(b)
  BY <1>1, <1>2, <1>3, <1>4, <1>5
<1> QED
  BY <1>6 DEF Double

\* What the table of a type is.
LEMMA Table ==
  ASSUME type \in Types
  PROVE  /\ Listed = Contents[type] /\ Listed # <<>> /\ Consistent(Listed)
         /\ Listed \in Seq(Values)
         /\ Values = {Listed[i] : i \in DOMAIN Listed}
         /\ Names = {Listed[i].name : i \in DOMAIN Listed}
         /\ Named = [x \in Names |-> CHOOSE value \in Values : value.name = x]
         /\ New = [x \in Names |-> Initial(Named[x])]
         /\ WriterOf = [x \in Names |-> Max({i \in DOMAIN Listed : Listed[i].into = x} \cup {0})]
<1>1. Descriptions[type] = Described(Contents[type])
  BY DEF Descriptions
<1>2. Listed = Contents[type] /\ Listed # <<>> /\ Consistent(Listed)
  BY <1>1, ContentsAssumption DEF Listed, Described
<1>3. Values = {Listed[i] : i \in DOMAIN Listed}
  BY DEF Values, ToSet
<1>4. Named = [x \in {Listed[i].name : i \in DOMAIN Listed} |-> CHOOSE value \in Values : value.name = x]
  BY <1>1, <1>2 DEF Named, Described, Values
<1>5. Names = {Listed[i].name : i \in DOMAIN Listed}
  BY <1>4 DEF Names
<1>6. New = [x \in Names |-> Initial(Named[x])]
  BY <1>1, <1>2, <1>5 DEF New, Named, Described
<1>7. WriterOf = [x \in Names |-> Max({i \in DOMAIN Listed : Listed[i].into = x} \cup {0})]
  BY <1>1, <1>2, <1>5 DEF WriterOf, Described
<1>8. Listed \in Seq(Values)
  BY <1>2, ContentsAssumption DEF Values
<1> QED
  BY <1>2, <1>3, <1>4, <1>5, <1>6, <1>7, <1>8

\* A value of a message is known by its name.
LEMMA OfValues ==
  ASSUME type \in Types, NEW value \in Values
  PROVE  /\ WellFormed(value) /\ value.name \in Names /\ Named[value.name] = value
         /\ New[value.name] = Initial(value) /\ value.name # NoSetter
<1>1. PICK i \in DOMAIN Listed : value = Listed[i]
  BY Table
<1>2. \A k, j \in DOMAIN Listed : Listed[k].name = Listed[j].name => k = j
  BY Table DEF Consistent
<1>3. WellFormed(value) /\ value.name # NoSetter
  BY Table DEF Consistent, Values
<1>4. value.name \in Names
  BY <1>1, Table
<1>5. \A other \in Values : other.name = value.name => other = value
  BY <1>1, <1>2, Table
<1>6. Named[value.name] = CHOOSE other \in Values : other.name = value.name
  BY <1>4, Table
<1>7. Named[value.name] = value
  BY <1>5, <1>6
<1> QED
  BY <1>3, <1>4, <1>7, Table

\* A name is that of a value.
LEMMA OfNames ==
  ASSUME type \in Types, NEW x \in Names
  PROVE  Named[x] \in Values /\ Named[x].name = x /\ New[x] = Initial(Named[x])
<1>1. PICK i \in DOMAIN Listed : x = Listed[i].name
  BY Table
<1>2. Listed[i] \in Values
  BY Table
<1> QED
  BY <1>1, <1>2, OfValues

\* There are names, finitely many.
LEMMA NamesFinite ==
  ASSUME type \in Types
  PROVE  Names # {} /\ IsFiniteSet(Names)
<1>1. PICK n \in Nat : DOMAIN Listed = 1..n
  BY Table, LenProperties
<1>2. IsFiniteSet(1..n) /\ 1..n # {}
  BY <1>1, Table, FS_Interval, EmptySeq, LenProperties
<1>3. IsFiniteSet({Listed[i].name : i \in 1..n})
  <2> DEFINE T == {Listed[i].name : i \in 1..n}
             f == [i \in 1..n |-> Listed[i].name]
  <2>1. f \in Surjection(1..n, T)
    BY DEF Surjection
  <2> QED
    BY <1>2, <2>1, FS_Surjection
<1>4. Names = {Listed[i].name : i \in 1..n}
  BY <1>1, Table
<1>5. PICK i : i \in 1..n
  BY <1>2
<1>6. Listed[i].name \in Names
  BY <1>4, <1>5
<1> QED
  BY <1>3, <1>4, <1>6

\* The last setter that assigns a value.
LEMMA OfWriters ==
  ASSUME type \in Types, NEW x \in Names
  PROVE  /\ WriterOf[x] # 0 => WriterOf[x] \in DOMAIN Listed /\ Listed[WriterOf[x]] \in Values
                              /\ Listed[WriterOf[x]].into = x
         /\ WriterOf[x] = 0 => \A value \in Values : value.into # x
<1>1. PICK n \in Nat : DOMAIN Listed = 1..n
  BY Table, LenProperties
<1> DEFINE S == {i \in DOMAIN Listed : Listed[i].into = x} \cup {0}
<1>2. S \in SUBSET Nat /\ S # {} /\ \A i \in S : i <= n
  BY <1>1
<1>3. Max(S) \in S /\ \A i \in S : i <= Max(S)
  BY <1>2, MaxOf
<1>4. WriterOf[x] = Max(S)
  BY Table
<1> HIDE DEF S
<1>5. WriterOf[x] # 0 => WriterOf[x] \in DOMAIN Listed /\ Listed[WriterOf[x]].into = x
  BY <1>3, <1>4 DEF S
<1>6. ASSUME WriterOf[x] = 0, NEW value \in Values, value.into = x PROVE FALSE
  <2>1. PICK i \in DOMAIN Listed : value = Listed[i]
    BY Table
  <2>2. i \in S /\ i >= 1
    BY <1>1, <1>6, <2>1 DEF S
  <2> QED
    BY <1>1, <1>3, <1>4, <1>6, <2>2
<1> QED
  BY <1>5, <1>6, Table

-----------------------------------------------------------------------------
\* The class whose identities have these first three of nine digits.
ClassOf(a) ==
  IF a \in 200..899 THEN "regular"
  ELSE IF a \in 10..99 THEN "group"
  ELSE IF a \in 0..9 THEN "coastal"
  ELSE IF a \in 980..989 THEN "auxiliary"
  ELSE IF a = 111 THEN "sar_aircraft"
  ELSE IF a = 972 THEN "mob"
  ELSE IF a = 970 THEN "sart"
  ELSE IF a = 974 THEN "epirb_ais"
  ELSE "ais_aids"

\* The classes, by name.
LEMMA Classes ==
  /\ ToSet(Tried) = {"regular", "group", "coastal", "auxiliary", "sar_aircraft", "mob", "sart",
                     "epirb_ais", "ais_aids"}
  /\ \A i, j \in DOMAIN Tried : Tried[i] = Tried[j] => i = j
  /\ DOMAIN Tried \subseteq Nat
<1>1. DOMAIN Tried = 1..9
  BY DEF Tried
<1>2. /\ Tried[1] = "regular" /\ Tried[2] = "group" /\ Tried[3] = "coastal"
      /\ Tried[4] = "auxiliary" /\ Tried[5] = "sar_aircraft" /\ Tried[6] = "mob"
      /\ Tried[7] = "sart" /\ Tried[8] = "epirb_ais" /\ Tried[9] = "ais_aids"
  BY DEF Tried
<1>3. DOMAIN Tried = {1, 2, 3, 4, 5, 6, 7, 8, 9}
  BY <1>1
<1> QED
  BY <1>2, <1>3 DEF ToSet

\* Of nine digits each class looks at the first three, though it may say so in
\* another way.
LEMMA ClassIs ==
  ASSUME NEW n \in Nat, n < 1000000000
  PROVE  /\ n \div 1000000 \in 0..999
         /\ is_regular(n) <=> n \div 1000000 \in 200..899
         /\ is_group(n) <=> n \div 1000000 \in 10..99
         /\ is_coastal(n) <=> n \div 1000000 \in 0..9
         /\ is_auxiliary(n) <=> n \div 1000000 \in 980..989
         /\ is_sar_aircraft(n) <=> n \div 1000000 = 111
         /\ is_mob(n) <=> n \div 1000000 = 972
         /\ is_sart(n) <=> n \div 1000000 = 970
         /\ is_epirb_ais(n) <=> n \div 1000000 = 974
         /\ is_ais_aids(n) <=> n \div 1000000 \in 990..999
<1>1. /\ n \div 1000000 \in 0..999 /\ (n \div 1000000) % 1000 = n \div 1000000
      /\ n \div 10000000 = (n \div 1000000) \div 10
      /\ n \div 100000000 = (n \div 1000000) \div 100
  OBVIOUS
<1>2. /\ Digits(n, 6, 3) = n \div 1000000
      /\ Without(n, 7) = (n \div 1000000) \div 10
      /\ Without(n, 8) = (n \div 1000000) \div 100
      /\ Digits(n, 5, 3) = (n \div 100000) % 1000
  BY <1>1 DEF Digits, Without
<1>3. n \div 1000000 \in 0..99 => (n \div 1000000 \in 10..99 <=> (n \div 100000) % 1000 >= 100)
  OBVIOUS
<1>4. is_auxiliary(n) <=> n \div 1000000 \in 980..989
  BY <1>1, <1>2 DEF is_auxiliary
<1>5. is_ais_aids(n) <=> n \div 1000000 \in 990..999
  BY <1>1, <1>2 DEF is_ais_aids
<1>6. is_coastal(n) <=> n \div 1000000 \in 0..9
  BY <1>1, <1>2 DEF is_coastal
<1>7. is_group(n) <=> n \div 1000000 \in 10..99
  BY <1>1, <1>2, <1>3, <1>4, <1>5 DEF is_group
<1> QED
  BY <1>1, <1>2, <1>4, <1>5, <1>6, <1>7, SMTT(60) DEF is_regular, is_sar_aircraft, is_mob, is_sart, is_epirb_ais

\* An identity is of one class at most.
LEMMA OneClass ==
  ASSUME NEW n \in Nat, n < 1000000000, NEW c \in ToSet(Tried), Is(c, n)
  PROVE  c = ClassOf(n \div 1000000)
<1>1. CASE c = "regular"
  <2>1. is_regular(n)
    BY <1>1 DEF Is
  <2> QED
    BY <1>1, <2>1, ClassIs, SMTT(60) DEF ClassOf
<1>2. CASE c = "group"
  <2>1. is_group(n)
    BY <1>2 DEF Is
  <2> QED
    BY <1>2, <2>1, ClassIs DEF ClassOf
<1>3. CASE c = "coastal"
  <2>1. is_coastal(n)
    BY <1>3 DEF Is
  <2> QED
    BY <1>3, <2>1, ClassIs DEF ClassOf
<1>4. CASE c = "auxiliary"
  <2>1. is_auxiliary(n)
    BY <1>4 DEF Is
  <2> QED
    BY <1>4, <2>1, ClassIs, SMTT(60) DEF ClassOf
<1>5. CASE c = "sar_aircraft"
  <2>1. is_sar_aircraft(n)
    BY <1>5 DEF Is
  <2> QED
    BY <1>5, <2>1, ClassIs, SMTT(60) DEF ClassOf
<1>6. CASE c = "mob"
  <2>1. is_mob(n)
    BY <1>6 DEF Is
  <2> QED
    BY <1>6, <2>1, ClassIs, SMTT(60) DEF ClassOf
<1>7. CASE c = "sart"
  <2>1. is_sart(n)
    BY <1>7 DEF Is
  <2> QED
    BY <1>7, <2>1, ClassIs DEF ClassOf
<1>8. CASE c = "epirb_ais"
  <2>1. is_epirb_ais(n)
    BY <1>8 DEF Is
  <2> QED
    BY <1>8, <2>1, ClassIs DEF ClassOf
<1>9. CASE c = "ais_aids"
  <2>1. is_ais_aids(n)
    BY <1>9 DEF Is
  <2> QED
    BY <1>9, <2>1, ClassIs DEF ClassOf
<1> QED
  BY Classes, <1>1, <1>2, <1>3, <1>4, <1>5, <1>6, <1>7, <1>8, <1>9

\* mid, id and man tell what the class of the identity has.
LEMMA TakenIs ==
  ASSUME NEW n \in Nat, n < 1000000000, NEW c \in ToSet(Tried), Is(c, n), NEW places
  PROVE  Taken(places, n) = IF c \in DOMAIN places THEN Digits(n, places[c][1], places[c][2]) ELSE 0
<1> DEFINE found == {k \in DOMAIN Tried : Tried[k] \in DOMAIN places /\ Is(Tried[k], n)}
           which == CHOOSE k \in found : \A j \in found : k <= j
<1>1. PICK i \in DOMAIN Tried : Tried[i] = c
  BY DEF ToSet
<1>2. \A k \in DOMAIN Tried : Is(Tried[k], n) => k = i
  <2> SUFFICES ASSUME NEW k \in DOMAIN Tried, Is(Tried[k], n) PROVE k = i
    OBVIOUS
  <2>1. Tried[k] \in ToSet(Tried)
    BY DEF ToSet
  <2>2. Tried[k] = Tried[i]
    BY <1>1, <2>1, OneClass
  <2> QED
    BY <2>2, Classes
<1>3. CASE c \in DOMAIN places
  <2>1. found = {i} /\ i \in Nat
    BY <1>1, <1>2, <1>3, Classes
  <2> HIDE DEF found
  <2>2. which = i
    BY <2>1
  <2>3. Taken(places, n) = IF found = {} THEN 0 ELSE Digits(n, places[Tried[which]][1], places[Tried[which]][2])
    BY DEF Taken, initial_value, found
  <2> QED
    BY <1>1, <1>3, <2>1, <2>2, <2>3
<1>4. CASE c \notin DOMAIN places
  <2>1. found = {}
    BY <1>1, <1>2, <1>4
  <2> QED
    BY <1>4, <2>1 DEF Taken, initial_value
<1> QED
  BY <1>3, <1>4

\* The parts of an identity are the identity, by class.
LEMMA PartsOf ==
  ASSUME NEW n \in Nat, n < 1000000000, NEW c \in ToSet(Tried) \ {"ais_aids"}, Is(c, n)
  PROVE  Composed(c, n) = n
<1>1. CASE c = "regular"
  <2>1. mid(n) = Digits(n, 6, 3) /\ id(n) = Digits(n, 0, 6)
    BY <1>1, TakenIs DEF mid, id, MidOf, IdOf
  <2>2. mid(n) = (n \div 1000000) % 1000 /\ id(n) = n % 1000000
    BY <2>1 DEF Digits
  <2>3. is_regular(n)
    BY <1>1 DEF Is
  <2>4. Begins[c][1] = 0 /\ Begins[c][2] = 0 /\ (c \in DOMAIN MidOf)
    BY <1>1 DEF Begins, MidOf
  <2>5. Composed(c, n) = 0 * 10^9 + mid(n) * 10^6 + id(n)
    BY <2>4 DEF Composed
  <2> QED
    BY <2>2, <2>3, <2>5, ClassIs, SMTT(60)
<1>2. CASE c = "group"
  <2>1. mid(n) = Digits(n, 5, 3) /\ id(n) = Digits(n, 0, 5)
    BY <1>2, TakenIs DEF mid, id, MidOf, IdOf
  <2>2. mid(n) = (n \div 100000) % 1000 /\ id(n) = n % 100000
    BY <2>1 DEF Digits
  <2>3. is_group(n)
    BY <1>2 DEF Is
  <2>4. Begins[c][1] = 0 /\ Begins[c][2] = 1 /\ (c \in DOMAIN MidOf)
    BY <1>2 DEF Begins, MidOf
  <2>5. Composed(c, n) = 0 * 10^8 + mid(n) * 10^5 + id(n)
    BY <2>4 DEF Composed
  <2> QED
    BY <2>2, <2>3, <2>5, ClassIs, SMTT(60)
<1>3. CASE c = "coastal"
  <2>1. mid(n) = Digits(n, 4, 3) /\ id(n) = Digits(n, 0, 4)
    BY <1>3, TakenIs DEF mid, id, MidOf, IdOf
  <2>2. mid(n) = (n \div 10000) % 1000 /\ id(n) = n % 10000
    BY <2>1 DEF Digits
  <2>3. is_coastal(n)
    BY <1>3 DEF Is
  <2>4. Begins[c][1] = 0 /\ Begins[c][2] = 2 /\ (c \in DOMAIN MidOf)
    BY <1>3 DEF Begins, MidOf
  <2>5. Composed(c, n) = 0 * 10^7 + mid(n) * 10^4 + id(n)
    BY <2>4 DEF Composed
  <2> QED
    BY <2>2, <2>3, <2>5, ClassIs, SMTT(60)
<1>4. CASE c = "auxiliary"
  <2>1. mid(n) = Digits(n, 4, 3) /\ id(n) = Digits(n, 0, 4)
    BY <1>4, TakenIs DEF mid, id, MidOf, IdOf
  <2>2. mid(n) = (n \div 10000) % 1000 /\ id(n) = n % 10000
    BY <2>1 DEF Digits
  <2>3. is_auxiliary(n)
    BY <1>4 DEF Is
  <2>4. Begins[c][1] = 98 /\ Begins[c][2] = 2 /\ (c \in DOMAIN MidOf)
    BY <1>4 DEF Begins, MidOf
  <2>5. Composed(c, n) = 98 * 10^7 + mid(n) * 10^4 + id(n)
    BY <2>4 DEF Composed
  <2> QED
    BY <2>2, <2>3, <2>5, ClassIs, SMTT(60)
<1>5. CASE c = "sar_aircraft"
  <2>1. mid(n) = Digits(n, 3, 3) /\ id(n) = Digits(n, 0, 3)
    BY <1>5, TakenIs DEF mid, id, MidOf, IdOf
  <2>2. mid(n) = (n \div 1000) % 1000 /\ id(n) = n % 1000
    BY <2>1 DEF Digits
  <2>3. is_sar_aircraft(n)
    BY <1>5 DEF Is
  <2>4. Begins[c][1] = 111 /\ Begins[c][2] = 3 /\ (c \in DOMAIN MidOf)
    BY <1>5 DEF Begins, MidOf
  <2>5. Composed(c, n) = 111 * 10^6 + mid(n) * 10^3 + id(n)
    BY <2>4 DEF Composed
  <2> QED
    BY <2>2, <2>3, <2>5, ClassIs, SMTT(60)
<1>6. CASE c = "mob"
  <2>1. man(n) = Digits(n, 4, 2) /\ id(n) = Digits(n, 0, 4)
    BY <1>6, TakenIs DEF man, id, ManOf, IdOf
  <2>2. man(n) = (n \div 10000) % 100 /\ id(n) = n % 10000
    BY <2>1 DEF Digits
  <2>3. is_mob(n)
    BY <1>6 DEF Is
  <2>4. Begins[c][1] = 972 /\ Begins[c][2] = 3 /\ ~(c \in DOMAIN MidOf)
    BY <1>6 DEF Begins, MidOf
  <2>5. Composed(c, n) = 972 * 10^6 + man(n) * 10^4 + id(n)
    BY <2>4 DEF Composed
  <2> QED
    BY <2>2, <2>3, <2>5, ClassIs, SMTT(60)
<1>7. CASE c = "sart"
  <2>1. man(n) = Digits(n, 4, 2) /\ id(n) = Digits(n, 0, 4)
    BY <1>7, TakenIs DEF man, id, ManOf, IdOf
  <2>2. man(n) = (n \div 10000) % 100 /\ id(n) = n % 10000
    BY <2>1 DEF Digits
  <2>3. is_sart(n)
    BY <1>7 DEF Is
  <2>4. Begins[c][1] = 970 /\ Begins[c][2] = 3 /\ ~(c \in DOMAIN MidOf)
    BY <1>7 DEF Begins, MidOf
  <2>5. Composed(c, n) = 970 * 10^6 + man(n) * 10^4 + id(n)
    BY <2>4 DEF Composed
  <2> QED
    BY <2>2, <2>3, <2>5, ClassIs, SMTT(60)
<1>8. CASE c = "epirb_ais"
  <2>1. man(n) = Digits(n, 4, 2) /\ id(n) = Digits(n, 0, 4)
    BY <1>8, TakenIs DEF man, id, ManOf, IdOf
  <2>2. man(n) = (n \div 10000) % 100 /\ id(n) = n % 10000
    BY <2>1 DEF Digits
  <2>3. is_epirb_ais(n)
    BY <1>8 DEF Is
  <2>4. Begins[c][1] = 974 /\ Begins[c][2] = 3 /\ ~(c \in DOMAIN MidOf)
    BY <1>8 DEF Begins, MidOf
  <2>5. Composed(c, n) = 974 * 10^6 + man(n) * 10^4 + id(n)
    BY <2>4 DEF Composed
  <2> QED
    BY <2>2, <2>3, <2>5, ClassIs, SMTT(60)
<1> QED
  BY Classes, <1>1, <1>2, <1>3, <1>4, <1>5, <1>6, <1>7, <1>8

\* Of an aid to navigation there is neither MID nor manufacturer.
LEMMA PartsOfAids ==
  ASSUME NEW n \in Nat, n < 1000000000, Is("ais_aids", n)
  PROVE  mid(n) = initial_value /\ man(n) = initial_value
<1>1. "ais_aids" \in ToSet(Tried)
  BY Classes
<1> QED
  BY <1>1, TakenIs DEF mid, man, MidOf, ManOf, initial_value

\* A country goes by its MID.
LEMMA CountryIs ==
  ASSUME NEW n \in Nat, n < 1000000000
  PROVE  mmsi_country(n) \in {initial_value, mid(n)}
<1> DEFINE found == ((IF is_regular(n) THEN {Digits(n, 6, 3)} ELSE {})
                      \cup (IF is_sar_aircraft(n) THEN {Digits(n, 3, 3)} ELSE {})) \cap Countries
<1>1. mmsi_country(n) = IF found = {} THEN initial_value ELSE CHOOSE c \in found : TRUE
  BY DEF mmsi_country
<1>2. found # {} => mmsi_country(n) \in found
  BY <1>1
<1>3. is_regular(n) => ~is_sar_aircraft(n) /\ mid(n) = Digits(n, 6, 3)
  <2> SUFFICES ASSUME is_regular(n) PROVE ~is_sar_aircraft(n) /\ mid(n) = Digits(n, 6, 3)
    OBVIOUS
  <2>1. "regular" \in ToSet(Tried) /\ Is("regular", n)
    BY Classes DEF Is
  <2> QED
    BY <2>1, ClassIs, TakenIs, SMTT(60) DEF mid, MidOf
<1>4. is_sar_aircraft(n) => ~is_regular(n) /\ mid(n) = Digits(n, 3, 3)
  <2> SUFFICES ASSUME is_sar_aircraft(n) PROVE ~is_regular(n) /\ mid(n) = Digits(n, 3, 3)
    OBVIOUS
  <2>1. "sar_aircraft" \in ToSet(Tried) /\ Is("sar_aircraft", n)
    BY Classes DEF Is
  <2> QED
    BY <2>1, ClassIs, TakenIs, SMTT(60) DEF mid, MidOf
<1>5. \A x \in found : x = mid(n)
  BY <1>3, <1>4
<1> HIDE DEF found
<1> QED
  BY <1>1, <1>2, <1>5

\* Thirty bits may hold ten digits, but not an identity of any class then.
LEMMA TenDigits ==
  ASSUME NEW n \in Nat, n >= 1000000000, n < 1073741824, NEW c \in ToSet(Tried)
  PROVE  ~Is(c, n)
<1>1. (n \div 1000000) % 1000 < 100 /\ n \div 10000000 >= 100 /\ n \div 100000000 = 10
  OBVIOUS
<1>2. Digits(n, 6, 3) < 100 /\ Without(n, 7) >= 100 /\ Without(n, 8) = 10
  BY <1>1 DEF Digits, Without
<1>3. /\ Digits(n, 6, 3) \in Nat /\ Without(n, 7) \in Nat
  BY DEF Digits, Without
<1>4. ~is_regular(n) /\ ~is_sar_aircraft(n) /\ ~is_sart(n) /\ ~is_mob(n) /\ ~is_epirb_ais(n)
  BY <1>2, <1>3 DEF is_regular, is_sar_aircraft, is_sart, is_mob, is_epirb_ais
<1>5. ~is_coastal(n) /\ ~is_auxiliary(n) /\ ~is_ais_aids(n) /\ ~is_group(n)
  BY <1>2, <1>3 DEF is_coastal, is_auxiliary, is_ais_aids, is_group
<1> QED
  BY <1>4, <1>5 DEF Is

\* What is told of a station, by its number.
LEMMA StationIs ==
  ASSUME NEW n \in Nat
  PROVE  LET classes == {c \in ToSet(Tried) : Is(c, n)}
         IN IF n >= 10^9 THEN n < 2^30 => classes = {}
            ELSE /\ \A c, d \in classes : c = d
                 /\ \A c \in classes :
                      IF c = "ais_aids" THEN mid(n) = initial_value /\ man(n) = initial_value
                      ELSE Composed(c, n) = n
                 /\ mmsi_country(n) \in {initial_value, mid(n)}
<1> DEFINE classes == {c \in ToSet(Tried) : Is(c, n)}
<1>1. 10^9 = 1000000000 /\ 2^30 = 1073741824
  OBVIOUS
<1>2. CASE n >= 1000000000
  <2>1. n < 1073741824 => classes = {}
    BY <1>2, TenDigits
  <2> QED
    BY <1>1, <1>2, <2>1
<1>3. CASE n < 1000000000
  <2>1. \A c, d \in classes : c = d
    BY <1>3, OneClass
  <2>2. \A c \in classes : c # "ais_aids" => Composed(c, n) = n
    BY <1>3, PartsOf
  <2>3. \A c \in classes : c = "ais_aids" => mid(n) = initial_value /\ man(n) = initial_value
    BY <1>3, PartsOfAids
  <2>4. mmsi_country(n) \in {initial_value, mid(n)}
    BY <1>3, CountryIs
  <2> HIDE DEF classes
  <2>5. ~(n >= 10^9)
    BY <1>1, <1>3
  <2> QED
    BY <2>1, <2>2, <2>3, <2>4, <2>5 DEF classes
<1> QED
  BY <1>2, <1>3

-----------------------------------------------------------------------------
\* A number with a sign comes back from the bits it fits into.
LEMMA Wrapped ==
  ASSUME NEW b \in 1..30, NEW n \in Int
  PROVE  /\ n % 2^b \in 0..(2^b - 1)
         /\ n \in 0..(2^b - 1) => n % 2^b = n
         /\ n >= -(2^(b - 1)) /\ n < 2^(b - 1) => Signed(n % 2^b, b) = n
<1> DEFINE h == 2^(b - 1)
           w == 2^b
<1>1. h \in Nat /\ h > 0 /\ w = h + h
  BY Powers
<1> HIDE DEF h, w
<1>2. n % w \in 0..(w - 1) /\ (n \in 0..(w - 1) => n % w = n)
  BY <1>1
<1>3. n >= 0 /\ n < h => n % w = n
  BY <1>1
<1>4. n < 0 /\ n >= -h => n % w = n + w
  BY <1>1
<1>5. n >= -h /\ n < h => (IF n % w >= h THEN (n % w) - w ELSE n % w) = n
  BY <1>1, <1>3, <1>4
<1> QED
  BY <1>2, <1>5 DEF Signed, h, w

\* What fits the bits of any value.
LEMMA Within ==
  \A b \in 1..30 : \A n \in Int : n % 2^b \in Nat /\ n % 2^b < 2^b /\ (n \in Nat /\ n < 2^b => n % 2^b = n)
<1> SUFFICES ASSUME NEW b \in 1..30, NEW n \in Int
             PROVE  n % 2^b \in Nat /\ n % 2^b < 2^b /\ (n \in Nat /\ n < 2^b => n % 2^b = n)
  OBVIOUS
<1> DEFINE w == 2^b
<1>1. w \in Nat /\ n % w \in 0..(w - 1) /\ (n \in 0..(w - 1) => n % w = n)
  BY Powers, Wrapped
<1> HIDE DEF w
<1>2. n % w \in Nat /\ n % w < w /\ (n \in Nat /\ n < w => n % w = n)
  BY <1>1
<1> QED
  BY <1>2 DEF w

\* What a number of the bits is with its sign.
LEMMA SignedIs ==
  ASSUME NEW b \in 1..30, NEW n \in 0..(2^b - 1)
  PROVE  /\ Signed(n, b) \in Int /\ Signed(n, b) >= -(2^(b - 1)) /\ Signed(n, b) < 2^(b - 1)
         /\ Signed(n, b) % 2^b = n
         /\ n < 2^(b - 1) => Signed(n, b) = n
<1> DEFINE h == 2^(b - 1)
           w == 2^b
<1>1. h \in Nat /\ h > 0 /\ w = h + h
  BY Powers
<1>2. n \in 0..(w - 1) /\ Signed(n, b) = IF n >= h THEN n - w ELSE n
  BY DEF Signed
<1> HIDE DEF h, w
<1>3. n >= h => (n - w) % w = n
  BY <1>1, <1>2
<1>4. n % w = n
  BY <1>1, <1>2
<1>5. Signed(n, b) \in Int /\ Signed(n, b) >= -h /\ Signed(n, b) < h /\ Signed(n, b) % w = n /\ (n < h => Signed(n, b) = n)
  BY <1>1, <1>2, <1>3, <1>4
<1> QED
  BY <1>5 DEF h, w

\* Zero is zero in the bits of any value.
LEMMA ZeroFits ==
  \A b \in 1..30 : 0 % 2^b = 0 /\ Signed(0, b) = 0
<1> SUFFICES ASSUME NEW b \in 1..30 PROVE 0 % 2^b = 0 /\ Signed(0, b) = 0
  OBVIOUS
<1> DEFINE w == 2^b
           h == 2^(b - 1)
<1>1. w \in Nat /\ h \in Nat /\ h > 0 /\ w = h + h
  BY Powers
<1>2. Signed(0, b) = IF 0 >= h THEN 0 - w ELSE 0
  BY DEF Signed
<1> HIDE DEF w, h
<1>3. 0 % w = 0
  BY <1>1
<1>4. Signed(0, b) = 0
  BY <1>1, <1>2
<1> QED
  BY <1>3, <1>4 DEF w

\* Degrees of 1e-6 and steps of an angle: per of them are six.
Pers == {10, 100, 10000}

\* Largest angles.
Poles == {90000000, 180000000}

\* What is set, and what comes back: a step further south or west at most, and
\* not beyond the pole.
LEMMA StepsFrom ==
  ASSUME NEW per \in Pers, NEW L \in Poles, NEW x \in (-L)..L, NEW n \in Steps(x, per)
  PROVE  /\ n \in Int /\ n >= -(6 * (L \div per)) /\ n <= 6 * (L \div per)
         /\ x - Degrees(n, per) \in 0..((per \div 6) + 1)
         /\ Degrees(n, per) \in (-L)..L
<1>1. n \in {(6 * x) \div per} \cup (IF (6 * x) % per = 0 /\ x % 1000000 # 0 THEN {((6 * x) \div per) - 1} ELSE {})
  BY DEF Steps
<1>2. CASE per = 10
  BY <1>1, <1>2 DEF Degrees, Poles
<1>3. CASE per = 100
  BY <1>1, <1>3 DEF Degrees, Poles
<1>4. CASE per = 10000
  BY <1>1, <1>4 DEF Degrees, Poles
<1> QED
  BY <1>2, <1>3, <1>4 DEF Pers

\* What a number of steps becomes when it is read and set again.
Again(s, n) == IF s % 3 = 1 THEN n = s ELSE IF s % 3 = 2 THEN n = s - 1 ELSE n \in {s, s - 1}

\* A number of steps, read and set again.
LEMMA StepsAgain ==
  ASSUME NEW per \in Pers, NEW L \in Poles, NEW s \in Int, Degrees(s, per) \in (-L)..L,
         NEW n \in Steps(Degrees(s, per), per)
  PROVE  /\ Again(s, n)
         /\ s >= -(6 * (L \div per)) /\ s <= 6 * (L \div per)
         /\ n \in Int /\ n >= -(6 * (L \div per)) /\ n <= 6 * (L \div per)
<1> DEFINE x == (per * s + 3) \div 6
<1>1. x \in (-L)..L /\ n \in Steps(x, per)
  BY DEF Degrees
<1>2. n \in {(6 * x) \div per} \cup (IF (6 * x) % per = 0 /\ x % 1000000 # 0 THEN {((6 * x) \div per) - 1} ELSE {})
  BY <1>1 DEF Steps
<1>3. CASE per = 10
  BY <1>1, <1>2, <1>3 DEF Poles, Again
<1>4. CASE per = 100
  BY <1>1, <1>2, <1>4 DEF Poles, Again
<1>5. CASE per = 10000
  BY <1>1, <1>2, <1>5 DEF Poles, Again
<1> QED
  BY <1>3, <1>4, <1>5 DEF Pers

-----------------------------------------------------------------------------
\* What an angle loses in all, however often it is read and set again.
Settled(s, n) ==
  IF s % 3 = 1 THEN n = s ELSE IF s % 3 = 2 THEN n \in {s, s - 1} ELSE n \in {s, s - 1, s - 2}

\* It is what it loses once and what that loses again.
LEMMA SettledAgain ==
  ASSUME NEW s \in Int, NEW n \in Int, NEW k \in Int, Settled(s, n), Again(n, k)
  PROVE  Settled(s, k)
BY DEF Settled, Again

\* It is two steps at most.
LEMMA SettledNear ==
  ASSUME NEW per \in Pers, NEW s \in Int, NEW n \in Int, Settled(s, n)
  PROVE  Degrees(s, per) - Degrees(n, per) \in 0..(((2 * per) \div 6) + 1)
<1>1. n \in {s, s - 1, s - 2}
  BY DEF Settled
<1> QED
  BY <1>1 DEF Degrees, Pers

\* Between the poles an angle can be read.
LEMMA BetweenPoles ==
  ASSUME NEW per \in Pers, NEW L \in Poles, NEW s \in Int, s >= -(6 * (L \div per)), s <= 6 * (L \div per)
  PROVE  Degrees(s, per) \in (-L)..L
BY DEF Degrees, Pers, Poles

\* The bits of a value.
LEMMA Shape ==
  ASSUME NEW value, WellFormed(value)
  PROVE  /\ DOMAIN value.bits = 1..Len(value.bits) /\ Len(value.bits) \in 1..2
         /\ value.kind # "angle" => DOMAIN value.bits = {1} /\ Len(value.bits) = 1
         /\ \A i \in DOMAIN value.bits : value.bits[i] \in 1..30 /\ 2^value.bits[i] \in Nat
         /\ 1 \in DOMAIN value.bits
<1>1. value.bits \in Seq(1..30)
  BY DEF WellFormed
<1>2. DOMAIN value.bits = 1..Len(value.bits) /\ Len(value.bits) \in 1..2
  <2>1. Len(value.bits) \in 1..2
    BY DEF WellFormed
  <2> QED
    BY <1>1, <2>1, LenProperties
<1>3. value.kind # "angle" => Len(value.bits) = 1
  BY DEF WellFormed
<1>4. \A i \in DOMAIN value.bits : value.bits[i] \in 1..30
  BY <1>1, <1>2, ElementOfSeq
<1>5. \A i \in DOMAIN value.bits : 2^value.bits[i] \in Nat
  BY <1>4, Powers
<1>6. 1 \in DOMAIN value.bits /\ (value.kind # "angle" => DOMAIN value.bits = {1})
  <2>1. 1..1 = {1} /\ \A n \in 1..2 : 1 \in 1..n
    OBVIOUS
  <2> QED
    BY <1>2, <1>3, <2>1
<1> QED
  BY <1>2, <1>3, <1>4, <1>5, <1>6

\* The bounds of an angle, and the numbers which mean that it is missing.
LEMMA AngleIs ==
  ASSUME NEW value, WellFormed(value), value.kind = "angle", NEW i \in DOMAIN value.bits
  PROVE  /\ value.per \in Pers /\ Largest(value, i) \in Poles
         /\ Most(value, i) = 6 * (Largest(value, i) \div value.per) /\ Most(value, i) \in Nat
         /\ value.missing # <<>> /\ DOMAIN value.missing = DOMAIN value.bits
         /\ value.missing[i] \in Nat /\ value.missing[i] < 2^value.bits[i]
         /\ value.missing[i] > Most(value, i) /\ value.missing[i] < 2^(value.bits[i] - 1)
         /\ Signed(value.missing[i], value.bits[i]) = value.missing[i]
<1>1. value.per \in Pers /\ value.missing[i] > Most(value, i) /\ value.missing[i] < 2^(value.bits[i] - 1)
  BY DEF WellFormed, I4, I3, I1, Pers
<1>2. Largest(value, i) \in Poles
  BY DEF Largest, Poles
<1>3. Most(value, i) = 6 * (Largest(value, i) \div value.per)
  BY DEF Most
<1>4. Most(value, i) \in Nat
  BY <1>1, <1>2, <1>3 DEF Pers, Poles
<1>5. value.missing \in Readable(value) /\ value.missing # <<>>
  BY DEF WellFormed, Initial
<1>6. /\ DOMAIN value.missing = DOMAIN value.bits
      /\ value.missing[i] \in Nat /\ value.missing[i] < 2^value.bits[i]
  BY <1>5 DEF Readable, Texts
<1>7. value.bits[i] \in 1..30 /\ value.missing[i] \in 0..(2^value.bits[i] - 1)
  BY <1>6, Shape
<1>8. Signed(value.missing[i], value.bits[i]) = value.missing[i]
  BY <1>1, <1>7, SignedIs
<1> QED
  BY <1>1, <1>2, <1>3, <1>4, <1>5, <1>6, <1>8

\* What a getter returns of the numbers n, c if it finds that they are missing.
Told(value, c, n) == IF c THEN value.gives ELSE [i \in DOMAIN value.bits |-> Got(value, i, n[i])]

\* The getter throws.
Throws(value, v) ==
  /\ value.kind = "angle"
  /\ \E i \in DOMAIN v : v[i] \notin (-Largest(value, i))..Largest(value, i)

\* What the bits of the numbers q are read as.
Bits(value, q) == [i \in DOMAIN q |-> OnTheWay(value, i, q[i])]

\* The steps of an angle, with their sign.
Step(value, n, i) == Signed(n[i], value.bits[i])

\* An angle that is not missing has lost as much as Settled says and is between
\* the poles; one that is stays missing, or is zero if its getter says so.
KeptAngle(value, n0, n) ==
  IF IsMissing(value, n0)
    THEN IsMissing(value, n) \/ (value.gives # Nothing /\ \A i \in DOMAIN value.bits : n[i] = 0)
    ELSE \A i \in DOMAIN value.bits :
           /\ Settled(Step(value, n0, i), Step(value, n, i))
           /\ Step(value, n, i) >= -Most(value, i) /\ Step(value, n, i) <= Most(value, i)

\* The numbers of an angle.
LEMMA AngleReadable ==
  ASSUME NEW value, WellFormed(value), value.kind = "angle", NEW n \in Readable(value),
         NEW i \in DOMAIN value.bits
  PROVE  /\ n[i] \in 0..(2^value.bits[i] - 1) /\ Step(value, n, i) \in Int /\ DOMAIN n = DOMAIN value.bits
         /\ value.bits[i] \in 1..30
<1>1. n[i] \in Nat /\ n[i] < 2^value.bits[i] /\ DOMAIN n = DOMAIN value.bits
  BY DEF Readable, Texts
<1>2. value.bits[i] \in 1..30 /\ 2^value.bits[i] \in Nat
  BY Shape
<1>3. n[i] \in 0..(2^value.bits[i] - 1)
  BY <1>1, <1>2
<1> QED
  BY <1>1, <1>2, <1>3, SignedIs DEF Step

\* What the setter of an angle stores.
LEMMA AngleStored ==
  ASSUME NEW value, WellFormed(value), value.kind = "angle",
         NEW v \in [DOMAIN value.bits -> Int], NEW q \in Stored(value, v)
  PROVE  /\ q \in [DOMAIN value.bits -> Int]
         /\ \A i \in DOMAIN value.bits :
              \E n \in Steps(v[i], value.per) : n \in Int /\ q[i] = n % 2^value.bits[i]
<1>1. DOMAIN value.bits = 1..Len(value.bits) /\ Len(value.bits) \in 1..2 /\ value.per \in Pers
  BY Shape, AngleIs
<1>2. v # Nothing /\ Len(v) = Len(value.bits) /\ ~TooMuch(value, v)
  <2>1. DOMAIN v = 1..Len(value.bits) /\ v \in Seq(Int)
    <3>1. Len(value.bits) \in Nat /\ v \in [1..Len(value.bits) -> Int]
      BY <1>1
    <3> QED
      BY <3>1, SeqDef
  <2>2. Len(v) = Len(value.bits)
    <3>1. DOMAIN v = 1..Len(v) /\ Len(v) \in Nat
      BY <2>1, LenProperties
    <3> QED
      BY <1>1, <2>1, <3>1
  <2>3. v # <<>>
    <3>1. 1 \in DOMAIN v
      BY <2>1, Shape
    <3>2. DOMAIN <<>> = {}
      OBVIOUS
    <3> QED
      BY <3>1, <3>2
  <2>4. ~TooMuch(value, v)
    BY DEF TooMuch, WellFormed
  <2> QED
    BY <2>2, <2>3, <2>4 DEF Nothing
<1>3. \A i \in DOMAIN value.bits : \A n \in Steps(v[i], value.per) : n \in Int
  <2> SUFFICES ASSUME NEW i \in DOMAIN value.bits, NEW n \in Steps(v[i], value.per) PROVE n \in Int
    OBVIOUS
  <2>1. v[i] \in Int
    OBVIOUS
  <2> QED
    BY <1>1, <2>1 DEF Steps, Pers
<1>4. CASE Len(value.bits) = 1
  <2>1. PICK n \in Steps(v[1], value.per) : q = <<n % 2^value.bits[1]>>
    <3>1. Stored(value, v) = {<<n % 2^value.bits[1]>> : n \in Steps(v[1], value.per)}
      BY <1>2, <1>4 DEF Stored
    <3> QED
      BY <3>1
  <2>2. DOMAIN value.bits = {1} /\ DOMAIN q = {1} /\ q[1] = n % 2^value.bits[1]
    BY <1>1, <1>4, <2>1
  <2>3. n % 2^value.bits[1] \in Int
    <3>1. n \in Int /\ value.bits[1] \in 1..30
      BY <1>3, <2>2, Shape
    <3>2. n % 2^value.bits[1] \in Nat
      BY <3>1, Within, Zenon
    <3> QED
      BY <3>2
  <2>4. q \in [1..1 -> Int]
    <3> DEFINE k == n % 2^value.bits[1]
    <3>1. k \in Int /\ q = <<k>>
      BY <2>1, <2>3
    <3> HIDE DEF k
    <3> QED
      BY <3>1
  <2> QED
    BY <1>1, <1>3, <1>4, <2>2, <2>4
<1>5. CASE Len(value.bits) = 2
  <2>1. PICK n \in Steps(v[1], value.per), k \in Steps(v[2], value.per) :
          q = <<n % 2^value.bits[1], k % 2^value.bits[2]>>
    <3>1. Stored(value, v) = {<<n % 2^value.bits[1], k % 2^value.bits[2]>> :
                                n \in Steps(v[1], value.per), k \in Steps(v[2], value.per)}
      BY <1>2, <1>5 DEF Stored
    <3> QED
      BY <3>1
  <2>2. /\ DOMAIN value.bits = {1, 2} /\ DOMAIN q = {1, 2}
        /\ q[1] = n % 2^value.bits[1] /\ q[2] = k % 2^value.bits[2]
    BY <1>1, <1>5, <2>1
  <2>3. n % 2^value.bits[1] \in Int /\ k % 2^value.bits[2] \in Int
    <3>1. n \in Int /\ k \in Int /\ value.bits[1] \in 1..30 /\ value.bits[2] \in 1..30
      BY <1>3, <2>2, Shape
    <3>2. n % 2^value.bits[1] \in Nat /\ k % 2^value.bits[2] \in Nat
      BY <3>1, Within, Zenon
    <3> QED
      BY <3>2
  <2>4. q \in [1..2 -> Int]
    <3> DEFINE x == n % 2^value.bits[1]
               y == k % 2^value.bits[2]
    <3>1. x \in Int /\ y \in Int /\ q = <<x, y>>
      BY <2>1, <2>3
    <3> HIDE DEF x, y
    <3> QED
      BY <3>1
  <2> QED
    BY <1>1, <1>3, <1>5, <2>2, <2>4
<1> QED
  BY <1>1, <1>4, <1>5

-----------------------------------------------------------------------------
\* The setter of an angle stores what fits its bits.
LEMMA AngleSet ==
  ASSUME NEW value, WellFormed(value), value.kind = "angle",
         NEW v \in [DOMAIN value.bits -> Int] \cup {Nothing}, NEW q \in Stored(value, v)
  PROVE  q \in Readable(value) /\ (v = Nothing => q = value.missing)
<1>1. CASE v = Nothing
  <2>1. q = value.missing
    BY <1>1 DEF Stored
  <2>2. value.missing \in Readable(value)
    BY DEF WellFormed, Initial
  <2> QED
    BY <2>1, <2>2
<1>2. CASE v \in [DOMAIN value.bits -> Int]
  <2>1. /\ q \in [DOMAIN value.bits -> Int]
        /\ \A i \in DOMAIN value.bits :
             \E n \in Steps(v[i], value.per) : n \in Int /\ q[i] = n % 2^value.bits[i]
    BY <1>2, AngleStored
  <2>2. \A i \in DOMAIN value.bits : q[i] \in Nat /\ q[i] < 2^value.bits[i]
    <3> SUFFICES ASSUME NEW i \in DOMAIN value.bits PROVE q[i] \in Nat /\ q[i] < 2^value.bits[i]
      OBVIOUS
    <3>1. PICK n \in Int : q[i] = n % 2^value.bits[i]
      BY <2>1
    <3>2. value.bits[i] \in 1..30 /\ 2^value.bits[i] \in Nat
      BY Shape
    <3>3. n % 2^value.bits[i] \in Nat /\ n % 2^value.bits[i] < 2^value.bits[i]
      BY <3>2, Within, Zenon
    <3> QED
      BY <3>1, <3>3
  <2>3. v # Nothing
    <3>1. 1 \in DOMAIN v /\ DOMAIN Nothing = {}
      BY <1>2, Shape DEF Nothing
    <3> QED
      BY <3>1
  <2>4. q \in [DOMAIN value.bits -> Nat]
    BY <2>1, <2>2
  <2> QED
    BY <2>2, <2>3, <2>4 DEF Readable, Texts
<1> QED
  BY <1>1, <1>2

-----------------------------------------------------------------------------
\* An angle between the poles is not missing.
LEMMA AngleThere ==
  ASSUME NEW value, WellFormed(value), value.kind = "angle", NEW n \in Readable(value),
         \A i \in DOMAIN value.bits : Step(value, n, i) >= -Most(value, i) /\ Step(value, n, i) <= Most(value, i)
  PROVE  ~IsMissing(value, n)
<1> SUFFICES ASSUME NEW i \in DOMAIN value.missing, n[i] = value.missing[i] PROVE FALSE
  BY DEF IsMissing
<1>1. i \in DOMAIN value.bits
  <2>1. 1 \in DOMAIN value.bits
    BY Shape
  <2> QED
    BY <2>1, AngleIs
<1>2. Step(value, n, i) = value.missing[i]
  BY <1>1, AngleIs DEF Step
<1>3. value.missing[i] \in Nat /\ value.missing[i] > Most(value, i) /\ Most(value, i) \in Nat
  BY <1>1, AngleIs
<1> QED
  BY <1>1, <1>2, <1>3

\* A number of steps between the poles is what the bits give back.
LEMMA AngleBack ==
  ASSUME NEW value, WellFormed(value), value.kind = "angle", NEW i \in DOMAIN value.bits,
         NEW s \in Int, s >= -Most(value, i), s <= Most(value, i)
  PROVE  Signed(s % 2^value.bits[i], value.bits[i]) = s
<1>1. /\ value.missing[i] \in Nat /\ value.missing[i] > Most(value, i) /\ Most(value, i) \in Nat
      /\ value.missing[i] < 2^(value.bits[i] - 1)
  BY AngleIs
<1>2. value.bits[i] \in 1..30
  BY Shape
<1>3. \A b \in 1..30 : \A k \in Int : k >= -(2^(b - 1)) /\ k < 2^(b - 1) => Signed(k % 2^b, b) = k
  BY Wrapped
<1>4. 2^(value.bits[i] - 1) \in Nat
  <2>1. \A b \in 1..30 : 2^(b - 1) \in Nat
    BY Powers
  <2> QED
    BY <1>2, <2>1, Zenon
<1>5. s >= -(2^(value.bits[i] - 1)) /\ s < 2^(value.bits[i] - 1)
  BY <1>1, <1>4
<1> QED
  BY <1>2, <1>3, <1>5, Zenon

\* An angle that is set and travels.
LEMMA AngleSent ==
  ASSUME NEW value, WellFormed(value), value.kind = "angle", NEW v \in [DOMAIN value.bits -> Int],
         ~Throws(value, v), NEW q \in Stored(value, v)
  PROVE  /\ q \in Readable(value) /\ ~IsMissing(value, q)
         /\ \A i \in DOMAIN value.bits :
              /\ Step(value, q, i) >= -Most(value, i) /\ Step(value, q, i) <= Most(value, i)
              /\ Step(value, q, i) \in Steps(v[i], value.per)
<1>1. q \in Readable(value)
  BY AngleSet
<1>2. ASSUME NEW i \in DOMAIN value.bits
      PROVE  /\ Step(value, q, i) >= -Most(value, i) /\ Step(value, q, i) <= Most(value, i)
             /\ Step(value, q, i) \in Steps(v[i], value.per)
  <2>1. PICK n \in Steps(v[i], value.per) : n \in Int /\ q[i] = n % 2^value.bits[i]
    BY AngleStored
  <2>2. v[i] \in (-Largest(value, i))..Largest(value, i)
    BY DEF Throws
  <2>3. value.per \in Pers /\ Largest(value, i) \in Poles /\ Most(value, i) = 6 * (Largest(value, i) \div value.per)
    BY AngleIs
  <2>4. n >= -Most(value, i) /\ n <= Most(value, i)
    BY <2>1, <2>2, <2>3, StepsFrom
  <2>5. Signed(n % 2^value.bits[i], value.bits[i]) = n
    BY <2>1, <2>4, AngleBack
  <2>6. Step(value, q, i) = n
    BY <2>1, <2>5 DEF Step
  <2> QED
    BY <2>1, <2>4, <2>6
<1> QED
  BY <1>1, <1>2, AngleThere

\* Zero is set as zero, and read as it.
LEMMA AngleZero ==
  ASSUME NEW per \in Pers
  PROVE  Steps(0, per) = {0} /\ Degrees(0, per) = 0
<1>1. (6 * 0) % per = 0 /\ (6 * 0) \div per = 0 /\ 0 % 1000000 = 0 /\ (per * 0 + 3) \div 6 = 0
  BY DEF Pers
<1> QED
  BY <1>1 DEF Steps, Degrees

\* What an angle loses when it is read and set again is what it may lose in all.
LEMMA AngleHop ==
  ASSUME NEW value, WellFormed(value), value.kind = "angle",
         NEW n0 \in Readable(value), NEW n \in Readable(value), n = n0 \/ KeptAngle(value, n0, n),
         ~Throws(value, Told(value, IsMissing(value, n), n)),
         NEW q \in Stored(value, Told(value, IsMissing(value, n), n))
  PROVE  q \in Readable(value) /\ KeptAngle(value, n0, q)
<1> DEFINE v == Told(value, IsMissing(value, n), n)
<1>1. 1 \in DOMAIN value.bits /\ value.per \in Pers
  BY Shape, AngleIs
<1>2. value.gives \in {Nothing, [i \in DOMAIN value.bits |-> 0]}
  BY DEF WellFormed
<1>3. ASSUME NEW i \in DOMAIN value.bits
      PROVE  Step(value, n, i) \in Int /\ Got(value, i, n[i]) = Degrees(Step(value, n, i), value.per)
  BY AngleReadable DEF Got, Step
<1>4. \A s \in Int : Degrees(s, value.per) \in Int
  BY <1>1 DEF Degrees, Pers
<1>5. v \in [DOMAIN value.bits -> Int] \cup {Nothing}
  BY <1>2, <1>3, <1>4 DEF Told
<1>6. q \in Readable(value)
  BY <1>5, AngleSet
<1>7. CASE IsMissing(value, n)
  <2>1. v = value.gives
    BY <1>7 DEF Told
  <2>2. IsMissing(value, n0)
    <3>1. IsMissing(value, n0) \/ n # n0
      BY <1>7
    <3>2. CASE ~IsMissing(value, n0) /\ KeptAngle(value, n0, n)
      <4>1. \A i \in DOMAIN value.bits : Step(value, n, i) >= -Most(value, i) /\ Step(value, n, i) <= Most(value, i)
        BY <3>2 DEF KeptAngle
      <4> QED
        BY <1>7, <4>1, AngleThere
    <3> QED
      BY <3>1, <3>2
  <2>3. CASE value.gives = Nothing
    <3>1. q = value.missing
      BY <1>5, <2>1, <2>3, AngleSet
    <3>2. IsMissing(value, q)
      BY <1>1, <3>1, AngleIs DEF IsMissing
    <3> QED
      BY <1>6, <2>2, <3>2 DEF KeptAngle
  <2>4. CASE value.gives # Nothing
    <3>1. v = [i \in DOMAIN value.bits |-> 0]
      BY <1>2, <2>1, <2>4
    <3>2. v \in [DOMAIN value.bits -> Int]
      BY <3>1
    <3> HIDE DEF v
    <3>3. \A i \in DOMAIN value.bits : \E k \in Steps(v[i], value.per) : k \in Int /\ q[i] = k % 2^value.bits[i]
      <4>1. q \in Stored(value, v)
        BY DEF v
      <4> QED
        BY <3>2, <4>1, AngleStored
    <3>4. ASSUME NEW i \in DOMAIN value.bits PROVE q[i] = 0
      <4>1. q[i] = 0 % 2^value.bits[i]
        BY <1>1, <3>1, <3>3, AngleZero
      <4>2. value.bits[i] \in 1..30 /\ 0 \in Int
        BY Shape
      <4>4. 0 % 2^value.bits[i] = 0
        BY <4>2, ZeroFits, Zenon
      <4> QED
        BY <4>1, <4>4
    <3> QED
      BY <1>6, <2>2, <2>4, <3>4 DEF KeptAngle
  <2> QED
    BY <2>3, <2>4
<1>8. CASE ~IsMissing(value, n)
  <2>1. v = [i \in DOMAIN value.bits |-> Got(value, i, n[i])]
    BY <1>8 DEF Told
  <2>2. v \in [DOMAIN value.bits -> Int] /\ \A i \in DOMAIN value.bits : v[i] = Degrees(Step(value, n, i), value.per)
    BY <1>3, <1>4, <2>1
  <2>3. ~Throws(value, v) /\ q \in Stored(value, v)
    OBVIOUS
  <2> HIDE DEF v
  <2>4. \A i \in DOMAIN value.bits :
              /\ Step(value, q, i) >= -Most(value, i) /\ Step(value, q, i) <= Most(value, i)
              /\ Step(value, q, i) \in Steps(v[i], value.per)
    BY <2>2, <2>3, AngleSent
  <2>5. CASE ~IsMissing(value, n0)
    <3>1. ASSUME NEW i \in DOMAIN value.bits PROVE Settled(Step(value, n0, i), Step(value, q, i))
      <4>1. Step(value, n0, i) \in Int /\ Step(value, q, i) \in Int /\ Step(value, n, i) \in Int
        BY <1>6, AngleReadable
      <4>2. Degrees(Step(value, n, i), value.per) \in (-Largest(value, i))..Largest(value, i)
        BY <2>2, <2>3 DEF Throws
      <4>3. Step(value, q, i) \in Steps(Degrees(Step(value, n, i), value.per), value.per)
        BY <2>2, <2>4
      <4>4. Largest(value, i) \in Poles
        BY AngleIs
      <4>5. Again(Step(value, n, i), Step(value, q, i))
        BY <1>1, <4>1, <4>2, <4>3, <4>4, StepsAgain
      <4>6. Settled(Step(value, n0, i), Step(value, n, i))
        <5>1. CASE n = n0
          BY <4>1, <5>1 DEF Settled
        <5>2. CASE KeptAngle(value, n0, n)
          BY <2>5, <5>2 DEF KeptAngle
        <5> QED
          BY <5>1, <5>2
      <4> QED
        BY <4>1, <4>5, <4>6, SettledAgain
    <3> QED
      BY <1>6, <2>4, <2>5, <3>1 DEF KeptAngle
  <2>6. CASE IsMissing(value, n0)
    <3>1. value.gives # Nothing /\ \A i \in DOMAIN value.bits : n[i] = 0
      BY <1>8, <2>6 DEF KeptAngle
    <3>2. ASSUME NEW i \in DOMAIN value.bits PROVE q[i] = 0
      <4>1. Step(value, n, i) = 0
        <5>1. value.bits[i] \in 1..30
          BY Shape
        <5>2. Signed(0, value.bits[i]) = 0
          BY <5>1, ZeroFits, Zenon
        <5> QED
          BY <3>1, <5>2 DEF Step
      <4>2. v[i] = 0
        BY <1>1, <2>2, <4>1, AngleZero
      <4>3. PICK k \in Steps(v[i], value.per) : k \in Int /\ q[i] = k % 2^value.bits[i]
        BY <2>2, <2>3, AngleStored
      <4>4. k = 0
        BY <1>1, <4>2, <4>3, AngleZero
      <4>5. value.bits[i] \in 1..30
        BY Shape
      <4>7. 0 % 2^value.bits[i] = 0
        BY <4>5, ZeroFits, Zenon
      <4> QED
        BY <4>3, <4>4, <4>7
    <3> QED
      BY <1>6, <2>6, <3>1, <3>2 DEF KeptAngle
  <2> QED
    BY <2>5, <2>6
<1> QED
  BY <1>7, <1>8

-----------------------------------------------------------------------------
\* What a setter may get, and what it stores.
Acceptable(value) == [DOMAIN value.bits -> IF value.kind \in Texts \cup {"mmsi"} THEN Nat ELSE Int]
Storable(value) ==
  IF value.kind \in Texts \cup {"angle"} THEN Readable(value) ELSE Acceptable(value)

\* What any other value is when it has been read and set once, and stays.
Final(value, n0) ==
  IF value.checked = value.name /\ IsMissing(value, n0) THEN n0
  ELSE IF TooMuch(value, <<n0[1] + value.read>>) THEN value.missing
  ELSE IF HasLimit(value) /\ n0[1] > value.most THEN <<value.most>>
  ELSE n0

\* What n0 may be when it has been sent on.
Kept(value, n0, n) ==
  IF value.kind = "angle" THEN KeptAngle(value, n0, n)
  ELSE IF value.kind = "ceiling" THEN n[1] \in n0[1]..(5 * ((n0[1] + 4) \div 5))
  ELSE n = Final(value, n0)

\* A value which is set and read as the same, by nothing but its own setter.
Direct(value) ==
  /\ value.into = value.name /\ WriterOf[value.name] # 0 /\ Listed[WriterOf[value.name]] = value
  /\ value.kind # "padded" /\ value.read + value.write = 0

\* What the variables are.
VariablesFit ==
  /\ type \in Types /\ relays \in 0..MaxRelays /\ arrived \in BOOLEAN
  /\ DOMAIN raw = Names
  /\ \A x \in Names : raw[x] \in IF arrived THEN Readable(Named[x]) ELSE Storable(Named[x])

\* What has been set could be set.
WantedFit ==
  /\ DOMAIN wanted \subseteq Names
  /\ \A x \in DOMAIN wanted :
       /\ wanted[x] \in Settable(Named[x]) \cup {Nothing}
       /\ wanted[x] = Nothing => ~AlwaysAvailable(Named[x])
       /\ ~SetterThrows(Named[x], wanted[x])

\* Each member of the object has what its setter stored.
AsSet ==
  \A x \in Names :
    /\ (\A y \in DOMAIN wanted : Named[y].into # x) => raw[x] = New[x]
    /\ (x \in DOMAIN wanted /\ \A y \in DOMAIN wanted : Named[y].into = x <=> y = x) =>
         raw[x] \in Stored(Named[x], wanted[x])

\* The first object that was made from bits.
FirstFits ==
  /\ first = <<>> <=> (relays = 0 /\ ~arrived)
  /\ first # <<>> =>
       /\ DOMAIN first = Names
       /\ \A x \in Names :
            /\ first[x] \in Readable(Named[x])
            /\ ~Carried(first, x) => first[x] = New[x]

\* Of what was sent on since only that is lost which may be.
KeptSince ==
  \A value \in Values : Direct(value) =>
    Kept(value, first[value.name],
         IF arrived THEN raw[value.name] ELSE Bits(value, raw[value.name]))

\* Part B of message_24 stays about the same vessel.
SameVessel == type = "message_24_B" /\ relays > 0 => raw["mmsi"] = first["mmsi"]

\* The inductive invariant.
IInv ==
  /\ VariablesFit
  /\ WantedFit
  /\ FirstFits
  /\ relays = 0 /\ ~arrived => AsSet
  /\ relays = 0 /\ arrived => raw = first /\ SentArrives
  /\ relays > 0 => KeptSince
  /\ SameVessel
\* A tuple of one number.
LEMMA OneOf ==
  ASSUME NEW S, NEW m \in S
  PROVE  <<m>> \in [{1} -> S] /\ <<m>>[1] = m /\ DOMAIN <<m>> = {1} /\ <<m>> # <<>>
<1>1. 1..1 = {1}
  OBVIOUS
<1>2. <<m>> \in [1..1 -> S]
  OBVIOUS
<1> QED
  BY <1>1, <1>2

\* ... and what has one number is one.
LEMMA OneIs ==
  ASSUME NEW S, NEW f \in [{1} -> S]
  PROVE  f = <<f[1]>> /\ f # <<>> /\ f[1] \in S
<1>1. 1..1 = {1}
  OBVIOUS
<1>2. <<f[1]>> \in [{1} -> S] /\ <<f[1]>>[1] = f[1]
  BY OneOf
<1>3. f = <<f[1]>>
  BY <1>2
<1>4. 1 \in DOMAIN f /\ DOMAIN <<>> = {}
  OBVIOUS
<1> QED
  BY <1>3, <1>4

\* A value that is not an angle.
LEMMA Single ==
  ASSUME NEW value, WellFormed(value), value.kind # "angle"
  PROVE  /\ DOMAIN value.bits = {1} /\ value.bits[1] \in 1..30 /\ 2^value.bits[1] \in Nat
         /\ value.gives = Nothing
         /\ value.read \in Int /\ value.write \in Int /\ value.valid \in Nat
         /\ value.kind \in {"turn", "unit", "double", "ceiling", "text", "padded", "number", "plain",
                            "choice", "checked", "mmsi"}
         /\ value.kind \notin {"number", "double"} => value.read = 0 /\ value.write = 0 /\ value.valid = NoLimit
BY Shape DEF WellFormed, Reals, Texts

\* The numbers of such a value.
LEMMA SingleReadable ==
  ASSUME NEW value, WellFormed(value), value.kind # "angle", NEW n
  PROVE  n \in Readable(value) <=>
           /\ n \in [{1} -> Nat]
           /\ IF value.kind \in Texts THEN n[1] <= value.bits[1] ELSE n[1] < 2^value.bits[1]
<1>1. DOMAIN value.bits = {1}
  BY Single
<1>2. n \in Readable(value) <=>
        /\ n \in [{1} -> Nat]
        /\ \A i \in DOMAIN n : IF value.kind \in Texts THEN n[i] <= value.bits[i] ELSE n[i] < 2^value.bits[i]
  BY <1>1 DEF Readable
<1> QED
  BY <1>2

\* What its setter may get.
LEMMA SingleAcceptable ==
  ASSUME NEW value, WellFormed(value), value.kind # "angle", NEW n
  PROVE  /\ n \in Acceptable(value) <=>
              n \in [{1} -> IF value.kind \in Texts \cup {"mmsi"} THEN Nat ELSE Int]
         /\ n \in Acceptable(value) => n \in [{1} -> Int] /\ n # Nothing /\ n = <<n[1]>> /\ n[1] \in Int
<1>1. DOMAIN value.bits = {1}
  BY Single
<1>2. n \in Acceptable(value) <=>
              n \in [{1} -> IF value.kind \in Texts \cup {"mmsi"} THEN Nat ELSE Int]
  BY <1>1 DEF Acceptable
<1>3. n \in [{1} -> IF value.kind \in Texts \cup {"mmsi"} THEN Nat ELSE Int] => n \in [{1} -> Int]
  OBVIOUS
<1> QED
  BY <1>2, <1>3, OneIs DEF Nothing

\* What means that it is not available.
LEMMA SingleMissing ==
  ASSUME NEW value, WellFormed(value), value.kind # "angle", value.missing # <<>>
  PROVE  /\ value.missing \in Readable(value) /\ value.missing \in [{1} -> Nat]
         /\ value.kind \in {"number", "double", "unit"}
         /\ HasLimit(value) => value.missing[1] > value.most
         /\ \A n \in [{1} -> Int] : IsMissing(value, n) <=> n = value.missing
<1>1. value.missing \in Readable(value) /\ value.kind \in {"number", "double", "unit"}
  BY DEF WellFormed, Initial
<1>2. value.missing \in [{1} -> Nat]
  BY <1>1, SingleReadable
<1>3. ASSUME NEW n \in [{1} -> Int] PROVE IsMissing(value, n) <=> n = value.missing
  <2>1. IsMissing(value, n) <=> n[1] = value.missing[1]
    BY <1>2 DEF IsMissing
  <2>2. n = <<n[1]>>
    BY OneIs
  <2>3. value.missing = <<value.missing[1]>>
    BY <1>2, OneIs
  <2> QED
    BY <2>1, <2>2, <2>3
<1>4. HasLimit(value) => value.missing[1] > value.most
  BY DEF WellFormed
<1> QED
  BY <1>1, <1>2, <1>3, <1>4

\* What its setter stores.
LEMMA SingleStored ==
  ASSUME NEW value, WellFormed(value), value.kind # "angle", NEW v \in Acceptable(value)
  PROVE  Stored(value, v) =
           IF TooMuch(value, v) THEN {value.missing}
           ELSE {<<Limited(value, n)>> : n \in Converted(value, v[1] + value.write)}
<1>1. v # Nothing
  BY SingleAcceptable
<1> QED
  BY <1>1 DEF Stored

-----------------------------------------------------------------------------
\* The greatest value.
LEMMA LimitIs ==
  ASSUME NEW value, WellFormed(value), value.kind # "angle"
  PROVE  /\ HasLimit(value) => /\ value.most \in Nat /\ value.valid = NoLimit
                               /\ value.read = 0 /\ value.write = 0
                               /\ <<value.most>> \in Readable(value)
         /\ value.kind \in Texts => HasLimit(value) /\ value.most = value.bits[1] /\ value.bits[1] \in 1..30
<1>1. HasLimit(value) => /\ value.most \in Nat /\ value.valid = NoLimit
                               /\ value.read = 0 /\ value.write = 0
                               /\ <<value.most>> \in Readable(value)
  BY DEF WellFormed
<1>2. value.kind \in Texts => HasLimit(value) /\ value.most = value.bits[1] /\ value.bits[1] \in 1..30
  <2>1. value.kind \in Texts => value.most = value.bits[1] /\ value.bits[1] \in 1..30
    BY Single DEF WellFormed
  <2> QED
    BY <2>1 DEF HasLimit, Texts, NoLimit
<1> QED
  BY <1>1, <1>2

\* What a setter makes of a number that is too much.
LEMMA LimitedIs ==
  ASSUME NEW value, WellFormed(value), value.kind # "angle", NEW n \in Int
  PROVE  /\ Limited(value, n) \in Int
         /\ n >= 0 => Limited(value, n) \in Nat
         /\ ~HasLimit(value) => Limited(value, n) = n
         /\ HasLimit(value) => Limited(value, n) \in 0..value.most
         /\ HasLimit(value) /\ n > value.most => Limited(value, n) = value.most
         /\ HasLimit(value) /\ n >= 0 /\ n <= value.most => Limited(value, n) = n
<1>1. HasLimit(value) => value.most \in Nat
  BY LimitIs
<1> QED
  BY <1>1 DEF Limited

\* The numbers of thirty bits are less.
Thirty == 1073741824

\* An identity has thirty bits.
LEMMA IdentityIs ==
  ASSUME NEW value, WellFormed(value), value.kind = "mmsi"
  PROVE  value.bits[1] = 30 /\ 2^value.bits[1] = Thirty
<1>1. value.bits[1] = 30
  BY DEF WellFormed
<1> DEFINE Large(k) == 2^k = Thirty
<1>2. Large(30)
  BY SMT DEF Thirty
<1> HIDE DEF Large
<1>3. Large(value.bits[1])
  BY <1>1, <1>2
<1> QED
  BY <1>1, <1>3 DEF Large

\* What a number becomes.
LEMMA ConvertedIs ==
  ASSUME NEW value, NEW n \in Int
  PROVE  /\ Converted(value, n) # {} /\ Converted(value, n) \subseteq Int
         /\ n >= 0 => Converted(value, n) \subseteq Nat
         /\ value.kind = "ceiling" =>
              Converted(value, n) = {n} \cup (IF n % 5 = 0 THEN {} ELSE {n + 1})
         /\ value.kind # "ceiling" /\ (value.kind = "double" => n >= 0) => Converted(value, n) = {n}
<1>1. CASE value.kind = "ceiling"
  <2>1. Converted(value, n) = {n} \cup (IF n % 5 = 0 THEN {} ELSE {n + 1})
    BY <1>1 DEF Converted
  <2> QED
    BY <1>1, <2>1
<1>2. CASE value.kind # "ceiling" /\ value.kind = "double" /\ n < 0
  <2>1. Converted(value, n) = {n, 0}
    BY <1>2 DEF Converted
  <2> QED
    BY <1>2, <2>1
<1>3. CASE value.kind # "ceiling" /\ ~(value.kind = "double" /\ n < 0)
  <2>1. Converted(value, n) = {n}
    BY <1>3 DEF Converted
  <2> QED
    BY <1>3, <2>1
<1> QED
  BY <1>1, <1>2, <1>3

\* What a member may hold before it travels: every number a setter stores.
LEMMA StoredStorable ==
  ASSUME NEW value, WellFormed(value), NEW v \in Acceptable(value) \cup {Nothing},
         v = Nothing => value.missing # <<>>
  PROVE  Stored(value, v) # {} /\ Stored(value, v) \subseteq Storable(value)
<1>1. CASE value.kind = "angle"
  <2>1. v \in [DOMAIN value.bits -> Int] \cup {Nothing}
    BY <1>1 DEF Acceptable, Texts
  <2>2. Stored(value, v) \subseteq Storable(value)
    BY <1>1, <2>1, AngleSet DEF Storable
  <2>3. Stored(value, v) # {}
    <3>1. CASE v = Nothing
      BY <3>1 DEF Stored
    <3>2. CASE v # Nothing
      <4>1. value.bits \in Seq(1..30) /\ Len(v) = Len(value.bits) /\ Len(value.bits) \in 1..2
        <5>1. DOMAIN v = 1..Len(value.bits) /\ v \in [1..Len(value.bits) -> Int] /\ Len(value.bits) \in Nat
          BY <2>1, <3>2, Shape
        <5>2. v \in Seq(Int)
          BY <5>1, SeqDef
        <5>3. DOMAIN v = 1..Len(v) /\ Len(v) \in Nat
          BY <5>2, LenProperties
        <5> QED
          BY <5>1, <5>3, Shape DEF WellFormed
      <4>2. \A x : Steps(x, value.per) # {}
        BY DEF Steps
      <4>3. ~TooMuch(value, v)
        BY <1>1 DEF TooMuch, WellFormed
      <4>4. CASE Len(v) = 1
        <5>1. Stored(value, v) = {<<n % 2^value.bits[1]>> : n \in Steps(v[1], value.per)}
          BY <1>1, <3>2, <4>3, <4>4 DEF Stored
        <5> QED
          BY <4>2, <5>1
      <4>5. CASE Len(v) = 2
        <5>1. Stored(value, v) = {<<n % 2^value.bits[1], k % 2^value.bits[2]>> :
                                    n \in Steps(v[1], value.per), k \in Steps(v[2], value.per)}
          BY <1>1, <3>2, <4>3, <4>5 DEF Stored
        <5>2. PICK n \in Steps(v[1], value.per), k \in Steps(v[2], value.per) : TRUE
          BY <4>2
        <5>3. <<n % 2^value.bits[1], k % 2^value.bits[2]>> \in Stored(value, v)
          BY <5>1, <5>2
        <5> QED
          BY <5>3
      <4> QED
        BY <4>1, <4>4, <4>5
    <3> QED
      BY <3>1, <3>2
  <2> QED
    BY <2>2, <2>3
<1>2. CASE value.kind # "angle"
  <2>1. value.missing # <<>> => value.missing \in Storable(value)
    <3>1. value.missing # <<>> => value.missing \in [{1} -> Int] /\ value.kind \in {"number", "double", "unit"}
      BY <1>2, SingleMissing
    <3> QED
      BY <1>2, <3>1, SingleAcceptable DEF Storable, Texts
  <2>2. CASE v = Nothing
    BY <2>1, <2>2 DEF Stored
  <2>3. CASE v # Nothing
    <3>1. v \in Acceptable(value)
      BY <2>3
    <3>2. CASE TooMuch(value, v)
      <4>1. value.missing # <<>>
        BY <3>2 DEF TooMuch, WellFormed
      <4> QED
        BY <1>2, <2>1, <3>1, <3>2, <4>1, SingleStored
    <3>3. CASE ~TooMuch(value, v)
      <4> DEFINE w == v[1] + value.write
      <4>1. Stored(value, v) = {<<Limited(value, n)>> : n \in Converted(value, w)}
        BY <1>2, <3>1, <3>3, SingleStored
      <4>2. w \in Int
        BY <1>2, <3>1, Single, SingleAcceptable
      <4>3. value.kind \in Texts \cup {"mmsi"} => w >= 0
        <5>1. value.kind \in Texts \cup {"mmsi"} => v[1] \in Nat /\ value.write = 0
          BY <1>2, <3>1, Single, SingleAcceptable DEF Texts
        <5> QED
          BY <5>1
      <4> HIDE DEF w
      <4>4. Converted(value, w) # {}
        BY <4>2, ConvertedIs
      <4>5. ASSUME NEW n \in Converted(value, w) PROVE <<Limited(value, n)>> \in Storable(value)
        <5>1. n \in Int /\ (value.kind \in Texts \cup {"mmsi"} => n \in Nat)
          BY <4>2, <4>3, ConvertedIs
        <5>2. Limited(value, n) \in Int /\ (value.kind \in Texts \cup {"mmsi"} => Limited(value, n) \in Nat)
          BY <1>2, <5>1, LimitedIs
        <5>3. CASE value.kind \in Texts
          <6>1. Limited(value, n) <= value.bits[1] /\ Limited(value, n) \in Nat
            <7>1. HasLimit(value) /\ value.most = value.bits[1]
              BY <1>2, <5>3, LimitIs
            <7>2. value.bits[1] \in 1..30
              BY <1>2, Single
            <7>3. Limited(value, n) \in 0..value.most
              BY <1>2, <5>1, <7>1, LimitedIs
            <7> QED
              BY <7>1, <7>2, <7>3
          <6> DEFINE m == Limited(value, n)
          <6>2. <<m>> \in [{1} -> Nat] /\ <<m>>[1] = m
            BY <6>1, OneOf
          <6> QED
            BY <1>2, <5>3, <6>1, <6>2, SingleReadable DEF Storable
        <5>4. CASE value.kind \notin Texts
          <6> DEFINE m == Limited(value, n)
                     S == IF value.kind \in Texts \cup {"mmsi"} THEN Nat ELSE Int
          <6>1. m \in S
            BY <5>2
          <6> HIDE DEF m, S
          <6>2. <<m>> \in [{1} -> S]
            BY <6>1, OneOf
          <6> QED
            BY <1>2, <5>4, <6>2, SingleAcceptable DEF Storable, m, S
        <5> QED
          BY <5>3, <5>4
      <4> QED
        BY <4>1, <4>4, <4>5
    <3> QED
      BY <3>2, <3>3
  <2> QED
    BY <2>2, <2>3
<1> QED
  BY <1>1, <1>2

-----------------------------------------------------------------------------
\* A setter that assigns another value stores what fits that one.
LEMMA IntoStorable ==
  ASSUME type \in Types, NEW value \in Values, value.into # NoSetter
  PROVE  value.into \in Names /\ Storable(value) \subseteq Storable(Named[value.into])
<1>1. WellFormed(value) /\ value.name \in Names /\ Named[value.name] = value
  BY OfValues
<1>2. CASE value.into = value.name
  BY <1>1, <1>2
<1>3. CASE value.into # value.name
  <2>1. PICK other \in Values : /\ value.into = other.name /\ value.kind = other.kind
                                /\ value.kind \in {"text", "mmsi"} /\ value.bits[1] <= other.bits[1]
    BY <1>3, Table DEF Consistent, Values
  <2>2. WellFormed(other) /\ other.name \in Names /\ Named[other.name] = other
    BY OfValues
  <2>3. value.kind # "angle" /\ other.kind # "angle"
    BY <2>1
  <2>4. value.bits[1] \in 1..30 /\ other.bits[1] \in 1..30
    BY <1>1, <2>2, <2>3, Single
  <2>5. CASE value.kind = "text"
    <3>1. Storable(value) = Readable(value) /\ Storable(other) = Readable(other)
      BY <2>1, <2>5 DEF Storable, Texts
    <3>2. value.kind \in Texts /\ other.kind \in Texts
      BY <2>1, <2>5 DEF Texts
    <3>3. ASSUME NEW n \in Readable(value) PROVE n \in Readable(other)
      <4>1. n \in [{1} -> Nat] /\ n[1] <= value.bits[1]
        BY <1>1, <2>3, <3>2, SingleReadable
      <4>2. n[1] <= other.bits[1]
        BY <2>1, <2>4, <4>1
      <4> QED
        BY <2>2, <2>3, <3>2, <4>1, <4>2, SingleReadable
    <3> QED
      BY <2>1, <2>2, <3>1, <3>3
  <2>6. CASE value.kind = "mmsi"
    <3>1. Storable(value) = Acceptable(value) /\ Storable(other) = Acceptable(other)
      BY <2>1, <2>6 DEF Storable, Texts
    <3>2. Acceptable(value) = [{1} -> Nat] /\ Acceptable(other) = [{1} -> Nat]
      BY <1>1, <2>1, <2>2, <2>3, <2>6, Single DEF Acceptable
    <3> QED
      BY <2>1, <2>2, <3>1, <3>2
  <2> QED
    BY <2>1, <2>5, <2>6
<1> QED
  BY <1>2, <1>3

\* What arrives fits its bits, and what fits them arrives.
LEMMA BitsReadable ==
  ASSUME NEW value, WellFormed(value), NEW q \in Storable(value)
  PROVE  /\ Bits(value, q) \in Readable(value)
         /\ value.kind # "padded" /\ q \in Readable(value) => Bits(value, q) = q
<1>1. Bits(value, q) = [i \in DOMAIN q |-> OnTheWay(value, i, q[i])]
  BY DEF Bits
<1>2. CASE value.kind = "text"
  <2>1. q \in Readable(value) /\ \A i, n : OnTheWay(value, i, n) = n
    BY <1>2 DEF Storable, Texts, OnTheWay
  <2>2. q = [i \in DOMAIN q |-> q[i]]
    BY <2>1 DEF Readable
  <2>3. Bits(value, q) = q
    BY <1>1, <2>1, <2>2
  <2> QED
    BY <2>1, <2>3
<1>3. CASE value.kind = "padded"
  <2>1. q \in Readable(value) /\ \A i, n : OnTheWay(value, i, n) = value.bits[i]
    BY <1>3 DEF Storable, Texts, OnTheWay
  <2>2. DOMAIN q = {1} /\ value.bits[1] \in 1..30
    BY <1>3, <2>1, SingleReadable, Single
  <2>3. Bits(value, q) = [i \in {1} |-> value.bits[i]]
    BY <1>1, <2>1, <2>2
  <2>4. Bits(value, q) \in [{1} -> Nat] /\ Bits(value, q)[1] = value.bits[1]
    BY <2>2, <2>3
  <2> QED
    BY <1>3, <2>2, <2>4, SingleReadable DEF Texts
<1>4. CASE value.kind \notin Texts
  <2>1. \A i, n : OnTheWay(value, i, n) = n % 2^value.bits[i]
    BY <1>4 DEF Texts, OnTheWay
  <2>2. q \in [DOMAIN value.bits -> Int]
    <3>1. q \in Readable(value) => q \in [DOMAIN value.bits -> Int]
      BY DEF Readable
    <3>2. q \in Acceptable(value) => q \in [DOMAIN value.bits -> Int]
      BY DEF Acceptable
    <3> QED
      BY <3>1, <3>2 DEF Storable
  <2>3. ASSUME NEW i \in DOMAIN value.bits
        PROVE  /\ OnTheWay(value, i, q[i]) \in Nat /\ OnTheWay(value, i, q[i]) < 2^value.bits[i]
               /\ q \in Readable(value) => OnTheWay(value, i, q[i]) = q[i]
    <3>1. value.bits[i] \in 1..30 /\ q[i] \in Int
      BY <2>2, Shape
    <3>2. q[i] % 2^value.bits[i] \in Nat /\ q[i] % 2^value.bits[i] < 2^value.bits[i]
      BY <3>1, Within, Zenon
    <3>3. q[i] \in Nat /\ q[i] < 2^value.bits[i] => q[i] % 2^value.bits[i] = q[i]
      BY <3>1, Within, Zenon
    <3>4. q \in Readable(value) => q[i] \in Nat /\ q[i] < 2^value.bits[i]
      BY <1>4 DEF Readable
    <3> QED
      BY <2>1, <3>2, <3>3, <3>4
  <2>4. Bits(value, q) = [i \in DOMAIN value.bits |-> OnTheWay(value, i, q[i])]
    BY <1>1, <2>2
  <2>5. Bits(value, q) \in Readable(value)
    BY <1>4, <2>3, <2>4 DEF Readable
  <2>6. q \in Readable(value) => Bits(value, q) = q
    BY <2>2, <2>3, <2>4
  <2> QED
    BY <2>5, <2>6
<1> QED
  BY <1>2, <1>3, <1>4 DEF Texts

\* What is read fits its bits.
LEMMA ReadableStorable ==
  ASSUME NEW value, WellFormed(value)
  PROVE  Readable(value) \subseteq Storable(value) /\ Readable(value) \subseteq Acceptable(value)
<1>1. Readable(value) \subseteq [DOMAIN value.bits -> Nat]
  BY DEF Readable
<1>2. [DOMAIN value.bits -> Nat] \subseteq Acceptable(value)
  BY DEF Acceptable
<1> QED
  BY <1>1, <1>2 DEF Storable

\* A setter accepts what the getter returns.
LEMMA ToldAcceptable ==
  ASSUME NEW value, WellFormed(value), NEW c \in BOOLEAN, c => value.missing # <<>>,
         NEW n \in Readable(value)
  PROVE  /\ Told(value, c, n) \in Acceptable(value) \cup {Nothing}
         /\ Told(value, c, n) = Nothing => value.missing # <<>>
<1>1. n \in [DOMAIN value.bits -> Nat]
  BY DEF Readable
<1>2. ASSUME NEW i \in DOMAIN value.bits
      PROVE  /\ Got(value, i, n[i]) \in Int
             /\ value.kind \in Texts \cup {"mmsi"} => Got(value, i, n[i]) \in Nat
  <2>1. CASE value.kind = "angle"
    <3>1. Got(value, i, n[i]) = Degrees(Step(value, n, i), value.per) /\ Step(value, n, i) \in Int
      BY <2>1, AngleReadable DEF Got, Step
    <3>2. value.per \in Pers
      BY <2>1, AngleIs
    <3>3. \A s \in Int : Degrees(s, value.per) \in Int
      BY <3>2 DEF Degrees, Pers
    <3> QED
      BY <2>1, <3>1, <3>3 DEF Texts
  <2>2. CASE value.kind = "turn"
    <3>1. i = 1 /\ n[1] \in Nat /\ n[1] < 2^value.bits[1]
      BY <1>1, <2>2, Single, SingleReadable DEF Texts
    <3>2. value.bits[1] = 8
      BY <2>2 DEF WellFormed
    <3>3. Got(value, i, n[i]) = IF n[1] >= 2^(8 - 1) THEN n[1] - 2^8 ELSE n[1]
      BY <2>2, <3>1, <3>2 DEF Got, Signed
    <3> QED
      BY <2>2, <3>1, <3>3 DEF Texts
  <2>3. CASE value.kind \notin {"angle", "turn"}
    <3>1. Got(value, i, n[i]) = n[i] + value.read /\ n[i] \in Nat /\ value.read \in Int
      BY <1>1, <2>3, Single DEF Got
    <3>2. value.kind \in Texts \cup {"mmsi"} => value.read = 0
      BY <2>3, Single DEF Texts
    <3> QED
      BY <3>1, <3>2
  <2> QED
    BY <2>1, <2>2, <2>3
<1>3. CASE c
  <2>1. Told(value, c, n) = value.gives
    BY <1>3 DEF Told
  <2>2. value.gives \in {Nothing, [i \in DOMAIN value.bits |-> 0]}
    BY DEF WellFormed
  <2>3. [i \in DOMAIN value.bits |-> 0] \in Acceptable(value)
    BY DEF Acceptable
  <2> QED
    BY <1>3, <2>1, <2>2, <2>3
<1>4. CASE ~c
  <2> DEFINE v == [i \in DOMAIN value.bits |-> Got(value, i, n[i])]
  <2>1. Told(value, c, n) = v
    BY <1>4 DEF Told
  <2>2. v \in Acceptable(value)
    BY <1>2 DEF Acceptable
  <2>3. 1 \in DOMAIN v /\ DOMAIN Nothing = {}
    BY Shape DEF Nothing
  <2> QED
    BY <2>1, <2>2, <2>3
<1> QED
  BY <1>3, <1>4

-----------------------------------------------------------------------------
\* What a getter returns of one number.
LEMMA SingleTold ==
  ASSUME NEW value, WellFormed(value), value.kind # "angle", NEW n \in Readable(value)
  PROVE  /\ Told(value, TRUE, n) = Nothing
         /\ Told(value, FALSE, n) \in [{1} -> Int] /\ Told(value, FALSE, n)[1] = Got(value, 1, n[1])
         /\ Told(value, FALSE, n) # Nothing
         /\ value.kind # "turn" => Got(value, 1, n[1]) = n[1] + value.read
         /\ n[1] \in Nat /\ n = <<n[1]>> /\ n \in [{1} -> Nat]
         /\ Got(value, 1, n[1]) \in Int
<1>1. DOMAIN value.bits = {1} /\ value.gives = Nothing /\ value.read \in Int
  BY Single
<1>2. n \in [{1} -> Nat]
  BY SingleReadable
<1>3. n[1] \in Nat /\ n = <<n[1]>>
  BY <1>2, OneIs
<1>4. value.kind # "turn" => Got(value, 1, n[1]) = n[1] + value.read
  BY DEF Got
<1>5. Told(value, FALSE, n) = [i \in {1} |-> Got(value, i, n[i])]
  BY <1>1 DEF Told
<1>6. [i \in {1} |-> Got(value, i, n[i])] = [i \in {1} |-> Got(value, 1, n[1])]
  OBVIOUS
<1>7. [i \in {1} |-> Got(value, 1, n[1])] # Nothing
  <2>1. 1 \in DOMAIN [i \in {1} |-> Got(value, 1, n[1])] /\ DOMAIN Nothing = {}
    BY DEF Nothing
  <2> QED
    BY <2>1
<1>8. Told(value, TRUE, n) = Nothing
  BY <1>1 DEF Told
<1>9. Got(value, 1, n[1]) \in Int
  <2>1. CASE value.kind = "turn"
    <3>1. value.bits[1] = 8
      BY <2>1 DEF WellFormed
    <3>2. Got(value, 1, n[1]) = IF n[1] >= 2^(8 - 1) THEN n[1] - 2^8 ELSE n[1]
      BY <2>1, <3>1 DEF Got, Signed
    <3> QED
      BY <1>3, <3>2
  <2> QED
    BY <1>1, <1>3, <1>4, <2>1
<1>10. Told(value, FALSE, n) \in [{1} -> Int] /\ Told(value, FALSE, n)[1] = Got(value, 1, n[1])
  BY <1>5, <1>6, <1>9, ZenonT(60)
<1> QED
  BY <1>2, <1>3, <1>4, <1>5, <1>6, <1>7, <1>8, <1>9, <1>10

\* A rate of turn comes back.
LEMMA TurnBack ==
  ASSUME NEW value, WellFormed(value), value.kind = "turn", NEW s \in Int, s >= -128, s < 128
  PROVE  /\ Bits(value, <<s>>) = <<s % 256>> /\ <<s % 256>> \in Readable(value)
         /\ Got(value, 1, s % 256) = s
<1>1. value.bits[1] = 8 /\ 8 \in DOMAIN <<1, 1, 1, 1, 1, 1, 1, 1>>
  BY DEF WellFormed
<1>2. \A n : Got(value, 1, n) = IF n >= 128 THEN n - 256 ELSE n
  BY <1>1 DEF Got, Signed
<1>3. \A i, n : OnTheWay(value, i, n) = n % 2^value.bits[i]
  BY DEF OnTheWay
<1>4. Bits(value, <<s>>) = <<s % 256>>
  <2>1. Bits(value, <<s>>) = [i \in {1} |-> OnTheWay(value, i, <<s>>[i])]
    BY OneOf DEF Bits
  <2>2. OnTheWay(value, 1, <<s>>[1]) = s % 2^8
    BY <1>1, <1>3
  <2>3. Bits(value, <<s>>) = [i \in {1} |-> s % 256]
    BY <2>1, <2>2
  <2> DEFINE m == s % 256
  <2>4. Bits(value, <<s>>) = [i \in {1} |-> m]
    BY <2>3
  <2>5. m \in Int
    OBVIOUS
  <2> HIDE DEF m
  <2>6. [i \in {1} |-> m] = <<m>>
    BY <2>5, OneIs
  <2> QED
    BY <2>4, <2>6 DEF m
<1>5. <<s % 256>> \in Readable(value)
  <2> DEFINE m == s % 256
  <2>1. m \in Nat /\ m < 256
    OBVIOUS
  <2>2. 2^value.bits[1] = 256
    BY <1>1
  <2> HIDE DEF m
  <2>3. <<m>> \in [{1} -> Nat] /\ <<m>>[1] = m
    BY <2>1, OneOf
  <2>4. <<m>> \in Readable(value)
    BY <2>1, <2>2, <2>3, SingleReadable DEF Texts
  <2> QED
    BY <2>4 DEF m
<1>6. Got(value, 1, s % 256) = s
  BY <1>2
<1> QED
  BY <1>4, <1>5, <1>6

\* Every value which is not an angle and not rounded: set as it was read.
LEMMA SetAgain ==
  ASSUME NEW value, WellFormed(value), value.kind \notin {"angle", "ceiling", "padded"},
         value.read + value.write = 0, value.checked # value.name => value.kind = "unit",
         NEW n \in Readable(value),
         NEW q \in Stored(value, Told(value, value.checked = value.name /\ IsMissing(value, n), n))
  PROVE  Bits(value, q) = Final(value, n) /\ Final(value, n) \in Readable(value)
<1> DEFINE c == value.checked = value.name /\ IsMissing(value, n)
           v == Told(value, c, n)
<1>1. value.kind # "angle"
  OBVIOUS
<1>2. \A m \in Readable(value) : Bits(value, m) = m
  BY BitsReadable, ReadableStorable
<1>3. CASE c
  <2>1. v = Nothing
    <3>1. v = Told(value, TRUE, n)
      BY <1>3 DEF Told
    <3> QED
      BY <1>1, <3>1, SingleTold
  <2>2. q = value.missing
    BY <2>1 DEF Stored
  <2>3. value.missing # <<>>
    BY <1>3 DEF IsMissing
  <2>4. n = value.missing
    <3>1. n \in [{1} -> Nat]
      BY <1>1, SingleReadable
    <3>2. n \in [{1} -> Int]
      BY <3>1
    <3> QED
      BY <1>1, <1>3, <2>3, <3>2, SingleMissing
  <2>5. Final(value, n) = n
    BY <1>3 DEF Final
  <2> QED
    BY <1>2, <2>2, <2>4, <2>5
<1>4. CASE ~c
  <2> DEFINE g == Got(value, 1, n[1])
  <2>1. v \in [{1} -> Int] /\ v[1] = g /\ v # Nothing /\ g \in Int /\ n[1] \in Nat /\ n = <<n[1]>>
        /\ n \in [{1} -> Nat]
    <3>1. v = Told(value, FALSE, n)
      BY <1>4 DEF Told
    <3>2. v \in [{1} -> Int] /\ v[1] = g /\ v # Nothing
      <4>1. /\ Told(value, FALSE, n) \in [{1} -> Int] /\ Told(value, FALSE, n)[1] = g
            /\ Told(value, FALSE, n) # Nothing
        BY <1>1, SingleTold
      <4> HIDE DEF v, g
      <4> QED
        BY <3>1, <4>1
    <3>3. g \in Int /\ n[1] \in Nat /\ n = <<n[1]>> /\ n \in [{1} -> Nat]
      BY <1>1, SingleTold
    <3> HIDE DEF v, g
    <3> QED
      BY <3>2, <3>3
  <2>2. v \in Acceptable(value)
    <3>1. v = Told(value, FALSE, n)
      BY <1>4 DEF Told
    <3>2. Told(value, FALSE, n) \in Acceptable(value) \cup {Nothing}
      BY ToldAcceptable
    <3> QED
      BY <2>1, <3>1, <3>2
  <2>3. TooMuch(value, v) <=> TooMuch(value, <<g>>)
    BY <2>1 DEF TooMuch
  <2>4. q \in IF TooMuch(value, v) THEN {value.missing}
           ELSE {<<Limited(value, m)>> : m \in Converted(value, v[1] + value.write)}
    BY <1>1, <2>2, SingleStored
  <2>5. Final(value, n) = IF TooMuch(value, <<n[1] + value.read>>) THEN value.missing
                          ELSE IF HasLimit(value) /\ n[1] > value.most THEN <<value.most>> ELSE n
    BY <1>4 DEF Final
  <2>6. CASE value.kind = "turn"
    <3>1. ~HasLimit(value) /\ value.valid = NoLimit /\ value.read = 0 /\ value.write = 0 /\ value.bits[1] = 8
      BY <2>6, Single DEF HasLimit, WellFormed
    <3>2. ~TooMuch(value, v) /\ Final(value, n) = n
      BY <2>5, <3>1 DEF TooMuch
    <3>3. n[1] < 256
      <4>1. n[1] < 2^value.bits[1]
        BY <1>1, <2>6, SingleReadable DEF Texts
      <4> QED
        BY <3>1, <4>1
    <3>4. g = IF n[1] >= 128 THEN n[1] - 256 ELSE n[1]
      BY <2>6, <3>1 DEF Got, Signed
    <3>5. g >= -128 /\ g < 128 /\ g % 256 = n[1]
      BY <2>1, <3>3, <3>4
    <3> HIDE DEF g, v
    <3>6. q = <<g>>
      <4>1. v[1] + value.write = g
        BY <2>1, <3>1
      <4>2. Converted(value, g) = {g}
        BY <2>1, <2>6, ConvertedIs
      <4>3. Limited(value, g) = g
        BY <1>1, <2>1, <3>1, LimitedIs
      <4> QED
        BY <2>4, <3>2, <4>1, <4>2, <4>3
    <3>7. Bits(value, <<g>>) = <<g % 256>>
      BY <2>1, <2>6, <3>5, TurnBack
    <3> QED
      BY <2>1, <3>2, <3>5, <3>6, <3>7
  <2>7. CASE value.kind # "turn"
    <3>1. g = n[1] + value.read
      BY <1>1, <2>7, SingleTold
    <3>2. CASE TooMuch(value, v)
      <4>1. value.missing # <<>>
        BY <3>2 DEF TooMuch, WellFormed
      <4>2. value.missing \in Readable(value)
        BY <1>1, <4>1, SingleMissing
      <4>3. Final(value, n) = value.missing
        BY <2>3, <2>5, <3>1, <3>2
      <4> QED
        BY <1>2, <2>4, <3>2, <4>2, <4>3
    <3>3. CASE ~TooMuch(value, v)
      <4>1. v[1] + value.write = n[1]
        BY <2>1, <3>1, Single
      <4>2. Converted(value, n[1]) = {n[1]}
        BY <2>1, ConvertedIs
      <4>3. q = <<Limited(value, n[1])>>
        BY <2>4, <3>3, <4>1, <4>2
      <4>4. Final(value, n) = IF HasLimit(value) /\ n[1] > value.most THEN <<value.most>> ELSE n
        BY <2>3, <2>5, <3>1, <3>3
      <4>5. HasLimit(value) => value.most \in Nat /\ <<value.most>> \in Readable(value)
        BY <1>1, LimitIs
      <4>6. Limited(value, n[1]) = IF HasLimit(value) /\ n[1] > value.most THEN value.most ELSE n[1]
        BY <1>1, <2>1, <4>5, LimitedIs
      <4>7. q = Final(value, n) /\ Final(value, n) \in Readable(value)
        BY <2>1, <4>3, <4>4, <4>5, <4>6
      <4> QED
        BY <1>2, <4>7
    <3> QED
      BY <3>2, <3>3
  <2> QED
    BY <2>6, <2>7
<1> QED
  BY <1>3, <1>4

-----------------------------------------------------------------------------
\* It stays what it has become.
LEMMA FinalAgain ==
  ASSUME NEW value, WellFormed(value), value.kind \notin {"angle", "ceiling", "padded"},
         value.checked # value.name => value.kind = "unit", NEW n \in Readable(value)
  PROVE  Final(value, Final(value, n)) = Final(value, n)
<1> DEFINE f == Final(value, n)
<1>1. value.kind # "angle" /\ n \in [{1} -> Nat]
  BY SingleReadable
<1>2. CASE f = n
  BY <1>2
<1>3. CASE f = value.missing /\ TooMuch(value, <<n[1] + value.read>>)
  <2>1. value.missing # <<>> /\ value.valid # NoLimit
    BY <1>3 DEF TooMuch, WellFormed
  <2>2. value.checked = value.name
    BY <1>1, <2>1, Single
  <2>3. value.missing \in [{1} -> Nat]
    BY <1>1, <2>1, SingleMissing
  <2>4. IsMissing(value, value.missing)
    BY <2>1, <2>3 DEF IsMissing
  <2> QED
    BY <1>3, <2>2, <2>4 DEF Final
<1>4. CASE f = <<value.most>> /\ HasLimit(value)
  <2>1. value.most \in Nat /\ value.valid = NoLimit /\ <<value.most>>[1] = value.most
    BY <1>1, <1>4, LimitIs
  <2>2. ~IsMissing(value, <<value.most>>)
    <3>1. CASE value.missing = <<>>
      BY <3>1 DEF IsMissing
    <3>2. CASE value.missing # <<>>
      <4>1. /\ value.missing \in [{1} -> Nat] /\ value.missing[1] > value.most
            /\ <<value.most>> \in [{1} -> Int]
            /\ \A m \in [{1} -> Int] : IsMissing(value, m) <=> m = value.missing
        BY <1>1, <1>4, <2>1, <3>2, SingleMissing, OneOf
      <4>2. <<value.most>> # value.missing
        BY <2>1, <4>1
      <4> QED
        BY <4>1, <4>2
    <3> QED
      BY <3>1, <3>2
  <2>3. ~TooMuch(value, <<value.most + value.read>>) /\ ~(value.most > value.most)
    BY <2>1 DEF TooMuch
  <2> QED
    BY <1>4, <2>1, <2>2, <2>3 DEF Final
<1> QED
  BY <1>2, <1>3, <1>4 DEF Final

\* The numbers of eight bits.
LEMMA EightBits ==
  ASSUME NEW value, WellFormed(value), value.kind \in {"turn", "ceiling"}
  PROVE  \A n : n \in Readable(value) <=> n \in [{1} -> Nat] /\ n[1] < 256
<1> SUFFICES ASSUME NEW n PROVE n \in Readable(value) <=> n \in [{1} -> Nat] /\ n[1] < 256
  OBVIOUS
<1>1. value.bits[1] = 8
  BY DEF WellFormed
<1>2. n \in Readable(value) <=> n \in [{1} -> Nat] /\ n[1] < 2^value.bits[1]
  BY SingleReadable DEF Texts
<1>3. n[1] < 2^value.bits[1] <=> n[1] < 256
  BY <1>1
<1> QED
  BY <1>2, <1>3

\* A draught grows to the next half meter at most.
LEMMA CeilingHop ==
  ASSUME NEW value, WellFormed(value), value.kind = "ceiling",
         NEW n0 \in Readable(value), NEW n \in Readable(value), n = n0 \/ Kept(value, n0, n),
         NEW q \in Stored(value, Told(value, FALSE, n))
  PROVE  Bits(value, q) \in Readable(value) /\ Kept(value, n0, Bits(value, q))
<1>1. value.kind # "angle" /\ value.kind # "turn" /\ value.kind \notin Texts
  BY DEF Texts
<1>2. /\ value.valid = NoLimit /\ ~HasLimit(value) /\ value.read = 0 /\ value.write = 0
  <2>1. value.valid = NoLimit /\ value.read = 0 /\ value.write = 0
    BY <1>1, Single
  <2>2. ~HasLimit(value)
    BY DEF HasLimit, WellFormed
  <2> QED
    BY <2>1, <2>2
<1>3. n0 \in [{1} -> Nat] /\ n \in [{1} -> Nat] /\ n0[1] < 256 /\ n[1] < 256 /\ n0[1] \in Nat /\ n[1] \in Nat
  <2>1. \A m : m \in Readable(value) <=> m \in [{1} -> Nat] /\ m[1] < 256
    BY EightBits
  <2> QED
    BY <2>1
<1>4. n[1] \in n0[1]..(5 * ((n0[1] + 4) \div 5))
  <2>1. CASE n = n0
    BY <1>3, <2>1
  <2>2. CASE Kept(value, n0, n)
    BY <2>2 DEF Kept
  <2> QED
    BY <2>1, <2>2
<1> DEFINE v == Told(value, FALSE, n)
<1>5. v[1] = n[1] /\ v \in Acceptable(value)
  <2>1. v[1] = n[1] + value.read /\ v # Nothing
    BY <1>1, SingleTold
  <2>2. v \in Acceptable(value) \cup {Nothing}
    BY ToldAcceptable
  <2> HIDE DEF v
  <2> QED
    BY <1>2, <1>3, <2>1, <2>2
<1>6. q \in Stored(value, v)
  OBVIOUS
<1> HIDE DEF v
<1>7. PICK m \in Converted(value, n[1]) : q = <<Limited(value, m)>>
  <2>1. ~TooMuch(value, v) /\ v[1] + value.write = n[1]
    BY <1>2, <1>3, <1>5 DEF TooMuch
  <2> QED
    BY <1>1, <1>5, <1>6, <2>1, SingleStored
<1>8. m \in Nat /\ m \in n0[1]..(5 * ((n0[1] + 4) \div 5)) /\ m < 256
  <2>1. m = n[1] \/ (n[1] % 5 # 0 /\ m = n[1] + 1)
    BY <1>3, <1>7, ConvertedIs
  <2> QED
    BY <1>3, <1>4, <2>1
<1>9. q = <<m>>
  BY <1>1, <1>2, <1>7, <1>8, LimitedIs
<1>10. q \in Readable(value) /\ q[1] = m
  <2>1. <<m>> \in [{1} -> Nat] /\ <<m>>[1] = m
    BY <1>8, OneOf
  <2> QED
    BY <1>8, <1>9, <2>1, EightBits
<1>11. Bits(value, q) = q
  BY <1>10, BitsReadable, ReadableStorable
<1> QED
  BY <1>8, <1>10, <1>11 DEF Kept

\* A value which is read, set and sent on is kept.
LEMMA Hop ==
  ASSUME NEW value, WellFormed(value), value.kind # "padded", value.read + value.write = 0,
         value.checked # value.name => value.kind = "unit",
         NEW n0 \in Readable(value), NEW n \in Readable(value), n = n0 \/ Kept(value, n0, n),
         ~Throws(value, Told(value, value.checked = value.name /\ IsMissing(value, n), n)),
         NEW q \in Stored(value, Told(value, value.checked = value.name /\ IsMissing(value, n), n))
  PROVE  Bits(value, q) \in Readable(value) /\ Kept(value, n0, Bits(value, q))
<1> DEFINE c == value.checked = value.name /\ IsMissing(value, n)
<1>1. CASE value.kind = "angle"
  <2>1. value.checked = value.name
    BY <1>1 DEF WellFormed
  <2>2. c <=> IsMissing(value, n)
    BY <2>1
  <2>3. Told(value, c, n) = Told(value, IsMissing(value, n), n)
    BY <2>2 DEF Told
  <2>4. n = n0 \/ KeptAngle(value, n0, n)
    BY <1>1 DEF Kept
  <2>5. q \in Readable(value) /\ KeptAngle(value, n0, q)
    BY <1>1, <2>3, <2>4, AngleHop
  <2>6. Bits(value, q) = q
    BY <2>5, BitsReadable, ReadableStorable
  <2> QED
    BY <1>1, <2>5, <2>6 DEF Kept
<1>2. CASE value.kind = "ceiling"
  <2>1. value.missing = <<>>
    BY <1>2 DEF WellFormed
  <2>2. ~c
    BY <2>1 DEF IsMissing
  <2>3. Told(value, c, n) = Told(value, FALSE, n)
    BY <2>2 DEF Told
  <2> QED
    BY <1>2, <2>3, CeilingHop
<1>3. CASE value.kind \notin {"angle", "ceiling"}
  <2>1. Bits(value, q) = Final(value, n) /\ Final(value, n) \in Readable(value)
    BY <1>3, SetAgain
  <2>2. n = n0 \/ n = Final(value, n0)
    BY <1>3 DEF Kept
  <2>3. Final(value, n) = Final(value, n0)
    BY <1>3, <2>2, FinalAgain
  <2> QED
    BY <1>3, <2>1, <2>3 DEF Kept
<1> QED
  BY <1>1, <1>2, <1>3

-----------------------------------------------------------------------------
\* What a getter looks at, of an object made from bits.
LEMMA GetIs ==
  ASSUME type \in Types, NEW value \in Values, NEW m, \A x \in Names : m[x] \in Readable(Named[x])
  PROVE  /\ Get(value, m) = Told(value, value.checked = value.name /\ IsMissing(value, m[value.name]), m[value.name])
         /\ GetterThrows(value, m) <=> Throws(value, Get(value, m))
         /\ m[value.name] \in Readable(value)
         /\ value.checked # value.name => value.kind = "unit"
<1>1. WellFormed(value) /\ value.name \in Names /\ Named[value.name] = value
  BY OfValues
<1>2. Get(value, m) = Told(value, IsMissing(value, m[value.checked]), m[value.name])
  BY DEF Get, Told
<1>3. GetterThrows(value, m) <=> Throws(value, Get(value, m))
  BY DEF GetterThrows, Throws
<1>4. ASSUME value.checked # value.name PROVE value.kind = "unit" /\ ~IsMissing(value, m[value.checked])
  <2>1. value.kind = "unit"
    BY <1>4, Table DEF Consistent, Values
  <2>2. PICK other \in Values : value.checked = other.name /\ Len(other.bits) = 1
                                /\ other.kind \notin Texts /\ value.missing[1] >= 2^other.bits[1]
    BY <1>4, Table DEF Consistent, Values
  <2>3. WellFormed(other) /\ other.name \in Names /\ Named[other.name] = other
    BY OfValues
  <2>4. m[value.checked] \in Readable(other)
    BY <2>2, <2>3
  <2>5. DOMAIN other.bits = {1} /\ 2^other.bits[1] \in Nat
    <3>1. 1..1 = {1}
      OBVIOUS
    <3> QED
      BY <2>2, <2>3, <3>1, Shape
  <2>6. DOMAIN m[value.checked] = {1} /\ m[value.checked][1] \in Nat /\ m[value.checked][1] < 2^other.bits[1]
    BY <2>2, <2>4, <2>5 DEF Readable
  <2>7. value.missing # <<>> => value.missing \in [{1} -> Nat]
    BY <1>1, <2>1, SingleMissing
  <2>8. value.missing # <<>> => m[value.checked][1] # value.missing[1]
    BY <2>2, <2>5, <2>6, <2>7
  <2> QED
    BY <2>1, <2>7, <2>8 DEF IsMissing
<1>5. IsMissing(value, m[value.checked]) <=> value.checked = value.name /\ IsMissing(value, m[value.name])
  BY <1>4
<1>6. Get(value, m) = Told(value, value.checked = value.name /\ IsMissing(value, m[value.name]), m[value.name])
  BY <1>2, <1>5 DEF Told
<1> QED
  BY <1>1, <1>3, <1>4, <1>6

\* What Arrives says of a value that is not an angle.
LEMMA ArrivesIs ==
  ASSUME NEW value, WellFormed(value), value.kind # "angle", NEW v, NEW got
  PROVE  /\ TooMuch(value, v) => ~HasLimit(value) /\ (Arrives(value, v, got) <=> got = Nothing)
         /\ ~TooMuch(value, v) /\ HasLimit(value) /\ v[1] > value.most =>
              (Arrives(value, v, got) <=> got = <<value.most>>)
         /\ ~TooMuch(value, v) /\ ~(HasLimit(value) /\ v[1] > value.most) /\ value.kind # "ceiling" =>
              (Arrives(value, v, got) <=> got = v)
         /\ ~TooMuch(value, v) /\ ~HasLimit(value) /\ value.kind = "ceiling" =>
              (Arrives(value, v, got) <=> got # Nothing /\ got[1] - v[1] \in 0..1)
<1>1. /\ TooMuch(value, v) => ~HasLimit(value) /\ value.kind # "ceiling"
      /\ HasLimit(value) => value.kind # "ceiling"
  <2>1. value.kind = "ceiling" => value.valid = NoLimit /\ value.most = NoLimit
    BY Single DEF WellFormed
  <2> QED
    BY <2>1, LimitIs DEF TooMuch, HasLimit
<1>2. ASSUME TooMuch(value, v) PROVE Arrives(value, v, got) <=> got = Nothing
  BY <1>1, <1>2 DEF Arrives
<1>3. ASSUME ~TooMuch(value, v), HasLimit(value), v[1] > value.most
      PROVE  Arrives(value, v, got) <=> got = <<value.most>>
  BY <1>1, <1>3 DEF Arrives
<1>4. ASSUME ~TooMuch(value, v), ~(HasLimit(value) /\ v[1] > value.most), value.kind # "ceiling"
      PROVE  Arrives(value, v, got) <=> got = v
  BY <1>4 DEF Arrives
<1>5. ASSUME ~TooMuch(value, v), ~HasLimit(value), value.kind = "ceiling"
      PROVE  Arrives(value, v, got) <=> got # Nothing /\ got[1] - v[1] \in 0..1
  BY <1>5 DEF Arrives
<1> QED
  BY <1>1, <1>2, <1>3, <1>4, <1>5

\* The angle of an object that was sent on.
LEMMA AngleRelayed ==
  ASSUME NEW value, WellFormed(value), value.kind = "angle",
         NEW n0 \in Readable(value), NEW n \in Readable(value), KeptAngle(value, n0, n)
  PROVE  LET before == Told(value, IsMissing(value, n0), n0)
             now == Told(value, IsMissing(value, n), n)
         IN /\ ~Throws(value, now)
            /\ before = Nothing => now = Nothing
            /\ DOMAIN now = DOMAIN before
            /\ \A i \in DOMAIN now : before[i] - now[i] \in 0..(((2 * value.per) \div 6) + 1)
<1> DEFINE before == Told(value, IsMissing(value, n0), n0)
           now == Told(value, IsMissing(value, n), n)
<1>1. value.gives \in {Nothing, [i \in DOMAIN value.bits |-> 0]}
  BY DEF WellFormed
<1>2. value.per \in Pers /\ ((2 * value.per) \div 6) + 1 \in Nat
  <2>1. value.per \in Pers
    BY Shape, AngleIs
  <2> QED
    BY <2>1 DEF Pers
<1>3. \A i \in DOMAIN value.bits : Largest(value, i) \in Nat
  BY DEF Largest
<1>4. ASSUME NEW m \in Readable(value), ~IsMissing(value, m)
      PROVE  /\ DOMAIN Told(value, IsMissing(value, m), m) = DOMAIN value.bits
             /\ Told(value, IsMissing(value, m), m) # Nothing
             /\ \A i \in DOMAIN value.bits :
                  Told(value, IsMissing(value, m), m)[i] = Degrees(Step(value, m, i), value.per)
  <2>1. Told(value, IsMissing(value, m), m) = [i \in DOMAIN value.bits |-> Got(value, i, m[i])]
    BY <1>4 DEF Told
  <2>2. \A i \in DOMAIN value.bits : Got(value, i, m[i]) = Degrees(Step(value, m, i), value.per)
    BY DEF Got, Step
  <2>3. 1 \in DOMAIN [i \in DOMAIN value.bits |-> Got(value, i, m[i])] /\ DOMAIN Nothing = {}
    BY Shape DEF Nothing
  <2> QED
    BY <2>1, <2>2, <2>3
<1>5. CASE IsMissing(value, n0)
  <2>1. before = value.gives
    BY <1>5 DEF Told
  <2>2. now = value.gives
    <3>1. CASE IsMissing(value, n)
      BY <3>1 DEF Told
    <3>2. CASE ~IsMissing(value, n)
      <4>1. value.gives # Nothing /\ \A i \in DOMAIN value.bits : n[i] = 0
        BY <1>5, <3>2 DEF KeptAngle
      <4>2. \A i \in DOMAIN value.bits : Step(value, n, i) = 0
        <5> SUFFICES ASSUME NEW i \in DOMAIN value.bits PROVE Step(value, n, i) = 0
          OBVIOUS
        <5>1. value.bits[i] \in 1..30
          BY Shape
        <5>2. Signed(0, value.bits[i]) = 0
          BY <5>1, ZeroFits, Zenon
        <5> QED
          BY <4>1, <5>2 DEF Step
      <4>3. now = [i \in DOMAIN value.bits |-> Got(value, i, n[i])]
        BY <3>2 DEF Told
      <4>4. \A i \in DOMAIN value.bits : Got(value, i, n[i]) = 0
        <5> SUFFICES ASSUME NEW i \in DOMAIN value.bits PROVE Got(value, i, n[i]) = 0
          OBVIOUS
        <5>1. Got(value, i, n[i]) = Degrees(Step(value, n, i), value.per)
          BY DEF Got, Step
        <5> QED
          BY <1>2, <4>2, <5>1, AngleZero
      <4>5. now = [i \in DOMAIN value.bits |-> 0]
        BY <4>3, <4>4
      <4> QED
        BY <1>1, <4>1, <4>5
    <3> QED
      BY <3>1, <3>2
  <2> HIDE DEF before, now
  <2>3. CASE value.gives = Nothing
    <3>1. DOMAIN Nothing = {}
      BY DEF Nothing
    <3> QED
      BY <2>1, <2>2, <2>3, <3>1 DEF Throws, before, now
  <2>4. CASE value.gives = [i \in DOMAIN value.bits |-> 0]
    <3>1. ~Throws(value, now)
      <4>1. \A i \in DOMAIN value.bits : now[i] = 0 /\ 0 \in (-Largest(value, i))..Largest(value, i)
        BY <1>3, <2>2, <2>4
      <4>2. DOMAIN now = DOMAIN value.bits
        BY <2>2, <2>4
      <4> QED
        BY <4>1, <4>2 DEF Throws
    <3>2. now = before /\ \A i \in DOMAIN now : now[i] = 0
      BY <2>1, <2>2, <2>4
    <3>3. \A i \in DOMAIN now : before[i] - now[i] \in 0..(((2 * value.per) \div 6) + 1)
      BY <1>2, <3>2
    <3> QED
      BY <3>1, <3>2, <3>3 DEF before, now
  <2> QED
    BY <1>1, <2>3, <2>4
<1>6. CASE ~IsMissing(value, n0)
  <2>1. \A i \in DOMAIN value.bits :
           /\ Settled(Step(value, n0, i), Step(value, n, i))
           /\ Step(value, n, i) >= -Most(value, i) /\ Step(value, n, i) <= Most(value, i)
    BY <1>6 DEF KeptAngle
  <2>2. ~IsMissing(value, n)
    BY <2>1, AngleThere
  <2>3. /\ DOMAIN before = DOMAIN value.bits /\ before # Nothing
        /\ \A i \in DOMAIN value.bits : before[i] = Degrees(Step(value, n0, i), value.per)
    BY <1>4, <1>6
  <2>4. /\ DOMAIN now = DOMAIN value.bits
        /\ \A i \in DOMAIN value.bits : now[i] = Degrees(Step(value, n, i), value.per)
    BY <1>4, <2>2
  <2> HIDE DEF before, now
  <2>5. ASSUME NEW i \in DOMAIN value.bits
        PROVE  /\ before[i] - now[i] \in 0..(((2 * value.per) \div 6) + 1)
               /\ now[i] \in (-Largest(value, i))..Largest(value, i)
    <3>1. Step(value, n0, i) \in Int /\ Step(value, n, i) \in Int
      BY AngleReadable
    <3>2. Degrees(Step(value, n0, i), value.per) - Degrees(Step(value, n, i), value.per)
            \in 0..(((2 * value.per) \div 6) + 1)
      BY <1>2, <2>1, <3>1, SettledNear
    <3>3. Largest(value, i) \in Poles /\ Most(value, i) = 6 * (Largest(value, i) \div value.per)
      BY AngleIs
    <3>4. Degrees(Step(value, n, i), value.per) \in (-Largest(value, i))..Largest(value, i)
      BY <1>2, <2>1, <3>1, <3>3, BetweenPoles
    <3> QED
      BY <2>3, <2>4, <3>2, <3>4
  <2>6. ~Throws(value, now)
    BY <2>4, <2>5 DEF Throws
  <2> QED
    BY <2>3, <2>4, <2>5, <2>6 DEF before, now
<1> QED
  BY <1>5, <1>6

-----------------------------------------------------------------------------
\* A number that was sent on.
LEMMA SingleRelayed ==
  ASSUME NEW value, WellFormed(value), value.kind \notin {"angle", "ceiling", "padded"},
         value.checked # value.name => value.kind = "unit", NEW n \in Readable(value)
  PROVE  LET before == Told(value, value.checked = value.name /\ IsMissing(value, n), n)
             f == Final(value, n)
             now == Told(value, value.checked = value.name /\ IsMissing(value, f), f)
         IN /\ before = Nothing => now = Nothing
            /\ before # Nothing => Arrives(value, before, now)
<1> DEFINE f == Final(value, n)
           c == value.checked = value.name /\ IsMissing(value, n)
           d == value.checked = value.name /\ IsMissing(value, f)
           before == Told(value, c, n)
           now == Told(value, d, f)
<1>1. value.kind # "angle" /\ n \in [{1} -> Nat] /\ n \in [{1} -> Int]
  <2>1. n \in [{1} -> Nat]
    BY SingleReadable
  <2> QED
    BY <2>1
<1>2. /\ Told(value, TRUE, n) = Nothing
      /\ Told(value, FALSE, n) \in [{1} -> Int] /\ Told(value, FALSE, n)[1] = Got(value, 1, n[1])
      /\ Told(value, FALSE, n) # Nothing
      /\ value.kind # "turn" => Got(value, 1, n[1]) = n[1] + value.read
      /\ n[1] \in Nat
  BY <1>1, SingleTold
<1>3. CASE c
  <2>1. f = n /\ before = Nothing
    BY <1>2, <1>3 DEF Final, Told
  <2>2. now = before
    BY <2>1
  <2> QED
    BY <2>1, <2>2
<1>4. CASE ~c
  <2>1. before = Told(value, FALSE, n)
    BY <1>4 DEF Told
  <2>2. before # Nothing /\ before[1] = Got(value, 1, n[1]) /\ before \in [{1} -> Int]
    BY <1>2, <2>1
  <2>3. f = IF TooMuch(value, <<n[1] + value.read>>) THEN value.missing
            ELSE IF HasLimit(value) /\ n[1] > value.most THEN <<value.most>> ELSE n
    BY <1>4 DEF Final
  <2>4. CASE value.kind = "turn"
    <3>1. ~HasLimit(value) /\ value.valid = NoLimit
      BY <2>4, Single DEF HasLimit, WellFormed
    <3>2. \A w : ~TooMuch(value, w)
      BY <3>1 DEF TooMuch
    <3>3. f = n
      BY <2>3, <3>1, <3>2
    <3>4. now = before
      BY <3>3
    <3>5. Arrives(value, before, now)
      <4> HIDE DEF before, now
      <4> QED
        BY <1>1, <2>4, <3>1, <3>2, <3>4, ArrivesIs
    <3> QED
      BY <2>2, <3>5
  <2>5. CASE value.kind # "turn"
    <3>1. before[1] = n[1] + value.read
      BY <1>2, <2>2, <2>5
    <3>2. TooMuch(value, before) <=> TooMuch(value, <<n[1] + value.read>>)
      <4> HIDE DEF before
      <4> QED
        BY <3>1 DEF TooMuch
    <3>3. CASE TooMuch(value, before)
      <4>1. value.missing # <<>> /\ value.valid # NoLimit
        BY <3>3 DEF TooMuch, WellFormed
      <4>2. value.checked = value.name
        BY <1>1, <4>1, Single
      <4>3. f = value.missing
        BY <2>3, <3>2, <3>3
      <4>4. value.missing \in Readable(value) /\ value.missing \in [{1} -> Nat]
        BY <1>1, <4>1, SingleMissing
      <4>5. d
        BY <4>1, <4>2, <4>3, <4>4 DEF IsMissing
      <4>6. now = Nothing
        <5>1. value.gives = Nothing
          BY <1>1, Single
        <5> QED
          BY <4>5, <5>1 DEF Told
      <4>7. Arrives(value, before, now)
        <5> HIDE DEF before, now
        <5> QED
          BY <1>1, <3>3, <4>6, ArrivesIs
      <4> QED
        BY <2>2, <4>7
    <3>4. CASE ~TooMuch(value, before) /\ HasLimit(value) /\ n[1] > value.most
      <4>1. f = <<value.most>>
        BY <2>3, <3>2, <3>4
      <4>2. value.most \in Nat /\ value.read = 0 /\ <<value.most>> \in Readable(value)
        BY <1>1, <3>4, LimitIs
      <4>3. ~d
        <5>1. CASE value.missing = <<>>
          BY <5>1 DEF IsMissing
        <5>2. CASE value.missing # <<>>
          <6>1. /\ value.missing \in [{1} -> Nat] /\ value.missing[1] > value.most
                /\ <<value.most>> \in [{1} -> Int] /\ <<value.most>>[1] = value.most
                /\ \A m \in [{1} -> Int] : IsMissing(value, m) <=> m = value.missing
            BY <1>1, <3>4, <4>2, <5>2, SingleMissing, OneOf
          <6>2. <<value.most>> # value.missing
            BY <4>2, <6>1
          <6> QED
            BY <4>1, <6>1, <6>2
        <5> QED
          BY <5>1, <5>2
      <4>4. now = Told(value, FALSE, <<value.most>>)
        BY <4>1, <4>3 DEF Told
      <4>5. now \in [{1} -> Int] /\ now[1] = value.most
        <5>1. Got(value, 1, <<value.most>>[1]) = value.most
          BY <1>1, <2>5, <4>2 DEF Got
        <5>2. /\ Told(value, FALSE, <<value.most>>) \in [{1} -> Int]
              /\ Told(value, FALSE, <<value.most>>)[1] = Got(value, 1, <<value.most>>[1])
          <6> DEFINE m == <<value.most>>
          <6>1. m \in Readable(value)
            BY <4>2
          <6> HIDE DEF m, c, d, f, before, now
          <6>2. /\ Told(value, FALSE, m) \in [{1} -> Int]
                /\ Told(value, FALSE, m)[1] = Got(value, 1, m[1])
            BY <1>1, <6>1, SingleTold
          <6> QED
            BY <6>2 DEF m
        <5> HIDE DEF now
        <5> QED
          BY <4>4, <5>1, <5>2
      <4>6. now = <<value.most>>
        <5> HIDE DEF now
        <5> QED
          BY <4>5, OneIs
      <4>7. before[1] > value.most
        BY <1>2, <3>1, <3>4, <4>2
      <4>8. Arrives(value, before, now)
        <5> HIDE DEF before, now
        <5> QED
          BY <1>1, <3>4, <4>6, <4>7, ArrivesIs
      <4> QED
        BY <2>2, <4>8
    <3>5. CASE ~TooMuch(value, before) /\ ~(HasLimit(value) /\ n[1] > value.most)
      <4>1. f = n
        BY <2>3, <3>2, <3>5
      <4>2. now = before
        BY <4>1
      <4>3. ~(HasLimit(value) /\ before[1] > value.most)
        <5>1. HasLimit(value) => value.read = 0
          BY <1>1, LimitIs
        <5> HIDE DEF before
        <5>2. HasLimit(value) => before[1] = n[1]
          BY <1>2, <3>1, <5>1
        <5> QED
          BY <3>5, <5>2
      <4>4. Arrives(value, before, now)
        <5> HIDE DEF before, now
        <5> QED
          BY <1>1, <3>5, <4>2, <4>3, ArrivesIs
      <4> QED
        BY <2>2, <4>4
    <3> QED
      BY <3>3, <3>4, <3>5
  <2> QED
    BY <2>4, <2>5
<1> QED
  BY <1>3, <1>4

\* A value that was sent on, by kind.
RelayedWell(value, before, now) ==
  CASE before = Nothing -> now = Nothing
    [] value.kind = "angle" ->
         /\ DOMAIN now = DOMAIN before
         /\ \A i \in DOMAIN now : before[i] - now[i] \in 0..((2 * value.per) \div 6 + 1)
    [] value.kind = "ceiling" ->
         now[1] \in before[1]..(5 * ((before[1] + 4) \div 5))
    [] OTHER -> Arrives(value, before, now)

\* What was kept is read as what it was, as far as the message can say it.
LEMMA Relayed ==
  ASSUME NEW value, WellFormed(value), value.kind # "padded",
         value.checked # value.name => value.kind = "unit",
         NEW n0 \in Readable(value), NEW n \in Readable(value), Kept(value, n0, n)
  PROVE  LET before == Told(value, value.checked = value.name /\ IsMissing(value, n0), n0)
             now == Told(value, value.checked = value.name /\ IsMissing(value, n), n)
         IN ~Throws(value, now) /\ RelayedWell(value, before, now)
<1> DEFINE c == value.checked = value.name /\ IsMissing(value, n0)
           d == value.checked = value.name /\ IsMissing(value, n)
           before == Told(value, c, n0)
           now == Told(value, d, n)
<1>1. CASE value.kind = "angle"
  <2>1. value.checked = value.name
    BY <1>1 DEF WellFormed
  <2>2. KeptAngle(value, n0, n)
    BY <1>1 DEF Kept
  <2>3. before = Told(value, IsMissing(value, n0), n0) /\ now = Told(value, IsMissing(value, n), n)
    BY <2>1 DEF Told
  <2>4. /\ ~Throws(value, now)
        /\ before = Nothing => now = Nothing
        /\ DOMAIN now = DOMAIN before
        /\ \A i \in DOMAIN now : before[i] - now[i] \in 0..(((2 * value.per) \div 6) + 1)
    <3>1. LET b == Told(value, IsMissing(value, n0), n0)
              w == Told(value, IsMissing(value, n), n)
          IN /\ ~Throws(value, w)
             /\ b = Nothing => w = Nothing
             /\ DOMAIN w = DOMAIN b
             /\ \A i \in DOMAIN w : b[i] - w[i] \in 0..(((2 * value.per) \div 6) + 1)
      BY <1>1, <2>2, AngleRelayed
    <3> HIDE DEF before, now
    <3> QED
      BY <2>3, <3>1
  <2> HIDE DEF before, now
  <2>5. RelayedWell(value, before, now)
    BY <1>1, <2>4 DEF RelayedWell
  <2> QED
    BY <2>4, <2>5 DEF before, now
<1>2. CASE value.kind = "ceiling"
  <2>1. value.missing = <<>> /\ value.kind # "angle"
    BY <1>2 DEF WellFormed
  <2>2. ~c /\ ~d
    BY <2>1 DEF IsMissing
  <2>3. before = Told(value, FALSE, n0) /\ now = Told(value, FALSE, n)
    BY <2>2 DEF Told
  <2>4. value.read = 0
    BY <1>2, <2>1, Single
  <2>5. before[1] = n0[1] + 0 /\ n0[1] \in Nat /\ before # Nothing
    BY <1>2, <2>1, <2>3, <2>4, SingleTold
  <2>6. now[1] = n[1] + 0 /\ n[1] \in Nat
    BY <1>2, <2>1, <2>3, <2>4, SingleTold
  <2>7. n[1] \in n0[1]..(5 * ((n0[1] + 4) \div 5))
    BY <1>2 DEF Kept
  <2> HIDE DEF before, now
  <2>8. before[1] = n0[1] /\ now[1] = n[1]
    BY <2>5, <2>6
  <2>9. RelayedWell(value, before, now)
    BY <1>2, <2>5, <2>7, <2>8 DEF RelayedWell
  <2> QED
    BY <1>2, <2>9 DEF Throws, before, now
<1>3. CASE value.kind \notin {"angle", "ceiling"}
  <2>1. n = Final(value, n0)
    BY <1>3 DEF Kept
  <2>2. /\ before = Nothing => now = Nothing
        /\ before # Nothing => Arrives(value, before, now)
    BY <1>3, <2>1, SingleRelayed
  <2> HIDE DEF before, now
  <2>3. RelayedWell(value, before, now)
    BY <1>3, <2>2 DEF RelayedWell
  <2> QED
    BY <1>3, <2>3 DEF Throws, before, now
<1> QED
  BY <1>1, <1>2, <1>3

-----------------------------------------------------------------------------
\* What a program can set a setter accepts.
LEMMA SettableAcceptable ==
  ASSUME NEW value
  PROVE  Settable(value) \subseteq Acceptable(value)
<1>1. value.kind \in Reals => value.kind \notin Texts \cup {"mmsi"}
  BY DEF Reals, Texts
<1>2. value.kind = "choice" => value.kind \notin Texts \cup {"mmsi"}
  BY DEF Texts
<1>3. 0..value.most \subseteq Int
  OBVIOUS
<1> QED
  BY <1>1, <1>2, <1>3 DEF Settable, Acceptable

\* An angle that was set and sent.
LEMMA AngleArrives ==
  ASSUME NEW value, WellFormed(value), value.kind = "angle", NEW v \in [DOMAIN value.bits -> Int],
         Fits(value, v), NEW q \in Stored(value, v)
  PROVE  /\ Arrives(value, v, Told(value, IsMissing(value, q), q))
         /\ ~Throws(value, Told(value, IsMissing(value, q), q))
         /\ Bits(value, q) = q
<1> DEFINE got == Told(value, IsMissing(value, q), q)
<1>1. \A i \in DOMAIN v : v[i] \in (-Largest(value, i))..Largest(value, i)
  BY DEF Fits
<1>2. ~Throws(value, v)
  BY <1>1 DEF Throws
<1>3. /\ q \in Readable(value) /\ ~IsMissing(value, q)
      /\ \A i \in DOMAIN value.bits : Step(value, q, i) \in Steps(v[i], value.per)
  BY <1>2, AngleSent
<1>4. Bits(value, q) = q
  BY <1>3, BitsReadable, ReadableStorable
<1>5. got = [i \in DOMAIN value.bits |-> Got(value, i, q[i])]
  BY <1>3 DEF Told
<1>6. \A i \in DOMAIN value.bits : Got(value, i, q[i]) = Degrees(Step(value, q, i), value.per)
  BY DEF Got, Step
<1>7. DOMAIN got = DOMAIN value.bits /\ \A i \in DOMAIN value.bits : got[i] = Degrees(Step(value, q, i), value.per)
  BY <1>5, <1>6
<1> HIDE DEF got
<1>8. ASSUME NEW i \in DOMAIN value.bits
      PROVE  /\ v[i] - got[i] \in 0..(value.per \div 6 + 1)
             /\ got[i] \in (-Largest(value, i))..Largest(value, i)
  <2>1. value.per \in Pers /\ Largest(value, i) \in Poles
    BY AngleIs
  <2>2. v[i] - Degrees(Step(value, q, i), value.per) \in 0..((value.per \div 6) + 1)
    BY <1>1, <1>3, <2>1, StepsFrom
  <2>3. Degrees(Step(value, q, i), value.per) \in (-Largest(value, i))..Largest(value, i)
    BY <1>1, <1>3, <2>1, StepsFrom
  <2> QED
    BY <1>7, <2>2, <2>3
<1>9. ~TooMuch(value, v) /\ ~HasLimit(value)
  BY DEF TooMuch, HasLimit, WellFormed
<1>10. Arrives(value, v, got)
  BY <1>7, <1>8, <1>9 DEF Arrives
<1>11. ~Throws(value, got)
  BY <1>7, <1>8 DEF Throws
<1> QED
  BY <1>4, <1>10, <1>11 DEF got

\* A number that was stored, fits its bits and is not the missing one.
LEMMA NumberArrives ==
  ASSUME NEW value, WellFormed(value), value.kind \notin {"angle", "padded", "turn"},
         NEW m \in Nat, <<m>> \in Readable(value), <<m>> # value.missing
  PROVE  /\ Bits(value, <<m>>) = <<m>> /\ ~IsMissing(value, <<m>>)
         /\ Told(value, FALSE, <<m>>) = <<m + value.read>>
         /\ <<m + value.read>> # Nothing /\ <<m + value.read>>[1] = m + value.read
<1> DEFINE n == <<m>>
<1>1. value.kind # "angle" /\ n \in Readable(value) /\ n[1] = m /\ n \in [{1} -> Int] /\ value.read \in Int
  <2>1. <<m>>[1] = m /\ <<m>> \in [{1} -> Int]
    BY OneOf
  <2>2. value.kind # "angle"
    OBVIOUS
  <2> QED
    BY <2>1, <2>2, Single
<1>2. n # value.missing
  OBVIOUS
<1> HIDE DEF n
<1>3. Bits(value, n) = n
  BY <1>1, BitsReadable, ReadableStorable
<1>4. ~IsMissing(value, n)
  <2>1. CASE value.missing = <<>>
    BY <2>1 DEF IsMissing
  <2>2. CASE value.missing # <<>>
    BY <1>1, <1>2, <2>2, SingleMissing
  <2> QED
    BY <2>1, <2>2
<1>5. Told(value, FALSE, n) \in [{1} -> Int] /\ Told(value, FALSE, n)[1] = Got(value, 1, n[1])
  BY <1>1, SingleTold
<1>6. Got(value, 1, n[1]) = n[1] + value.read
  BY <1>1, SingleTold
<1> DEFINE t == Told(value, FALSE, n)
           g == m + value.read
<1>7. t \in [{1} -> Int] /\ t[1] = g /\ g \in Int
  BY <1>1, <1>5, <1>6
<1> HIDE DEF t, g
<1>8. t = <<g>> /\ <<g>> # <<>> /\ <<g>>[1] = g
  BY <1>7, OneIs, OneOf
<1> QED
  BY <1>3, <1>4, <1>8 DEF n, t, g, Nothing

-----------------------------------------------------------------------------
\* A rate of turn that was set and sent.
LEMMA TurnArrives ==
  ASSUME NEW value, WellFormed(value), value.kind = "turn",
         NEW v \in Acceptable(value), ~SetterThrows(value, v), NEW q \in Stored(value, v)
  PROVE  Arrives(value, v, Told(value, FALSE, Bits(value, q))) /\ ~IsMissing(value, Bits(value, q))
<1>1. value.kind # "angle" /\ ~HasLimit(value) /\ value.valid = NoLimit /\ value.write = 0 /\ value.missing = <<>>
  <2>1. value.most = NoLimit /\ value.missing = <<>>
    BY DEF WellFormed
  <2>2. value.kind # "angle"
    OBVIOUS
  <2> QED
    BY <2>1, <2>2, Single DEF HasLimit
<1>2. v # Nothing /\ v = <<v[1]>> /\ v[1] \in Int
  BY <1>1, SingleAcceptable
<1>3. v[1] \in -126..126
  BY <1>2 DEF SetterThrows
<1>4. ~TooMuch(value, v)
  BY <1>1 DEF TooMuch
<1> DEFINE s == v[1]
<1>5. q = <<s>>
  <2>1. s + value.write = s /\ Converted(value, s) = {s} /\ Limited(value, s) = s
    BY <1>1, <1>2, ConvertedIs, LimitedIs
  <2> QED
    BY <1>1, <1>4, <2>1, SingleStored
<1>6. s \in Int /\ s >= -128 /\ s < 128 /\ v = <<s>>
  BY <1>2, <1>3
<1> HIDE DEF s
<1>7. Bits(value, <<s>>) = <<s % 256>> /\ <<s % 256>> \in Readable(value) /\ Got(value, 1, s % 256) = s
  BY <1>6, TurnBack
<1> DEFINE m == s % 256
           n == <<m>>
           t == Told(value, FALSE, n)
<1>8. m \in Int
  BY <1>6
<1>9. n[1] = m
  OBVIOUS
<1>10. Bits(value, q) = n /\ n \in Readable(value) /\ Got(value, 1, m) = s
  BY <1>5, <1>7
<1> HIDE DEF m, n
<1>11. t \in [{1} -> Int] /\ t[1] = s
  BY <1>1, <1>9, <1>10, SingleTold
<1> HIDE DEF t
<1>12. t = v
  BY <1>6, <1>11, OneIs
<1>13. Arrives(value, v, t)
  BY <1>1, <1>4, <1>12, ArrivesIs
<1>14. ~IsMissing(value, Bits(value, q))
  BY <1>1 DEF IsMissing
<1> QED
  BY <1>10, <1>13, <1>14 DEF t

\* A number that was set and sent: what is stored of it is read.
LEMMA WholeArrives ==
  ASSUME NEW value, WellFormed(value), value.kind \notin {"angle", "padded", "turn", "ceiling"},
         value.read + value.write = 0,
         NEW v \in Acceptable(value), ~TooMuch(value, v), v[1] + value.write >= 0,
         <<Limited(value, v[1] + value.write)>> \in Readable(value),
         <<Limited(value, v[1] + value.write)>> # value.missing,
         NEW q \in Stored(value, v)
  PROVE  Arrives(value, v, Told(value, FALSE, Bits(value, q))) /\ ~IsMissing(value, Bits(value, q))
<1> DEFINE w == v[1] + value.write
           m == Limited(value, w)
<1>1. value.kind # "angle" /\ value.read \in Int /\ value.write \in Int /\ v = <<v[1]>> /\ v[1] \in Int
  <2>1. value.kind # "angle"
    OBVIOUS
  <2> QED
    BY <2>1, Single, SingleAcceptable
<1>2. w \in Int /\ w >= 0
  BY <1>1
<1>3. Stored(value, v) = {<<Limited(value, k)>> : k \in Converted(value, w)}
  BY <1>1, SingleStored
<1>4. <<m>> \in Readable(value) /\ <<m>> # value.missing
  OBVIOUS
<1>5. w + value.read = v[1]
  BY <1>1
<1> HIDE DEF w
<1>6. Converted(value, w) = {w} /\ m \in Nat
  BY <1>1, <1>2, ConvertedIs, LimitedIs
<1>7. q = <<m>>
  BY <1>3, <1>6
<1>8. /\ HasLimit(value) => value.read = 0 /\ value.most \in Nat
      /\ ~HasLimit(value) => m = w
      /\ HasLimit(value) /\ w > value.most => m = value.most
      /\ HasLimit(value) /\ w <= value.most => m = w
  <2>1. HasLimit(value) => value.read = 0 /\ value.most \in Nat
    BY <1>1, LimitIs
  <2> QED
    BY <1>1, <1>2, <2>1, LimitedIs
<1> HIDE DEF m
<1>9. /\ Bits(value, <<m>>) = <<m>> /\ ~IsMissing(value, <<m>>)
      /\ Told(value, FALSE, <<m>>) = <<m + value.read>>
  BY <1>4, <1>6, NumberArrives
<1>10. CASE HasLimit(value) /\ v[1] > value.most
  <2>1. w = v[1] /\ m + value.read = value.most
    BY <1>1, <1>2, <1>5, <1>8, <1>10
  <2>2. Arrives(value, v, <<value.most>>)
    BY <1>1, <1>10, ArrivesIs
  <2> QED
    BY <1>7, <1>9, <2>1, <2>2
<1>11. CASE ~(HasLimit(value) /\ v[1] > value.most)
  <2>1. m + value.read = v[1]
    BY <1>1, <1>2, <1>5, <1>8, <1>11
  <2>2. Arrives(value, v, v)
    BY <1>1, <1>11, ArrivesIs
  <2> QED
    BY <1>1, <1>7, <1>9, <2>1, <2>2
<1> QED
  BY <1>10, <1>11

\* A draught that was set and sent.
LEMMA CeilingArrives ==
  ASSUME NEW value, WellFormed(value), value.kind = "ceiling",
         NEW v \in Acceptable(value), Fits(value, v), NEW q \in Stored(value, v)
  PROVE  Arrives(value, v, Told(value, FALSE, Bits(value, q))) /\ ~IsMissing(value, Bits(value, q))
<1>1. value.kind # "angle" /\ ~HasLimit(value) /\ value.valid = NoLimit /\ value.write = 0 /\ value.read = 0
      /\ value.missing = <<>> /\ value.bits[1] = 8
  <2>1. value.most = NoLimit /\ value.missing = <<>> /\ value.bits[1] = 8
    BY DEF WellFormed
  <2>2. value.kind # "angle"
    OBVIOUS
  <2> QED
    BY <2>1, <2>2, Single DEF HasLimit
<1>2. v # Nothing /\ v = <<v[1]>> /\ v[1] \in Int
  BY <1>1, SingleAcceptable
<1>3. ~TooMuch(value, v)
  BY <1>1 DEF TooMuch
<1>4. v[1] >= 0 /\ v[1] <= 255
  <2>1. v[1] + 0 >= 0 /\ Limited(value, v[1] + 0) \in 0..(2^8 - 1)
    <3>1. ~(value.kind \in {"text", "turn"}) /\ ~(value.kind = "unit" /\ value.missing # <<>>)
      OBVIOUS
    <3> QED
      BY <1>1, <3>1 DEF Fits
  <2>2. v[1] + 0 = v[1] /\ 2^8 - 1 = 255
    BY <1>2
  <2>3. Limited(value, v[1]) = v[1]
    BY <1>1, <1>2, LimitedIs
  <2> QED
    BY <1>2, <2>1, <2>2, <2>3
<1>5. PICK k \in Converted(value, v[1]) : q = <<Limited(value, k)>>
  <2>1. v[1] + value.write = v[1]
    BY <1>1, <1>2
  <2> QED
    BY <1>1, <1>3, <2>1, SingleStored
<1>6. k \in Nat /\ k - v[1] \in 0..1 /\ k < 256
  <2>1. k = v[1] \/ (v[1] % 5 # 0 /\ k = v[1] + 1)
    BY <1>2, <1>5, ConvertedIs
  <2> QED
    BY <1>2, <1>4, <2>1
<1>7. q = <<k>>
  BY <1>1, <1>5, <1>6, LimitedIs
<1>8. <<k>> \in Readable(value) /\ <<k>> # value.missing
  <2>1. <<k>> \in [{1} -> Nat] /\ <<k>>[1] = k /\ <<k>> # <<>>
    BY <1>6, OneOf
  <2> QED
    BY <1>1, <1>6, <2>1, EightBits
<1>9. /\ Bits(value, <<k>>) = <<k>> /\ ~IsMissing(value, <<k>>)
      /\ Told(value, FALSE, <<k>>) = <<k + value.read>>
      /\ <<k + value.read>> # Nothing /\ <<k + value.read>>[1] = k + value.read
  BY <1>6, <1>8, NumberArrives
<1>10. k + value.read = k
  BY <1>1, <1>6
<1>11. Told(value, FALSE, <<k>>) = <<k>> /\ <<k>> # Nothing /\ <<k>>[1] = k
  BY <1>9, <1>10
<1>12. Arrives(value, v, <<k>>)
  BY <1>1, <1>3, <1>6, <1>11, ArrivesIs
<1> QED
  BY <1>7, <1>9, <1>11, <1>12

-----------------------------------------------------------------------------
\* What is too much arrives as not available.
LEMMA TooMuchArrives ==
  ASSUME NEW value, WellFormed(value), value.kind # "angle", NEW v \in Acceptable(value),
         TooMuch(value, v), NEW q \in Stored(value, v)
  PROVE  /\ value.checked = value.name \/ value.kind # "unit"
         /\ Arrives(value, v, Told(value, TRUE, Bits(value, q))) /\ IsMissing(value, Bits(value, q))
<1>1. value.missing # <<>> /\ value.valid # NoLimit
  BY DEF TooMuch, WellFormed
<1>2. value.kind # "unit" /\ value.kind \notin Texts
  BY <1>1, Single DEF Texts
<1>3. value.missing \in Readable(value) /\ value.missing \in [{1} -> Nat]
  BY <1>1, SingleMissing
<1>4. q = value.missing
  BY SingleStored
<1>5. Bits(value, q) = value.missing
  BY <1>2, <1>3, <1>4, BitsReadable, ReadableStorable DEF Texts
<1>6. IsMissing(value, value.missing)
  BY <1>1, <1>3 DEF IsMissing
<1>7. Told(value, TRUE, value.missing) = Nothing
  BY <1>3, SingleTold
<1>8. Arrives(value, v, Nothing)
  BY ArrivesIs
<1> QED
  BY <1>2, <1>5, <1>6, <1>7, <1>8

\* What was set arrives.
LEMMA Sent ==
  ASSUME NEW value, WellFormed(value), value.kind # "padded", value.read + value.write = 0,
         value.checked # value.name => value.kind = "unit",
         NEW v \in Settable(value), ~SetterThrows(value, v), Fits(value, v), NEW q \in Stored(value, v)
  PROVE  LET n == Bits(value, q)
             got == Told(value, value.checked = value.name /\ IsMissing(value, n), n)
         IN Arrives(value, v, got) /\ ~Throws(value, got)
<1> DEFINE n == Bits(value, q)
           c == value.checked = value.name /\ IsMissing(value, n)
           got == Told(value, c, n)
<1>1. v \in Acceptable(value)
  BY SettableAcceptable
<1>2. CASE value.kind = "angle"
  <2>1. v \in [DOMAIN value.bits -> Int] /\ value.checked = value.name
    BY <1>1, <1>2 DEF Acceptable, Texts, WellFormed
  <2>2. /\ Arrives(value, v, Told(value, IsMissing(value, q), q))
        /\ ~Throws(value, Told(value, IsMissing(value, q), q))
        /\ Bits(value, q) = q
    BY <1>2, <2>1, AngleArrives
  <2>3. got = Told(value, IsMissing(value, q), q)
    BY <2>1, <2>2 DEF Told
  <2> HIDE DEF got
  <2> QED
    BY <2>2, <2>3 DEF got
<1>3. CASE value.kind # "angle"
  <2>1. ~Throws(value, got)
    BY <1>3 DEF Throws
  <2>2. CASE TooMuch(value, v)
    <3>1. /\ value.checked = value.name \/ value.kind # "unit"
          /\ Arrives(value, v, Told(value, TRUE, n)) /\ IsMissing(value, n)
      BY <1>1, <1>3, <2>2, TooMuchArrives
    <3>2. c
      BY <3>1
    <3>3. got = Told(value, TRUE, n)
      BY <3>2 DEF Told
    <3> HIDE DEF got
    <3> QED
      BY <2>1, <3>1, <3>3 DEF got
  <2>3. ASSUME Arrives(value, v, Told(value, FALSE, n)), ~IsMissing(value, n) PROVE Arrives(value, v, got)
    <3>1. got = Told(value, FALSE, n)
      BY <2>3 DEF Told
    <3> HIDE DEF got
    <3> QED
      BY <2>3, <3>1
  <2>4. CASE value.kind = "turn"
    BY <1>1, <2>1, <2>3, <2>4, TurnArrives
  <2>5. CASE value.kind = "ceiling"
    BY <1>1, <2>1, <2>3, <2>5, CeilingArrives
  <2>6. CASE value.kind \notin {"turn", "ceiling"} /\ ~TooMuch(value, v)
    <3> DEFINE w == v[1] + value.write
               m == Limited(value, w)
    <3>1. v # Nothing /\ v[1] \in Int /\ value.write \in Int /\ w \in Int
      <4>1. v # Nothing /\ v[1] \in Int /\ value.write \in Int
        BY <1>1, <1>3, Single, SingleAcceptable
      <4> QED
        BY <4>1
    <3>2. w >= 0 /\ <<m>> \in Readable(value) /\ <<m>> # value.missing
      <4>1. CASE value.kind = "text"
        <5>1. v[1] \in Nat /\ value.write = 0 /\ value.missing = <<>>
          <6>1. value.missing = <<>>
            BY <4>1 DEF WellFormed
          <6> QED
            BY <1>1, <1>3, <4>1, <6>1, Single, SingleAcceptable DEF Texts
        <5>2. w >= 0
          BY <5>1
        <5>3. HasLimit(value) /\ value.most = value.bits[1] /\ value.bits[1] \in 1..30
          BY <1>3, <4>1, LimitIs DEF Texts
        <5> HIDE DEF w
        <5>4. m \in 0..value.bits[1]
          BY <1>3, <3>1, <5>3, LimitedIs
        <5> HIDE DEF m
        <5>5. <<m>> \in [{1} -> Nat] /\ <<m>>[1] = m /\ <<m>> # <<>>
          BY <5>3, <5>4, OneOf
        <5>6. <<m>> \in Readable(value)
          BY <1>3, <4>1, <5>3, <5>4, <5>5, SingleReadable DEF Texts
        <5> QED
          BY <5>1, <5>2, <5>5, <5>6
      <4>2. CASE value.kind = "unit" /\ value.missing # <<>>
        <5>1. HasLimit(value)
          BY <4>2 DEF WellFormed
        <5>2. /\ value.most \in Nat /\ value.write = 0 /\ <<value.most>> \in Readable(value)
              /\ value.missing[1] > value.most /\ value.missing \in [{1} -> Nat]
          BY <1>3, <4>2, <5>1, LimitIs, SingleMissing
        <5>3. ~(v[1] < 0)
          BY <3>1, <4>2 DEF SetterThrows
        <5>4. w >= 0
          BY <3>1, <5>2, <5>3
        <5> HIDE DEF w
        <5>5. m \in 0..value.most
          BY <1>3, <3>1, <5>1, LimitedIs
        <5> HIDE DEF m
        <5>6. m \in Nat /\ m <= value.most
          BY <5>2, <5>5
        <5>7. <<m>> \in [{1} -> Nat] /\ <<m>>[1] = m
          BY <5>6, OneOf
        <5>8. <<m>> # value.missing
          BY <5>2, <5>6, <5>7
        <5>9. <<m>> \in Readable(value)
          <6>1. <<value.most>>[1] = value.most /\ value.kind \notin Texts
            BY <4>2 DEF Texts
          <6>2. value.most < 2^value.bits[1]
            BY <1>3, <5>2, <6>1, SingleReadable
          <6>3. m < 2^value.bits[1]
            <7>1. 2^value.bits[1] \in Nat
              BY <1>3, Single
            <7> QED
              BY <5>2, <5>6, <6>2, <7>1
          <6> QED
            BY <1>3, <5>7, <6>1, <6>3, SingleReadable
        <5> QED
          BY <5>4, <5>8, <5>9
      <4>3. CASE ~(value.kind = "text") /\ ~(value.kind = "unit" /\ value.missing # <<>>)
        <5>1. w >= 0 /\ m \in 0..(2^value.bits[1] - 1) /\ <<m>> # value.missing
          BY <1>3, <2>6, <4>3 DEF Fits
        <5> HIDE DEF w
        <5>2. value.kind \notin Texts /\ 2^value.bits[1] \in Nat
          BY <1>3, <4>3, Single DEF Texts
        <5> HIDE DEF m
        <5>3. m \in Nat /\ m < 2^value.bits[1]
          BY <5>1, <5>2
        <5>4. <<m>> \in [{1} -> Nat] /\ <<m>>[1] = m
          BY <5>3, OneOf
        <5>5. <<m>> \in Readable(value)
          BY <1>3, <5>2, <5>3, <5>4, SingleReadable
        <5> QED
          BY <5>1, <5>5
      <4> QED
        BY <4>1, <4>2, <4>3
    <3>3. Arrives(value, v, Told(value, FALSE, n)) /\ ~IsMissing(value, n)
      BY <1>1, <1>3, <2>6, <3>2, WholeArrives
    <3> QED
      BY <2>1, <2>3, <3>3
  <2> QED
    BY <2>2, <2>4, <2>5, <2>6
<1> QED
  BY <1>2, <1>3

-----------------------------------------------------------------------------
\* An identity that begins like that of an auxiliary vessel fits its bits.
LEMMA AuxiliaryFits ==
  ASSUME NEW n \in Nat, is_auxiliary(n)
  PROVE  n < Thirty
<1>1. n \div 10000000 = 98
  BY DEF is_auxiliary, Without
<1> QED
  BY <1>1, SMT DEF Thirty

\* What has 30 bits.
LEMMA IdentityBits ==
  ASSUME NEW value, WellFormed(value), value.kind = "mmsi", NEW q \in Storable(value)
  PROVE  /\ q \in [{1} -> Nat] /\ q[1] \in Nat /\ Bits(value, q)[1] \in Nat
         /\ Bits(value, q)[1] < Thirty
         /\ q[1] < Thirty => Bits(value, q) = q
<1>1. value.kind # "angle" /\ value.kind \notin Texts \cup {"angle"} /\ value.kind # "padded"
  BY DEF Texts
<1>2. q \in [{1} -> Nat]
  BY <1>1, Single DEF Storable, Acceptable
<1>3. Bits(value, q) \in Readable(value) /\ (q \in Readable(value) => Bits(value, q) = q)
  BY <1>1, BitsReadable
<1>4. \A n : n \in Readable(value) <=> n \in [{1} -> Nat] /\ n[1] < Thirty
  <2> SUFFICES ASSUME NEW n PROVE n \in Readable(value) <=> n \in [{1} -> Nat] /\ n[1] < Thirty
    OBVIOUS
  <2>1. n \in Readable(value) <=> n \in [{1} -> Nat] /\ n[1] < 2^value.bits[1]
    BY <1>1, SingleReadable DEF Texts
  <2>2. n[1] < 2^value.bits[1] <=> n[1] < Thirty
    BY IdentityIs
  <2> QED
    BY <2>1, <2>2
<1> QED
  BY <1>2, <1>3, <1>4

\* What the constructor from bits makes of an object.
LEMMA ConstructedIs ==
  ASSUME type \in Types, NEW m, DOMAIN m = Names, \A x \in Names : m[x] \in Storable(Named[x])
  PROVE  /\ DOMAIN Constructed(m) = Names
         /\ \A x \in Names :
              /\ Constructed(m)[x] \in Readable(Named[x])
              /\ ~Carried(Constructed(m), x) => Constructed(m)[x] = New[x]
              /\ /\ Carried(Constructed(m), x)
                 /\ type = "message_24_B" /\ x = "mothership_mmsi" => m["mmsi"][1] < Thirty
                 => Constructed(m)[x] = Bits(Named[x], m[x])
<1> DEFINE bits == [x \in Names |-> [i \in DOMAIN m[x] |-> OnTheWay(Named[x], i, m[x][i])]]
           r == Constructed(m)
<1>1. r = [x \in Names |-> IF ~Carried(bits, x) THEN New[x]
                           ELSE IF Carried(m, x) THEN bits[x]
                           ELSE <<MadeOfDimension(bits)>>]
  BY DEF Constructed
<1>2. \A x \in Names : bits[x] = Bits(Named[x], m[x])
  BY DEF Bits
<1>3. \A x \in Names : WellFormed(Named[x]) /\ Named[x] \in Values /\ New[x] = Initial(Named[x])
  BY OfNames, OfValues
<1>4. \A x \in Names : bits[x] \in Readable(Named[x]) /\ New[x] \in Readable(Named[x])
  <2> SUFFICES ASSUME NEW x \in Names PROVE bits[x] \in Readable(Named[x]) /\ New[x] \in Readable(Named[x])
    OBVIOUS
  <2>1. Bits(Named[x], m[x]) \in Readable(Named[x])
    BY <1>3, BitsReadable
  <2>2. New[x] \in Readable(Named[x])
    BY <1>3 DEF WellFormed
  <2> QED
    BY <1>2, <2>1, <2>2
<1> HIDE DEF bits, r
<1>5. DOMAIN r = Names
  BY <1>1
<1>6. CASE type # "message_24_B"
  <2>1. \A o, x : Carried(o, x)
    BY <1>6 DEF Carried
  <2>2. \A x \in Names : r[x] = bits[x]
    BY <1>1, <2>1
  <2> QED
    BY <1>2, <1>4, <1>5, <1>6, <2>1, <2>2 DEF r
<1>7. CASE type = "message_24_B"
  <2>1. PartB(Named)
    BY <1>7, PartBAssumption DEF Named
  <2>2. Dimensions \cup {"mmsi", "mothership_mmsi"} \subseteq Names
    BY <2>1 DEF PartB, Names
  <2>3. Named["mmsi"].kind = "mmsi" /\ Named["mothership_mmsi"].kind = "mmsi"
    BY <2>1 DEF PartB
  <2> DEFINE n == m["mmsi"][1]
             k == bits["mmsi"][1]
  <2>4. n \in Nat /\ k \in Nat /\ k < Thirty /\ (n < Thirty => k = n)
    BY <1>2, <1>3, <2>2, <2>3, IdentityBits
  <2>5. \A o, x : Carried(o, x) <=> /\ x = "mothership_mmsi" => is_auxiliary(o["mmsi"][1])
                                    /\ x \in Dimensions => ~is_auxiliary(o["mmsi"][1])
    BY <1>7 DEF Carried
  <2>6. "mmsi" # "mothership_mmsi" /\ "mmsi" \notin Dimensions /\ "mothership_mmsi" \notin Dimensions
    BY DEF Dimensions
  <2>7. r["mmsi"] = bits["mmsi"]
    BY <1>1, <2>2, <2>5, <2>6
  <2>8. is_auxiliary(n) => is_auxiliary(k) /\ n < Thirty
    BY <2>4, AuxiliaryFits
  <2>9. \A x : Carried(r, x) <=> Carried(bits, x)
    BY <2>5, <2>7
  <2>10. <<MadeOfDimension(bits)>> \in Readable(Named["mothership_mmsi"])
    <3>1. \A x \in Dimensions : WellFormed(Named[x]) /\ Named[x].kind = "unit" /\ bits[x] \in Readable(Named[x])
      BY <1>3, <1>4, <2>1, <2>2 DEF PartB
    <3>2. ASSUME NEW x \in Dimensions, NEW b \in {6, 9}, Named[x].bits = <<b>>
          PROVE  bits[x][1] \in Nat /\ bits[x][1] < (IF b = 6 THEN 64 ELSE 512)
      <4>1. bits[x] \in [{1} -> Nat] /\ bits[x][1] < 2^Named[x].bits[1]
        BY <3>1, SingleReadable DEF Texts
      <4>2. CASE b = 6
        <5>1. Named[x].bits[1] = 6
          BY <3>2, <4>2
        <5>2. bits[x][1] < 2^6
          BY <4>1, <5>1
        <5> QED
          BY <4>1, <4>2, <5>2
      <4>3. CASE b = 9
        <5>1. Named[x].bits[1] = 9
          BY <3>2, <4>3
        <5>2. bits[x][1] < 2^9
          BY <4>1, <5>1
        <5> QED
          BY <4>1, <4>3, <5>2
      <4> QED
        BY <4>2, <4>3
    <3>3. /\ bits["to_bow"][1] \in Nat /\ bits["to_bow"][1] < 512
          /\ bits["to_stern"][1] \in Nat /\ bits["to_stern"][1] < 512
          /\ bits["to_port"][1] \in Nat /\ bits["to_port"][1] < 64
          /\ bits["to_starboard"][1] \in Nat /\ bits["to_starboard"][1] < 64
      BY <2>1, <3>2 DEF PartB, Dimensions
    <3> DEFINE d == MadeOfDimension(bits)
    <3>4. d = ((bits["to_bow"][1] * 512 + bits["to_stern"][1]) * 64 + bits["to_port"][1]) * 64
              + bits["to_starboard"][1]
      BY DEF MadeOfDimension
    <3>5. d \in Nat /\ d < Thirty
      <4> DEFINE bow == bits["to_bow"][1]
                 stern == bits["to_stern"][1]
                 port == bits["to_port"][1]
                 starboard == bits["to_starboard"][1]
      <4>1. /\ bow \in Nat /\ bow < 512 /\ stern \in Nat /\ stern < 512
            /\ port \in Nat /\ port < 64 /\ starboard \in Nat /\ starboard < 64
        BY <3>3
      <4>2. d = ((bow * 512 + stern) * 64 + port) * 64 + starboard
        BY <3>4
      <4> HIDE DEF bow, stern, port, starboard, d
      <4> DEFINE x == bow * 512 + stern
                 y == x * 64 + port
                 z == y * 64 + starboard
      <4>3. x \in Nat /\ x < 262144
        BY <4>1, SMT
      <4>4. d = z
        BY <4>2, Zenon
      <4> HIDE DEF x
      <4>5. y \in Nat /\ y < 16777216
        BY <4>1, <4>3, SMT
      <4> HIDE DEF y
      <4>6. z \in Nat /\ z < Thirty
        BY <4>1, <4>5, SMT DEF Thirty
      <4> HIDE DEF z
      <4> QED
        BY <4>4, <4>6, Zenon
    <3> HIDE DEF d
    <3>6. <<d>> \in [{1} -> Nat] /\ <<d>>[1] = d
      BY <3>5, OneOf
    <3>7. WellFormed(Named["mothership_mmsi"]) /\ Named["mothership_mmsi"].kind # "angle"
      BY <1>3, <2>2, <2>3
    <3>8. 2^Named["mothership_mmsi"].bits[1] = Thirty
      BY <2>3, <3>7, IdentityIs
    <3>9. <<d>>[1] < 2^Named["mothership_mmsi"].bits[1]
      BY <3>5, <3>6, <3>8
    <3>10. <<d>> \in Readable(Named["mothership_mmsi"])
      BY <2>3, <3>6, <3>7, <3>9, SingleReadable DEF Texts
    <3> QED
      BY <3>10 DEF d
  <2> HIDE DEF n, k
  <2>11. \A x \in Names : ~Carried(r, x) => r[x] = New[x]
    BY <1>1, <2>9
  <2>12. ASSUME NEW x \in Names, Carried(r, x), x = "mothership_mmsi" => n < Thirty
         PROVE  r[x] = bits[x]
    <3>1. Carried(bits, x)
      BY <2>9, <2>12
    <3>2. CASE x = "mothership_mmsi"
      <4>1. is_auxiliary(k) /\ k = n
        BY <2>4, <2>5, <2>12, <3>1, <3>2 DEF k
      <4>2. Carried(m, x)
        BY <2>5, <2>6, <3>2, <4>1 DEF n
      <4> QED
        BY <1>1, <3>1, <4>2
    <3>3. CASE x \in Dimensions
      <4>1. ~is_auxiliary(k)
        BY <2>5, <3>1, <3>3 DEF k
      <4>2. ~is_auxiliary(n)
        BY <2>8, <4>1
      <4>3. Carried(m, x)
        BY <2>5, <2>6, <3>3, <4>2 DEF n
      <4> QED
        BY <1>1, <3>1, <4>3
    <3>4. CASE x # "mothership_mmsi" /\ x \notin Dimensions
      <4>1. Carried(m, x)
        BY <2>5, <3>4
      <4> QED
        BY <1>1, <3>1, <4>1
    <3> QED
      BY <3>2, <3>3, <3>4
  <2>13. ASSUME NEW x \in Names PROVE r[x] \in Readable(Named[x])
    <3>1. CASE ~Carried(r, x)
      BY <1>4, <2>11, <3>1
    <3>2. CASE Carried(r, x) /\ (x = "mothership_mmsi" => n < Thirty)
      BY <1>4, <2>12, <3>2
    <3>3. CASE Carried(r, x) /\ x = "mothership_mmsi"
      <4>1. r[x] = bits[x] \/ r[x] = <<MadeOfDimension(bits)>>
        BY <1>1, <2>9, <3>3
      <4> QED
        BY <1>4, <2>10, <3>3, <4>1
    <3> QED
      BY <3>1, <3>2, <3>3
  <2>14. ASSUME NEW x \in Names
         PROVE  /\ r[x] \in Readable(Named[x])
                /\ ~Carried(r, x) => r[x] = New[x]
                /\ /\ Carried(r, x)
                   /\ type = "message_24_B" /\ x = "mothership_mmsi" => n < Thirty
                   => r[x] = Bits(Named[x], m[x])
    <3>1. Carried(r, x) /\ (x = "mothership_mmsi" => n < Thirty) => r[x] = Bits(Named[x], m[x])
      BY <1>2, <2>12
    <3> QED
      BY <1>7, <2>11, <2>13, <3>1
  <2>15. DOMAIN r = Names /\ \A x \in Names :
              /\ r[x] \in Readable(Named[x])
              /\ ~Carried(r, x) => r[x] = New[x]
              /\ /\ Carried(r, x)
                 /\ type = "message_24_B" /\ x = "mothership_mmsi" => n < Thirty
                 => r[x] = Bits(Named[x], m[x])
    BY <1>5, <2>14
  <2> QED
    BY <2>15, Zenon DEF r, n
<1> QED
  BY <1>6, <1>7

-----------------------------------------------------------------------------
\* A copy has of each value something that its setter may store.
LEMMA CopiesAre ==
  ASSUME NEW r \in Copies, \A x \in Names : Copied(x) # {}
  PROVE  DOMAIN r = Names /\ \A x \in Names : r[x] \in Copied(x)
<1> DEFINE inexact == {x \in Names : Cardinality(Copied(x)) > 1}
<1>1. PICK f \in [inexact -> UNION {Copied(x) : x \in inexact}] :
        /\ \A x \in inexact : f[x] \in Copied(x)
        /\ r = [x \in Names |-> IF x \in inexact THEN f[x] ELSE CHOOSE n \in Copied(x) : TRUE]
  BY DEF Copies
<1> HIDE DEF inexact
<1>2. DOMAIN r = Names
  BY <1>1
<1>3. ASSUME NEW x \in Names PROVE r[x] \in Copied(x)
  <2>1. CASE x \in inexact
    BY <1>1, <2>1
  <2>2. CASE x \notin inexact
    <3>1. r[x] = CHOOSE n \in Copied(x) : TRUE
      BY <1>1, <2>2
    <3> QED
      BY <3>1
  <2> QED
    BY <2>1, <2>2
<1> QED
  BY <1>2, <1>3

\* What a setter stores of what the getter returned.
LEMMA CopiedIs ==
  ASSUME type \in Types, \A x \in Names : raw[x] \in Readable(Named[x]), NEW x \in Names
  PROVE  Copied(x) # {} /\ Copied(x) \subseteq Storable(Named[x])
<1>1. CASE WriterOf[x] = 0
  <2>1. New[x] \in Readable(Named[x]) /\ WellFormed(Named[x])
    BY OfNames, OfValues, ZenonT(60) DEF WellFormed
  <2>2. New[x] \in Storable(Named[x])
    BY <2>1, ReadableStorable
  <2> QED
    BY <1>1, <2>2 DEF Copied
<1>2. CASE WriterOf[x] # 0
  <2> DEFINE value == Listed[WriterOf[x]]
  <2>1. value \in Values /\ value.into = x
    BY <1>2, OfWriters
  <2>2. Copied(x) = Stored(value, Get(value, raw))
    BY <1>2 DEF Copied
  <2> HIDE DEF value
  <2>3. WellFormed(value) /\ value.into # NoSetter
    <3>1. Named[x].name = x /\ Named[x] \in Values
      BY OfNames
    <3>2. Named[x].name # NoSetter
      BY <3>1, OfValues
    <3> QED
      BY <2>1, <3>1, <3>2, OfValues
  <2>4. Get(value, raw) \in Acceptable(value) \cup {Nothing} /\ (Get(value, raw) = Nothing => value.missing # <<>>)
    <3> DEFINE n == raw[value.name]
    <3>1. n \in Readable(value)
      BY <2>1, GetIs
    <3>2. Get(value, raw) = Told(value, value.checked = value.name /\ IsMissing(value, n), n)
      BY <2>1, GetIs
    <3> HIDE DEF n
    <3>3. CASE value.checked = value.name /\ IsMissing(value, n)
      <4>1. value.missing # <<>>
        BY <3>3 DEF IsMissing
      <4>2. Get(value, raw) = Told(value, TRUE, n)
        BY <3>2, <3>3 DEF Told
      <4>3. Told(value, TRUE, n) \in Acceptable(value) \cup {Nothing}
        BY <2>3, <3>1, <4>1, ToldAcceptable
      <4> QED
        BY <4>1, <4>2, <4>3
    <3>4. CASE ~(value.checked = value.name /\ IsMissing(value, n))
      <4>1. Get(value, raw) = Told(value, FALSE, n)
        BY <3>2, <3>4 DEF Told
      <4>2. /\ Told(value, FALSE, n) \in Acceptable(value) \cup {Nothing}
            /\ Told(value, FALSE, n) = Nothing => value.missing # <<>>
        BY <2>3, <3>1, ToldAcceptable
      <4> QED
        BY <4>1, <4>2
    <3> QED
      BY <3>3, <3>4
  <2>5. Stored(value, Get(value, raw)) # {} /\ Stored(value, Get(value, raw)) \subseteq Storable(value)
    BY <2>3, <2>4, StoredStorable
  <2>6. Storable(value) \subseteq Storable(Named[x])
    BY <2>1, <2>3, IntoStorable
  <2> QED
    BY <2>2, <2>5, <2>6
<1> QED
  BY <1>1, <1>2

\* The identity in part B of message_24 has a setter of its own, which stores it
\* as it is.
LEMMA VesselIs ==
  ASSUME type \in Types, type = "message_24_B", NEW vessel, vessel = Named["mmsi"]
  PROVE  /\ vessel \in Values /\ vessel.name = "mmsi" /\ vessel.into = "mmsi" /\ vessel.kind = "mmsi"
         /\ WellFormed(vessel)
         /\ "mmsi" \in Names /\ \A x \in Names : Named[x].into = "mmsi" <=> x = "mmsi"
         /\ vessel.missing = <<>> /\ vessel.read = 0
         /\ \A v \in [{1} -> Nat] : Stored(vessel, v) = {v}
<1>1. PartB(Named)
  BY PartBAssumption DEF Named
<1>2. /\ "mmsi" \in Names /\ vessel.kind = "mmsi" /\ vessel.most = NoLimit
      /\ \A x \in Names : Named[x].into = "mmsi" <=> x = "mmsi"
  BY <1>1 DEF PartB, Names
<1>3. vessel \in Values /\ vessel.name = "mmsi" /\ vessel.into = "mmsi"
  BY <1>2, OfNames
<1>4. WellFormed(vessel) /\ ~HasLimit(vessel) /\ vessel.kind \notin {"angle", "unit", "ceiling", "double"}
  BY <1>2, <1>3, OfValues DEF HasLimit
<1>5. vessel.missing = <<>> /\ vessel.write = 0 /\ vessel.read = 0 /\ vessel.valid = NoLimit
  BY <1>2, <1>4 DEF WellFormed
<1>6. ASSUME NEW v \in [{1} -> Nat] PROVE Stored(vessel, v) = {v}
  <2>1. v \in Acceptable(vessel) /\ v[1] \in Int /\ v = <<v[1]>>
    BY <1>2, <1>4, SingleAcceptable, OneIs
  <2>2. ~TooMuch(vessel, v)
    BY <1>5 DEF TooMuch
  <2>3. Converted(vessel, v[1] + vessel.write) = {v[1]}
    BY <1>4, <1>5, <2>1, ConvertedIs
  <2>4. Limited(vessel, v[1]) = v[1]
    BY <1>4 DEF Limited
  <2>5. Stored(vessel, v) = {<<Limited(vessel, n)>> : n \in Converted(vessel, v[1] + vessel.write)}
    BY <1>4, <2>1, <2>2, SingleStored
  <2> QED
    BY <2>1, <2>3, <2>4, <2>5
<1> QED
  BY <1>2, <1>3, <1>4, <1>5, <1>6

\* ... and so it is copied.
LEMMA VesselCopied ==
  ASSUME type \in Types, type = "message_24_B", \A x \in Names : raw[x] \in Readable(Named[x])
  PROVE  Copied("mmsi") = {raw["mmsi"]}
<1> DEFINE vessel == Named["mmsi"]
           n == raw["mmsi"]
<1>1. /\ vessel \in Values /\ vessel.name = "mmsi" /\ vessel.into = "mmsi" /\ vessel.kind = "mmsi"
      /\ WellFormed(vessel) /\ "mmsi" \in Names /\ vessel.missing = <<>> /\ vessel.read = 0
      /\ \A v \in [{1} -> Nat] : Stored(vessel, v) = {v}
  BY VesselIs
<1>2. Copied("mmsi") = Stored(vessel, Get(vessel, raw))
  <2>1. WriterOf["mmsi"] # 0
    BY <1>1, OfWriters
  <2>2. Listed[WriterOf["mmsi"]] \in Values /\ Listed[WriterOf["mmsi"]].into = "mmsi"
    BY <1>1, <2>1, OfWriters
  <2>3. Listed[WriterOf["mmsi"]].name = "mmsi"
    <3>1. Listed[WriterOf["mmsi"]].name \in Names
      BY <2>2, OfValues
    <3>2. Named[Listed[WriterOf["mmsi"]].name].into = "mmsi"
      BY <2>2, OfValues
    <3> QED
      BY <3>1, <3>2, VesselIs
  <2>4. Listed[WriterOf["mmsi"]] = vessel
    BY <2>2, <2>3, OfValues
  <2> QED
    BY <2>1, <2>4 DEF Copied
<1>3. /\ n \in Readable(vessel)
      /\ Get(vessel, raw) = Told(vessel, vessel.checked = vessel.name /\ IsMissing(vessel, n), n)
  BY <1>1, GetIs
<1> HIDE DEF vessel, n
<1>4. ~IsMissing(vessel, n)
  BY <1>1 DEF IsMissing
<1>5. Get(vessel, raw) = Told(vessel, FALSE, n)
  BY <1>3, <1>4 DEF Told
<1>6. /\ Told(vessel, FALSE, n) \in [{1} -> Int] /\ Told(vessel, FALSE, n)[1] = n[1] + vessel.read
      /\ n[1] \in Nat /\ n = <<n[1]>> /\ n \in [{1} -> Nat]
  BY <1>1, <1>3, SingleTold
<1>7. n[1] + 0 = n[1]
  BY <1>6
<1>8. Told(vessel, FALSE, n) = n
  <2>1. Told(vessel, FALSE, n) = <<Told(vessel, FALSE, n)[1]>>
    BY <1>6, OneIs
  <2>2. Told(vessel, FALSE, n)[1] = n[1]
    BY <1>1, <1>6, <1>7
  <2> QED
    BY <1>6, <2>1, <2>2
<1> QED
  BY <1>1, <1>2, <1>5, <1>6, <1>8 DEF n

-----------------------------------------------------------------------------
\* While the object is of the same type.
LEMMA SameType ==
  ASSUME type' = type
  PROVE  /\ Names' = Names /\ Named' = Named /\ New' = New /\ Values' = Values
         /\ Listed' = Listed /\ WriterOf' = WriterOf
BY DEF Names, Named, New, Values, Listed, WriterOf

\* ... the same values are direct.
LEMMA SameDirect ==
  ASSUME type' = type, NEW value
  PROVE  Direct(value)' <=> Direct(value)
BY SameType DEF Direct

\* What an application sets is a value its setter takes.
LEMMA InputsFit ==
  ASSUME type \in Types, NEW value \in Values
  PROVE  Wanted(value) \subseteq Settable(value) /\ Foreign(value) \subseteq Readable(value)
BY Table, InputsAssumption DEF Values

\* What a new object has fits.
LEMMA NewFits ==
  ASSUME type \in Types, NEW x \in Names
  PROVE  /\ WellFormed(Named[x]) /\ New[x] \in Readable(Named[x]) /\ New[x] \in Storable(Named[x])
         /\ DOMAIN New = Names
<1>1. WellFormed(Named[x]) /\ New[x] = Initial(Named[x])
  BY OfNames, OfValues
<1>2. New[x] \in Readable(Named[x])
  BY <1>1 DEF WellFormed
<1>3. New[x] \in Storable(Named[x])
  BY <1>1, <1>2, ReadableStorable
<1> QED
  BY <1>1, <1>2, <1>3, Table

\* The invariant holds of a new object.
LEMMA InitIInv == Init => IInv
<1> SUFFICES ASSUME Init PROVE IInv
  OBVIOUS
<1>1. /\ type \in Types /\ raw = New /\ wanted = <<>> /\ arrived = FALSE /\ first = <<>> /\ relays = 0
  BY DEF Init
<1>2. DOMAIN wanted = {}
  BY <1>1
<1>3. DOMAIN New = Names /\ \A x \in Names : New[x] \in Storable(Named[x])
  <2>1. DOMAIN New = Names
    BY <1>1, Table
  <2> QED
    BY <1>1, <2>1, NewFits
<1>4. VariablesFit
  <2>1. 0 \in 0..MaxRelays
    BY BoundsAssumption
  <2>2. arrived \in BOOLEAN /\ ~arrived
    BY <1>1
  <2>3. \A x \in Names : raw[x] \in IF arrived THEN Readable(Named[x]) ELSE Storable(Named[x])
    BY <1>1, <1>3, <2>2, Zenon
  <2> QED
    BY <1>1, <1>3, <2>1, <2>2, <2>3 DEF VariablesFit
<1>5. WantedFit
  BY <1>2 DEF WantedFit
<1>6. FirstFits
  BY <1>1 DEF FirstFits
<1>7. AsSet
  BY <1>1, <1>2 DEF AsSet
<1> QED
  BY <1>1, <1>4, <1>5, <1>6, <1>7 DEF IInv, SameVessel

\* A setter keeps the invariant: the member that it assigns has what it stored.
LEMMA SetIInv ==
  ASSUME IInv, NEW value \in Values, NEW v \in Wanted(value) \cup {Nothing}, Set(value, v)
  PROVE  IInv'
<1>1. VariablesFit /\ WantedFit /\ FirstFits
  BY DEF IInv
<1>2. /\ first = <<>> /\ ~arrived /\ relays = 0 /\ type \in Types
      /\ value.name \notin DOMAIN wanted /\ value.into # NoSetter
      /\ v = Nothing => ~AlwaysAvailable(value)
      /\ ~SetterThrows(value, v)
      /\ wanted' = [x \in DOMAIN wanted \cup {value.name} |-> IF x = value.name THEN v ELSE wanted[x]]
      /\ type' = type /\ arrived' = arrived /\ first' = first /\ relays' = relays
  BY <1>1 DEF Set, FirstFits, VariablesFit
<1>3. PICK n \in Stored(value, v) : raw' = [raw EXCEPT ![value.into] = n]
  BY DEF Set
<1>4. AsSet
  BY <1>2 DEF IInv
<1>5. /\ Names' = Names /\ Named' = Named /\ New' = New /\ Values' = Values
  BY <1>2, SameType
<1>6. WellFormed(value) /\ value.name \in Names /\ Named[value.name] = value
  BY <1>2, OfValues
<1>7. v \in Settable(value) \cup {Nothing}
  BY <1>2, InputsFit
<1>8. value.into \in Names /\ n \in Storable(Named[value.into])
  <2>1. v = Nothing => value.missing # <<>>
    BY <1>2 DEF AlwaysAvailable
  <2>2. v \in Acceptable(value) \cup {Nothing}
    BY <1>7, SettableAcceptable
  <2>3. n \in Storable(value)
    BY <1>6, <2>1, <2>2, StoredStorable
  <2> QED
    BY <1>2, <2>3, IntoStorable
<1>9. /\ DOMAIN raw = Names /\ DOMAIN raw' = Names
      /\ raw'[value.into] = n /\ \A x \in Names : x # value.into => raw'[x] = raw[x]
  BY <1>1, <1>3, <1>8 DEF VariablesFit
<1>10. VariablesFit'
  <2>1. \A x \in Names : raw[x] \in Storable(Named[x])
    BY <1>1, <1>2 DEF VariablesFit
  <2>2. \A x \in Names : raw'[x] \in Storable(Named[x])
    BY <1>8, <1>9, <2>1
  <2> QED
    BY <1>1, <1>2, <1>5, <1>9, <2>2 DEF VariablesFit
<1>11. DOMAIN wanted' = DOMAIN wanted \cup {value.name} /\ wanted'[value.name] = v
       /\ \A x \in DOMAIN wanted : x # value.name /\ wanted'[x] = wanted[x]
  BY <1>2
<1>12. WantedFit'
  <2>1. DOMAIN wanted' \subseteq Names
    BY <1>1, <1>6, <1>11 DEF WantedFit
  <2>2. ASSUME NEW x \in DOMAIN wanted'
        PROVE  /\ wanted'[x] \in Settable(Named[x]) \cup {Nothing}
               /\ wanted'[x] = Nothing => ~AlwaysAvailable(Named[x])
               /\ ~SetterThrows(Named[x], wanted'[x])
    <3>1. CASE x = value.name
      BY <1>2, <1>6, <1>7, <1>11, <3>1
    <3>2. CASE x \in DOMAIN wanted
      BY <1>1, <1>11, <3>2 DEF WantedFit
    <3> QED
      BY <1>11, <3>1, <3>2
  <2> QED
    BY <1>5, <2>1, <2>2 DEF WantedFit
<1>13. AsSet'
  <2>1. ASSUME NEW x \in Names, \A y \in DOMAIN wanted' : Named[y].into # x PROVE raw'[x] = New[x]
    <3>1. value.into # x
      BY <1>6, <1>11, <2>1
    <3>2. raw[x] = New[x]
      BY <1>4, <1>11, <2>1 DEF AsSet
    <3> QED
      BY <1>9, <3>1, <3>2
  <2>2. ASSUME NEW x \in Names, x \in DOMAIN wanted', \A y \in DOMAIN wanted' : Named[y].into = x <=> y = x
        PROVE  raw'[x] \in Stored(Named[x], wanted'[x])
    <3>1. CASE x = value.name
      <4>1. value.into = x
        BY <1>6, <1>11, <2>2, <3>1
      <4> QED
        BY <1>6, <1>9, <1>11, <3>1, <4>1
    <3>2. CASE x # value.name
      <4>1. x \in DOMAIN wanted
        BY <1>11, <2>2, <3>2
      <4>2. value.into # x
        BY <1>6, <1>11, <2>2, <3>2
      <4>3. \A y \in DOMAIN wanted : Named[y].into = x <=> y = x
        BY <1>11, <2>2
      <4>4. raw[x] \in Stored(Named[x], wanted[x])
        BY <1>4, <4>1, <4>3 DEF AsSet
      <4> QED
        BY <1>9, <1>11, <4>1, <4>2, <4>4
    <3> QED
      BY <3>1, <3>2
  <2> QED
    BY <1>5, <2>1, <2>2 DEF AsSet
<1>14. FirstFits'
  BY <1>1, <1>2 DEF FirstFits
<1> QED
  BY <1>2, <1>10, <1>12, <1>13, <1>14 DEF IInv, SameVessel

-----------------------------------------------------------------------------
\* What another device sends keeps the invariant: nothing of it was set.
LEMMA ForeignIInv ==
  ASSUME IInv, NEW value \in Values, ReceiveForeign(value)
  PROVE  IInv'
<1>1. VariablesFit /\ WantedFit /\ FirstFits
  BY DEF IInv
<1>2. /\ raw = New /\ wanted = <<>> /\ first = <<>> /\ ~arrived /\ relays = 0 /\ type \in Types
      /\ Carried(raw', value.name) /\ arrived' = TRUE /\ first' = raw'
      /\ type' = type /\ wanted' = wanted /\ relays' = relays
  BY <1>1 DEF ReceiveForeign, FirstFits, VariablesFit
<1>3. PICK n \in Foreign(value) : raw' = [raw EXCEPT ![value.name] = n]
  BY DEF ReceiveForeign
<1>4. /\ Names' = Names /\ Named' = Named /\ New' = New /\ Values' = Values
  BY <1>2, SameType
<1>5. value.name \in Names /\ Named[value.name] = value /\ n \in Readable(value)
  BY <1>2, OfValues, InputsFit
<1>6. /\ DOMAIN raw' = Names /\ raw'[value.name] = n
      /\ \A x \in Names : x # value.name => raw'[x] = New[x]
  BY <1>1, <1>2, <1>3, <1>5 DEF VariablesFit
<1>7. ASSUME NEW x \in Names
      PROVE  raw'[x] \in Readable(Named[x]) /\ (~Carried(raw', x) => raw'[x] = New[x])
  BY <1>2, <1>5, <1>6, NewFits
<1>8. VariablesFit'
  <2>1. \A x \in Names : raw'[x] \in IF arrived' THEN Readable(Named[x]) ELSE Storable(Named[x])
    BY <1>2, <1>7, Zenon
  <2> QED
    BY <1>1, <1>2, <1>4, <1>6, <2>1 DEF VariablesFit
<1>9. WantedFit'
  BY <1>1, <1>2, <1>4 DEF WantedFit
<1>10. raw' # <<>>
  <2>1. Names # {}
    BY <1>2, NamesFinite
  <2> QED
    BY <1>6, <2>1
<1>11. FirstFits'
  <2>1. \A x \in Names : first'[x] \in Readable(Named[x]) /\ (~Carried(first, x)' => first'[x] = New[x])
    <3>1. \A x : Carried(first, x)' <=> Carried(raw', x)
      BY <1>2 DEF Carried
    <3> QED
      BY <1>2, <1>7, <3>1
  <2>2. DOMAIN first' = Names /\ first' # <<>> /\ arrived'
    BY <1>2, <1>6, <1>10
  <2> QED
    BY <1>4, <2>1, <2>2 DEF FirstFits
<1>12. SentArrives'
  BY <1>2 DEF SentArrives
<1> QED
  BY <1>2, <1>8, <1>9, <1>11, <1>12 DEF IInv, SameVessel

\* What the getter returns of what has arrived depends on the member of the value
\* alone.
LEMMA GotSame ==
  ASSUME type \in Types, NEW value \in Values, NEW m, NEW k,
         \A x \in Names : m[x] \in Readable(Named[x]), \A x \in Names : k[x] \in Readable(Named[x]),
         m[value.name] = k[value.name]
  PROVE  Get(value, m) = Get(value, k)
BY GetIs

\* The members before the first transmission, of a value that has not been set:
\* those of a new object.
LEMMA Untouched ==
  ASSUME IInv, relays = 0, ~arrived, NEW value \in Values \ Mistaken, value.name \notin DOMAIN wanted
  PROVE  raw[value.name] = New[value.name]
<1>1. type \in Types /\ AsSet
  BY DEF IInv, VariablesFit
<1>2. value.into = value.name /\ ~Overwritten(value)
  BY DEF Mistaken
<1>3. \A y \in DOMAIN wanted : y # value.name => Named[y].into # value.name
  BY <1>2 DEF Overwritten
<1>4. \A y \in DOMAIN wanted : Named[y].into # value.name
  BY <1>3
<1>5. value.name \in Names
  BY <1>1, OfValues
<1> QED
  BY <1>1, <1>4, <1>5 DEF AsSet

\* ... and of one that has been set: what its setter stored.
LEMMA Touched ==
  ASSUME IInv, relays = 0, ~arrived, NEW value \in Values \ Mistaken, value.name \in DOMAIN wanted
  PROVE  raw[value.name] \in Stored(value, wanted[value.name])
<1>1. type \in Types /\ AsSet
  BY DEF IInv, VariablesFit
<1>2. value.into = value.name /\ ~Overwritten(value)
  BY DEF Mistaken
<1>3. Named[value.name] = value /\ value.name \in Names
  BY <1>1, OfValues
<1>4. \A y \in DOMAIN wanted : Named[y].into = value.name <=> y = value.name
  BY <1>2, <1>3 DEF Overwritten
<1> QED
  BY <1>1, <1>3, <1>4 DEF AsSet

\* The identity in part B of message_24 has no more than 30 bits, unless that is
\* why the mothership is not what was set.
LEMMA VesselFits ==
  ASSUME IInv, relays = 0, ~arrived, type = "message_24_B",
         NEW value \in Values \ Mistaken, value.name = "mothership_mmsi"
  PROVE  raw["mmsi"][1] < Thirty
<1>1. /\ type \in Types /\ AsSet /\ WantedFit /\ DOMAIN raw = Names
      /\ \A x \in Names : raw[x] \in Storable(Named[x])
  BY DEF IInv, VariablesFit
<1> DEFINE vessel == Named["mmsi"]
<1>3. /\ WellFormed(vessel) /\ vessel.kind = "mmsi" /\ vessel.missing = <<>>
      /\ "mmsi" \in Names /\ \A x \in Names : Named[x].into = "mmsi" <=> x = "mmsi"
      /\ \A v \in [{1} -> Nat] : Stored(vessel, v) = {v}
  BY <1>1, VesselIs
<1>4. New["mmsi"] \in Readable(vessel)
  BY <1>1, <1>3, NewFits
<1> HIDE DEF vessel
<1>5. CASE "mmsi" \notin DOMAIN wanted
  <2>1. \A y \in DOMAIN wanted : Named[y].into # "mmsi"
    BY <1>1, <1>3, <1>5 DEF WantedFit
  <2>2. raw["mmsi"] = New["mmsi"]
    BY <1>1, <1>3, <2>1 DEF AsSet
  <2>3. New["mmsi"] \in Storable(vessel) /\ Bits(vessel, New["mmsi"]) = New["mmsi"]
    BY <1>3, <1>4, BitsReadable, ReadableStorable
  <2>4. New["mmsi"][1] < Thirty
    BY <1>3, <2>3, IdentityBits
  <2> QED
    BY <2>2, <2>4
<1>6. CASE "mmsi" \in DOMAIN wanted
  <2> DEFINE v == wanted["mmsi"]
  <2>1. v[1] < 2^30 \/ ~(v[1] \in Nat)
    <3>1. ~(v[1] >= 2^30)
      BY <1>6 DEF Mistaken
    <3> QED
      BY <3>1
  <2>2. v \in Settable(vessel) \cup {Nothing} /\ (v = Nothing => ~AlwaysAvailable(vessel))
    BY <1>1, <1>6 DEF WantedFit, vessel
  <2>3. \A y \in DOMAIN wanted : Named[y].into = "mmsi" <=> y = "mmsi"
    BY <1>1, <1>3 DEF WantedFit
  <2>4. raw["mmsi"] \in Stored(vessel, v)
    BY <1>1, <1>3, <1>6, <2>3 DEF AsSet, vessel
  <2> HIDE DEF v
  <2>5. v \in Acceptable(vessel)
    BY <1>3, <2>2, SettableAcceptable DEF AlwaysAvailable
  <2>6. v \in [{1} -> Nat] /\ v[1] \in Nat
    BY <1>3, <2>5, SingleAcceptable, OneIs
  <2>7. 2^30 = Thirty
    BY DEF Thirty
  <2> QED
    BY <1>3, <2>1, <2>4, <2>6, <2>7
<1> QED
  BY <1>5, <1>6

-----------------------------------------------------------------------------
\* What the receiver gets of a value for which there was no mistake.
SentWell(value, m) ==
  LET got == Get(value, m)
  IN IF value.name \notin DOMAIN wanted \/ ~Carried(m, value.name)
       THEN got = Get(value, New)
     ELSE LET v == wanted[value.name]
          IN IF v = Nothing THEN got = value.gives
             ELSE Fits(value, v) => Arrives(value, v, got) /\ ~GetterThrows(value, m)

\* The first transmission delivers each of these.
LEMMA Received ==
  ASSUME IInv, relays = 0, ~arrived, NEW value \in Values \ Mistaken
  PROVE  SentWell(value, Constructed(raw))
<1> DEFINE r == Constructed(raw)
           x == value.name
<1>1. /\ type \in Types /\ WantedFit /\ DOMAIN raw = Names
      /\ \A y \in Names : raw[y] \in Storable(Named[y])
  BY DEF IInv, VariablesFit
<1>2. value \in Values /\ x \in Names /\ Named[x] = value /\ WellFormed(value)
  BY <1>1, OfValues
<1>3. /\ \A y \in Names : r[y] \in Readable(Named[y])
      /\ ~Carried(r, x) => r[x] = New[x]
      /\ Carried(r, x) => r[x] = Bits(value, raw[x])
  <2>1. type = "message_24_B" /\ x = "mothership_mmsi" => raw["mmsi"][1] < Thirty
    BY VesselFits
  <2>2. \A y \in Names :
              /\ r[y] \in Readable(Named[y])
              /\ ~Carried(r, y) => r[y] = New[y]
              /\ /\ Carried(r, y)
                 /\ type = "message_24_B" /\ y = "mothership_mmsi" => raw["mmsi"][1] < Thirty
                 => r[y] = Bits(Named[y], raw[y])
    BY <1>1, ConstructedIs
  <2> HIDE DEF r
  <2> QED
    BY <1>2, <2>1, <2>2
<1>4. \A y \in Names : New[y] \in Readable(Named[y])
  BY <1>1, NewFits
<1>5. /\ value.into = x /\ value.kind # "padded" /\ ~(type = "binary_001_11" /\ x \in Moved)
      /\ ~(value.checked # x /\ x \in DOMAIN wanted /\ wanted[x] = Nothing)
  BY DEF Mistaken
<1>6. value.read + value.write = 0
  <2>1. value \in ToSet(Contents[type])
    BY <1>1, Table DEF Values
  <2> QED
    BY <1>1, <1>5, <2>1, OffsetsAssumption
<1> HIDE DEF r
<1>7. ASSUME r[x] = New[x] PROVE Get(value, r) = Get(value, New)
  BY <1>1, <1>2, <1>3, <1>4, <1>7, GotSame
<1>8. CASE ~Carried(r, x)
  <2>1. Get(value, r) = Get(value, New)
    BY <1>3, <1>7, <1>8
  <2> QED
    BY <1>8, <2>1 DEF SentWell, r
<1>9. CASE Carried(r, x) /\ x \notin DOMAIN wanted
  <2>1. raw[x] = New[x]
    BY <1>9, Untouched
  <2>2. Bits(value, New[x]) = New[x]
    BY <1>2, <1>4, <1>5, ReadableStorable, BitsReadable
  <2>3. Get(value, r) = Get(value, New)
    BY <1>3, <1>7, <1>9, <2>1, <2>2
  <2> QED
    BY <1>9, <2>3 DEF SentWell, r
<1>10. CASE Carried(r, x) /\ x \in DOMAIN wanted
  <2> DEFINE v == wanted[x]
             q == raw[x]
             n == Bits(value, q)
  <2>1. q \in Stored(value, v)
    BY <1>10, Touched
  <2>2. r[x] = n
    BY <1>3, <1>10
  <2>3. /\ v \in Settable(value) \cup {Nothing} /\ ~SetterThrows(value, v)
        /\ v = Nothing => ~AlwaysAvailable(value)
    BY <1>1, <1>2, <1>10 DEF WantedFit
  <2>4. /\ Get(value, r) = Told(value, value.checked = x /\ IsMissing(value, r[x]), r[x])
        /\ GetterThrows(value, r) <=> Throws(value, Get(value, r))
        /\ value.checked # x => value.kind = "unit"
    BY <1>1, <1>2, <1>3, GetIs
  <2> HIDE DEF v, q, n
  <2>5. CASE v = Nothing
    <3>1. q = value.missing /\ value.missing # <<>>
      BY <2>1, <2>3, <2>5 DEF Stored, AlwaysAvailable
    <3>2. value.missing \in Readable(value)
      BY <1>2, <3>1 DEF WellFormed, Initial
    <3>3. n = value.missing
      BY <1>2, <1>5, <3>1, <3>2, ReadableStorable, BitsReadable DEF n
    <3>4. value.checked = x
      BY <1>5, <1>10, <2>5 DEF v
    <3>5. IsMissing(value, value.missing)
      <4>1. 1 \in DOMAIN value.missing
        BY <1>2, <3>2, Shape DEF Readable
      <4> QED
        BY <3>1, <4>1 DEF IsMissing
    <3>6. Get(value, r) = value.gives
      BY <2>2, <2>4, <3>3, <3>4, <3>5 DEF Told
    <3> QED
      BY <1>10, <2>5, <3>6 DEF SentWell, v, r
  <2>6. CASE v # Nothing
    <3>1. v \in Settable(value)
      BY <2>3, <2>6
    <3>2. ASSUME Fits(value, v) PROVE Arrives(value, v, Get(value, r)) /\ ~GetterThrows(value, r)
      <4>1. LET got == Told(value, value.checked = value.name /\ IsMissing(value, n), n)
            IN Arrives(value, v, got) /\ ~Throws(value, got)
        BY <1>2, <1>5, <1>6, <2>1, <2>3, <2>4, <3>1, <3>2, Sent DEF n
      <4> QED
        BY <2>2, <2>4, <4>1
    <3> QED
      BY <1>10, <2>6, <3>2 DEF SentWell, v, r
  <2> QED
    BY <2>5, <2>6
<1> QED
  BY <1>8, <1>9, <1>10

-----------------------------------------------------------------------------
\* A value that is direct.
LEMMA DirectIs ==
  ASSUME type \in Types, NEW value \in Values, Direct(value)
  PROVE  /\ WellFormed(value) /\ value.kind # "padded" /\ value.read + value.write = 0
         /\ value.checked # value.name => value.kind = "unit"
         /\ value.name \in Names /\ Named[value.name] = value
<1>1. WellFormed(value) /\ value.name \in Names /\ Named[value.name] = value
  BY OfValues
<1>2. value.checked # value.name => value.kind = "unit"
  BY Table DEF Consistent, Values
<1> QED
  BY <1>1, <1>2 DEF Direct

\* What only the other part of the message can carry stays as in a new object.
LEMMA NewKept ==
  ASSUME type \in Types, NEW value \in Values, Direct(value),
         NEW m, ~Carried(m, value.name)
  PROVE  Kept(value, New[value.name], New[value.name])
<1> DEFINE n == New[value.name]
<1>1. /\ WellFormed(value) /\ value.name \in Names /\ Named[value.name] = value
      /\ n = Initial(value) /\ n \in Readable(value)
  BY DirectIs, OfValues, NewFits
<1>2. type = "message_24_B" /\ value.name \in Dimensions \cup {"mothership_mmsi"}
  BY DEF Carried
<1>3. PartB(Named)
  BY <1>2, PartBAssumption DEF Named
<1>4. value.kind \in {"unit", "mmsi"} /\ (value.kind = "unit" => value.checked = value.name)
  BY <1>1, <1>2, <1>3 DEF PartB
<1>5. value.checked = value.name
  BY <1>4, DirectIs
<1> HIDE DEF n
<1>6. n[1] \in Nat /\ n = <<n[1]>>
  BY <1>1, <1>4, SingleTold
<1>7. Final(value, n) = n
  <2>1. CASE value.missing # <<>>
    <3>1. n = value.missing /\ n \in [{1} -> Int]
      BY <1>1, <1>4, <2>1, SingleMissing DEF Initial
    <3>2. IsMissing(value, n)
      BY <1>1, <1>4, <2>1, <3>1, SingleMissing
    <3> QED
      BY <1>5, <3>2 DEF Final
  <2>2. CASE value.missing = <<>>
    <3>1. ~IsMissing(value, n) /\ ~TooMuch(value, <<n[1] + value.read>>)
      BY <1>1, <2>2 DEF IsMissing, TooMuch, WellFormed
    <3>2. n[1] = value.new
      BY <1>1, <2>2 DEF Initial
    <3>3. HasLimit(value) => value.most \in Nat /\ value.new <= value.most
      BY <1>1 DEF WellFormed
    <3>4. ~(HasLimit(value) /\ n[1] > value.most)
      BY <1>6, <3>2, <3>3
    <3> QED
      BY <3>1, <3>4 DEF Final
  <2> QED
    BY <2>1, <2>2
<1> QED
  BY <1>4, <1>7 DEF Kept, n

\* Transmission keeps the invariant.
LEMMA TransmitIInv ==
  ASSUME IInv, Transmit
  PROVE  IInv'
<1>1. VariablesFit /\ WantedFit /\ FirstFits /\ SameVessel
  BY DEF IInv
<1>2. /\ ~arrived /\ type \in Types /\ relays \in 0..MaxRelays
      /\ raw' = Constructed(raw) /\ arrived' = TRUE
      /\ first' = IF first = <<>> THEN raw' ELSE first
      /\ type' = type /\ wanted' = wanted /\ relays' = relays
      /\ DOMAIN raw = Names /\ \A x \in Names : raw[x] \in Storable(Named[x])
  BY <1>1 DEF Transmit, VariablesFit
<1>3. /\ Names' = Names /\ Named' = Named /\ New' = New /\ Values' = Values
      /\ Listed' = Listed /\ WriterOf' = WriterOf
  BY <1>2, SameType
<1>4. DOMAIN raw' = Names
  BY <1>2, ConstructedIs
<1>5. \A x \in Names :
         /\ raw'[x] \in Readable(Named[x])
         /\ ~Carried(raw', x) => raw'[x] = New[x]
         /\ /\ Carried(raw', x)
            /\ type = "message_24_B" /\ x = "mothership_mmsi" => raw["mmsi"][1] < Thirty
            => raw'[x] = Bits(Named[x], raw[x])
  BY <1>2, ConstructedIs, Zenon
<1>6. raw' # <<>>
  <2>1. Names # {}
    BY <1>2, NamesFinite
  <2> QED
    BY <1>4, <2>1
<1>7. VariablesFit'
  <2>1. \A x \in Names : raw'[x] \in IF arrived' THEN Readable(Named[x]) ELSE Storable(Named[x])
    BY <1>2, <1>5, Zenon
  <2> QED
    BY <1>2, <1>3, <1>4, <2>1 DEF VariablesFit
<1>8. WantedFit'
  BY <1>1, <1>2, <1>3 DEF WantedFit
<1>9. \A x : /\ first = <<>> => (Carried(first, x)' <=> Carried(raw', x))
             /\ first # <<>> => (Carried(first, x)' <=> Carried(first, x))
  BY <1>2 DEF Carried
<1>10. CASE first = <<>>
  <2>1. relays = 0 /\ first' = raw'
    BY <1>1, <1>2, <1>10 DEF FirstFits
  <2>2. FirstFits'
    <3>1. \A x \in Names : first'[x] \in Readable(Named[x]) /\ (~Carried(first, x)' => first'[x] = New[x])
      BY <1>5, <1>9, <1>10, <2>1
    <3> QED
      BY <1>2, <1>3, <1>4, <1>6, <2>1, <3>1 DEF FirstFits
  <2>3. SentArrives'
    <3>1. Mistaken' = Mistaken
      BY <1>2, <1>3 DEF Mistaken, Overwritten
    <3>2. \A value \in Values \ Mistaken : SentWell(value, raw')
      BY <1>2, <2>1, Received
    <3>3. \A x : Carried(raw, x)' <=> Carried(raw', x)
      BY <1>2 DEF Carried
    <3>4. ASSUME NEW value \in Values \ Mistaken
          PROVE  LET got == Get(value, raw')
                 IN IF value.name \notin DOMAIN wanted' \/ ~Carried(raw, value.name)'
                      THEN got = Get(value, New)
                    ELSE LET v == wanted'[value.name]
                         IN IF v = Nothing THEN got = value.gives
                            ELSE Fits(value, v) => Arrives(value, v, got) /\ ~GetterThrows(value, raw')
      BY <1>2, <3>2, <3>3 DEF SentWell
    <3> QED
      BY <1>3, <3>1, <3>4, Zenon DEF SentArrives
  <2> QED
    BY <1>2, <1>7, <1>8, <2>1, <2>2, <2>3 DEF IInv, SameVessel
<1>11. CASE first # <<>>
  <2>1. relays > 0 /\ first' = first
    BY <1>1, <1>2, <1>11 DEF FirstFits
  <2>2. FirstFits'
    <3>1. \A x : Carried(first, x)' <=> Carried(first, x)
      BY <1>9, <1>11
    <3> QED
      BY <1>1, <1>2, <1>3, <1>11, <2>1, <3>1 DEF FirstFits
  <2>3. type = "message_24_B" => raw["mmsi"] = first["mmsi"] /\ raw["mmsi"][1] < Thirty /\ raw'["mmsi"] = raw["mmsi"]
    <3> SUFFICES ASSUME type = "message_24_B"
                 PROVE  raw["mmsi"] = first["mmsi"] /\ raw["mmsi"][1] < Thirty /\ raw'["mmsi"] = raw["mmsi"]
      OBVIOUS
    <3> DEFINE vessel == Named["mmsi"]
    <3>1. "mmsi" \in Names /\ WellFormed(vessel) /\ vessel.kind = "mmsi"
      BY <1>2, VesselIs
    <3>2. raw["mmsi"] = first["mmsi"] /\ first["mmsi"] \in Readable(vessel)
      BY <1>1, <1>11, <2>1, <3>1 DEF SameVessel, FirstFits
    <3> HIDE DEF vessel
    <3>3. raw["mmsi"] \in Storable(vessel) /\ Bits(vessel, raw["mmsi"]) = raw["mmsi"]
      BY <3>1, <3>2, BitsReadable, ReadableStorable
    <3>4. raw["mmsi"][1] < Thirty
      BY <3>1, <3>3, IdentityBits
    <3>5. Carried(raw', "mmsi")
      BY DEF Carried, Dimensions
    <3>6. raw'["mmsi"] = Bits(vessel, raw["mmsi"])
      BY <1>5, <3>1, <3>4, <3>5 DEF vessel
    <3> QED
      BY <3>2, <3>3, <3>4, <3>6
  <2>4. \A x : Carried(raw', x) <=> Carried(first, x)
    BY <2>3 DEF Carried
  <2>5. KeptSince
    BY <2>1 DEF IInv
  <2>6. ASSUME NEW value \in Values, Direct(value)
        PROVE  Kept(value, first[value.name], raw'[value.name])
    <3>1. value.name \in Names /\ Named[value.name] = value
      BY <1>2, <2>6, DirectIs
    <3>2. CASE Carried(raw', value.name)
      <4>1. raw'[value.name] = Bits(value, raw[value.name])
        BY <1>5, <2>3, <3>1, <3>2
      <4>2. Kept(value, first[value.name], Bits(value, raw[value.name]))
        BY <1>2, <2>5, <2>6 DEF KeptSince
      <4> QED
        BY <4>1, <4>2
    <3>3. CASE ~Carried(raw', value.name)
      <4>1. raw'[value.name] = New[value.name] /\ first[value.name] = New[value.name]
        BY <1>1, <1>5, <1>11, <2>4, <3>1, <3>3 DEF FirstFits
      <4>2. Kept(value, New[value.name], New[value.name])
        BY <1>2, <2>6, <3>3, NewKept
      <4> QED
        BY <4>1, <4>2
    <3> QED
      BY <3>2, <3>3
  <2>7. KeptSince'
    <3>1. \A value : Direct(value)' <=> Direct(value)
      BY <1>2, SameDirect
    <3>2. \A value \in Values : Direct(value)' =>
            Kept(value, first'[value.name],
                 IF arrived' THEN raw'[value.name] ELSE Bits(value, raw'[value.name]))
      BY <1>2, <2>1, <2>6, <3>1, Zenon
    <3> QED
      BY <1>3, <3>2 DEF KeptSince
  <2>8. SameVessel'
    BY <1>2, <2>1, <2>3 DEF SameVessel
  <2> QED
    BY <1>2, <1>7, <1>8, <2>1, <2>2, <2>7, <2>8 DEF IInv
<1> QED
  BY <1>10, <1>11

-----------------------------------------------------------------------------
\* Sending on keeps the invariant.
LEMMA RelayIInv ==
  ASSUME IInv, Relay
  PROVE  IInv'
<1>1. VariablesFit /\ WantedFit /\ FirstFits /\ SameVessel
  BY DEF IInv
<1>2. /\ arrived /\ type \in Types /\ relays \in 0..MaxRelays
      /\ relays + Cardinality(DOMAIN wanted) < MaxRelays
      /\ \A value \in Values : ~GetterThrows(value, raw)
      /\ raw' \in Copies /\ arrived' = FALSE /\ relays' = relays + 1
      /\ type' = type /\ wanted' = wanted /\ first' = first
      /\ DOMAIN raw = Names
  BY <1>1 DEF Relay, VariablesFit
<1>3. /\ Names' = Names /\ Named' = Named /\ New' = New /\ Values' = Values
      /\ Listed' = Listed /\ WriterOf' = WriterOf
  BY <1>2, SameType
<1>4. \A x \in Names : raw[x] \in Readable(Named[x])
  BY <1>1, <1>2, Zenon DEF VariablesFit
<1>5. \A x \in Names : Copied(x) # {} /\ Copied(x) \subseteq Storable(Named[x])
  BY <1>2, <1>4, CopiedIs
<1>6. DOMAIN raw' = Names /\ \A x \in Names : raw'[x] \in Copied(x)
  BY <1>2, <1>5, CopiesAre
<1>7. relays' \in 0..MaxRelays /\ relays' > 0
  <2>1. IsFiniteSet(DOMAIN wanted)
    BY <1>1, <1>2, NamesFinite, FS_Subset DEF WantedFit
  <2>2. Cardinality(DOMAIN wanted) \in Nat
    BY <2>1, FS_CardinalityType
  <2> QED
    BY <1>2, <2>2, BoundsAssumption
<1>8. VariablesFit'
  <2>1. \A x \in Names : raw'[x] \in IF arrived' THEN Readable(Named[x]) ELSE Storable(Named[x])
    <3>1. ~arrived'
      BY <1>2
    <3>2. \A x \in Names : raw'[x] \in Storable(Named[x])
      BY <1>5, <1>6
    <3> QED
      BY <3>1, <3>2, Zenon
  <2> QED
    BY <1>2, <1>3, <1>6, <1>7, <2>1 DEF VariablesFit
<1>9. WantedFit'
  BY <1>1, <1>2, <1>3 DEF WantedFit
<1>10. first # <<>>
  BY <1>1, <1>2 DEF FirstFits
<1>11. FirstFits'
  <2>1. \A x : Carried(first, x)' <=> Carried(first, x)
    BY <1>2 DEF Carried
  <2>2. ~arrived' /\ ~(relays' = 0)
    BY <1>2, <1>7
  <2> QED
    BY <1>1, <1>2, <1>3, <1>10, <2>1, <2>2 DEF FirstFits
<1>12. ASSUME NEW value \in Values, Direct(value)
       PROVE  Kept(value, first[value.name], Bits(value, raw'[value.name]))
  <2> DEFINE n0 == first[value.name]
             n == raw[value.name]
             q == raw'[value.name]
  <2>1. /\ WellFormed(value) /\ value.kind # "padded" /\ value.read + value.write = 0
        /\ value.checked # value.name => value.kind = "unit"
        /\ value.name \in Names /\ Named[value.name] = value
    BY <1>2, <1>12, DirectIs
  <2>2. n0 \in Readable(value) /\ n \in Readable(value)
    BY <1>1, <1>4, <1>10, <2>1 DEF FirstFits
  <2>3. n = n0 \/ Kept(value, n0, n)
    <3>1. CASE relays = 0
      BY <1>2, <3>1 DEF IInv
    <3>2. CASE relays > 0
      <4>1. KeptSince
        BY <3>2 DEF IInv
      <4>2. Kept(value, n0, IF arrived THEN n ELSE Bits(value, n))
        BY <1>12, <4>1 DEF KeptSince
      <4> QED
        BY <1>2, <4>2, Zenon
    <3> QED
      BY <1>2, <3>1, <3>2
  <2>4. /\ Get(value, raw) = Told(value, value.checked = value.name /\ IsMissing(value, n), n)
        /\ GetterThrows(value, raw) <=> Throws(value, Get(value, raw))
    BY <1>2, <1>4, GetIs
  <2>5. q \in Stored(value, Get(value, raw))
    BY <1>6, <1>12, <2>1 DEF Copied, Direct
  <2>6. ~Throws(value, Get(value, raw))
    BY <1>2, <2>4
  <2> HIDE DEF n0, n, q
  <2> QED
    BY <2>1, <2>2, <2>3, <2>4, <2>5, <2>6, Hop DEF n0, q
<1>13. KeptSince'
  <2>1. \A value : Direct(value)' <=> Direct(value)
    BY <1>2, SameDirect
  <2>2. ~arrived'
    BY <1>2
  <2>3. \A value \in Values : Direct(value)' =>
          Kept(value, first'[value.name],
               IF arrived' THEN raw'[value.name] ELSE Bits(value, raw'[value.name]))
    BY <1>2, <1>12, <2>1, <2>2, Zenon
  <2> QED
    BY <1>3, <2>3 DEF KeptSince
<1>14. SameVessel'
  <2>1. ASSUME type = "message_24_B" PROVE raw'["mmsi"] = first["mmsi"]
    <3>1. "mmsi" \in Names
      BY <1>2, <2>1, VesselIs
    <3>2. raw'["mmsi"] = raw["mmsi"]
      BY <1>2, <1>4, <1>6, <2>1, <3>1, VesselCopied
    <3>3. raw["mmsi"] = first["mmsi"]
      <4>1. CASE relays = 0
        BY <1>2, <4>1 DEF IInv
      <4>2. CASE relays > 0
        BY <1>1, <2>1, <4>2 DEF SameVessel
      <4> QED
        BY <1>2, <4>1, <4>2
    <3> QED
      BY <3>2, <3>3
  <2> QED
    BY <1>2, <2>1 DEF SameVessel
<1> QED
  BY <1>2, <1>7, <1>8, <1>9, <1>11, <1>13, <1>14 DEF IInv

\* The invariant is inductive.
LEMMA StepIInv ==
  ASSUME IInv, [Next]_vars
  PROVE  IInv'
<1>1. CASE UNCHANGED vars
  <2>1. /\ type' = type /\ raw' = raw /\ wanted' = wanted /\ arrived' = arrived /\ first' = first
        /\ relays' = relays
    BY <1>1 DEF vars
  <2>2. /\ Names' = Names /\ Named' = Named /\ New' = New /\ Values' = Values
        /\ Listed' = Listed /\ WriterOf' = WriterOf
    BY <2>1, SameType
  <2>3. VariablesFit' /\ WantedFit' /\ AsSet' = AsSet /\ SameVessel'
    BY <2>1, <2>2 DEF IInv, VariablesFit, WantedFit, AsSet, SameVessel
  <2>4. FirstFits' /\ SentArrives' = SentArrives /\ KeptSince' = KeptSince
    BY <2>1, <2>2 DEF IInv, FirstFits, SentArrives, KeptSince, Direct, Carried, Mistaken, Overwritten
  <2> QED
    BY <2>1, <2>3, <2>4 DEF IInv
<1>2. CASE Next
  BY <1>2, SetIInv, TransmitIInv, ForeignIInv, RelayIInv DEF Next
<1> QED
  BY <1>1, <1>2

\* The invariant holds in every reachable state.
THEOREM ValuesInvariant == Spec => []IInv
<1>1. Init => IInv
  BY InitIInv
<1>2. IInv /\ [Next]_vars => IInv'
  BY StepIInv
<1> QED
  BY <1>1, <1>2, PTL DEF Spec

\* Every member of an object has what fits its kind, and what came out of bits
\* what has those bits.
THEOREM ValuesTypeOK == Spec => []TypeOK
<1>1. IInv => TypeOK
  <2> SUFFICES ASSUME IInv PROVE TypeOK
    OBVIOUS
  <2>1. /\ type \in Types /\ relays \in 0..MaxRelays /\ DOMAIN raw = Names
        /\ DOMAIN wanted \subseteq Names
        /\ \A x \in Names : raw[x] \in IF arrived THEN Readable(Named[x]) ELSE Storable(Named[x])
    BY DEF IInv, VariablesFit, WantedFit
  <2>2. ASSUME NEW value \in Values, NEW i \in DOMAIN raw[value.name]
        PROVE  LET n == raw[value.name][i]
               IN IF value.kind \in Texts THEN n \in 0..value.bits[i]
                  ELSE IF value.kind = "angle" \/ arrived THEN n \in 0..(2^value.bits[i] - 1)
                  ELSE n \in Int
    <3> DEFINE m == raw[value.name]
    <3>1. WellFormed(value) /\ value.name \in Names /\ Named[value.name] = value
      BY <2>1, OfValues
    <3>2. arrived => m \in Readable(value)
      BY <2>1, <3>1
    <3>3. ~arrived => m \in Storable(value)
      BY <2>1, <3>1
    <3> HIDE DEF m
    <3>4. CASE m \in Readable(value)
      <4>1. /\ i \in DOMAIN value.bits /\ m[i] \in Nat
            /\ IF value.kind \in Texts THEN m[i] <= value.bits[i] ELSE m[i] < 2^value.bits[i]
        BY <2>2, <3>4 DEF Readable, m
      <4>2. value.bits[i] \in 1..30 /\ 2^value.bits[i] \in Nat
        BY <3>1, <4>1, Shape, Zenon
      <4> DEFINE size == 2^value.bits[i]
      <4>3. /\ m[i] \in Nat /\ value.bits[i] \in 1..30 /\ size \in Nat
            /\ IF value.kind \in Texts THEN m[i] <= value.bits[i] ELSE m[i] < size
        BY <4>1, <4>2, Zenon
      <4> HIDE DEF size
      <4>4. IF value.kind \in Texts THEN m[i] \in 0..value.bits[i] ELSE m[i] \in 0..(size - 1) /\ m[i] \in Int
        BY <4>3
      <4>5. IF value.kind \in Texts THEN m[i] \in 0..value.bits[i]
            ELSE m[i] \in 0..(2^value.bits[i] - 1) /\ m[i] \in Int
        BY <4>4, Zenon DEF size
      <4> QED
        BY <4>5, Zenon DEF m
    <3>5. CASE m \notin Readable(value)
      <4>1. ~arrived /\ m \in Storable(value) /\ value.kind \notin Texts \cup {"angle"}
        BY <3>2, <3>3, <3>5 DEF Storable
      <4>2. m \in [DOMAIN value.bits -> Int]
        BY <4>1 DEF Storable, Acceptable
      <4>3. m[i] \in Int
        BY <2>2, <4>2 DEF m
      <4> QED
        BY <4>1, <4>3 DEF m
    <3> QED
      BY <3>4, <3>5
  <2> QED
    BY <2>1, <2>2 DEF TypeOK
<1> QED
  BY <1>1, ValuesInvariant, PTL

\* What is told of an identity that came out of a message, or of one that has
\* nine digits.
ToldWell(n, received) ==
  LET classes == {c \in ToSet(Tried) : Is(c, n)}
  IN IF n >= 10^9 THEN received => classes = {}
     ELSE /\ \A c, d \in classes : c = d
          /\ \A c \in classes :
               IF c = "ais_aids" THEN mid(n) = initial_value /\ man(n) = initial_value
               ELSE Composed(c, n) = n
          /\ mmsi_country(n) \in {initial_value, mid(n)}

\* Of every identity a program is told one class at most, and what makes up the
\* identity.
THEOREM StationIsTold == Spec => []StationTold
<1>1. IInv => StationTold
  <2> SUFFICES ASSUME IInv, NEW value \in Values, value.kind = "mmsi"
               PROVE  ToldWell(raw[value.name][1], arrived)
    BY DEF StationTold, ToldWell
  <2> DEFINE m == raw[value.name]
  <2>1. /\ type \in Types
        /\ \A x \in Names : raw[x] \in IF arrived THEN Readable(Named[x]) ELSE Storable(Named[x])
    BY DEF IInv, VariablesFit
  <2>2. WellFormed(value) /\ value.name \in Names /\ Named[value.name] = value
    BY <2>1, OfValues
  <2>3. m \in IF arrived THEN Readable(value) ELSE Storable(value)
    BY <2>1, <2>2
  <2> HIDE DEF m
  <2>4. m \in Storable(value) /\ (arrived => Bits(value, m) = m)
    BY <2>2, <2>3, ReadableStorable, BitsReadable
  <2>5. m[1] \in Nat /\ (arrived => m[1] < Thirty)
    BY <2>2, <2>4, IdentityBits
  <2>6. Thirty = 2^30
    BY DEF Thirty
  <2>7. m[1] \in Nat /\ (arrived => m[1] < 2^30)
    BY <2>5, <2>6
  <2>8. \A n \in Nat : (arrived => n < 2^30) => ToldWell(n, arrived)
    <3> SUFFICES ASSUME NEW n \in Nat, arrived => n < 2^30 PROVE ToldWell(n, arrived)
      OBVIOUS
    <3> QED
      BY StationIs, Zenon DEF ToldWell
  <2> QED
    BY <2>7, <2>8, Zenon DEF m
<1> QED
  BY <1>1, ValuesInvariant, PTL

\* What an application got is the same when it has been sent on, however often:
\* of positions two steps are lost at most, in all, and draughts are rounded up.
THEOREM RelayedStaysSame == Spec => []RelayedSame
<1>1. IInv => RelayedSame
  <2> SUFFICES ASSUME IInv, arrived, relays > 0, NEW value \in Values \ Mistaken
               PROVE  /\ ~GetterThrows(value, raw)
                      /\ RelayedWell(value, Get(value, first), Get(value, raw))
    BY DEF RelayedSame, RelayedWell
  <2>1. /\ type \in Types /\ relays \in 0..MaxRelays /\ FirstFits /\ KeptSince
        /\ \A x \in Names : raw[x] \in Readable(Named[x])
    BY Zenon DEF IInv, VariablesFit
  <2>2. \A x \in Names : first[x] \in Readable(Named[x])
    BY <2>1 DEF FirstFits
  <2>3. Direct(value)
    <3>1. /\ value.into = value.name /\ ~Overwritten(value) /\ value.kind # "padded"
          /\ ~(type = "binary_001_11" /\ value.name \in Moved)
      BY DEF Mistaken
    <3>2. value.name \in Names
      BY <2>1, OfValues
    <3>3. WriterOf[value.name] # 0
      BY <2>1, <3>1, <3>2, OfWriters
    <3>4. Listed[WriterOf[value.name]] = value
      BY <2>1, <3>1, <3>3 DEF Overwritten
    <3>5. value.read + value.write = 0
      <4>1. value \in ToSet(Contents[type])
        BY <2>1, Table DEF Values
      <4> QED
        BY <2>1, <3>1, <4>1, OffsetsAssumption
    <3> QED
      BY <3>1, <3>3, <3>4, <3>5 DEF Direct
  <2> DEFINE n0 == first[value.name]
             n == raw[value.name]
  <2>4. Kept(value, n0, n)
    BY <2>1, <2>3, Zenon DEF KeptSince
  <2>5. /\ Get(value, first) = Told(value, value.checked = value.name /\ IsMissing(value, n0), n0)
        /\ n0 \in Readable(value)
    BY <2>1, <2>2, GetIs
  <2>6. /\ Get(value, raw) = Told(value, value.checked = value.name /\ IsMissing(value, n), n)
        /\ GetterThrows(value, raw) <=> Throws(value, Get(value, raw))
        /\ n \in Readable(value)
    BY <2>1, GetIs
  <2>7. /\ WellFormed(value) /\ value.kind # "padded"
        /\ value.checked # value.name => value.kind = "unit"
    BY <2>1, <2>3, DirectIs
  <2> HIDE DEF n0, n
  <2>8. LET before == Told(value, value.checked = value.name /\ IsMissing(value, n0), n0)
            now == Told(value, value.checked = value.name /\ IsMissing(value, n), n)
        IN ~Throws(value, now) /\ RelayedWell(value, before, now)
    BY <2>4, <2>5, <2>6, <2>7, Relayed
  <2> QED
    BY <2>5, <2>6, <2>8
<1> QED
  BY <1>1, ValuesInvariant, PTL

\* What was set arrives, and what was not set does as it is in a new object; the
\* mistakes that are named are the only ones.
THEOREM SentDoesArrive == Spec => []SentArrives
<1>1. IInv => SentArrives
  BY DEF IInv, SentArrives
<1> QED
  BY <1>1, ValuesInvariant, PTL
=============================================================================
