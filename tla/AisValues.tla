------------------------------ MODULE AisValues ------------------------------
(***************************************************************************)
(* Values of AIS messages on the way from one application to another:      *)
(* setters convert them to raw numbers, the message has some bits for each *)
(* of those, getters convert them back; an application may set what it got *)
(* on a new object and send that on.  Other devices send raw numbers of    *)
(* any value.  How the bits travel is the subject of AisMessages.          *)
(*                                                                         *)
(* Raw numbers are uint32_t; those from 2^31 on are negative here, which   *)
(* leaves them the same modulo any power of two.                           *)
(***************************************************************************)
EXTENDS Integers, SequencesExt, AisNumbers, Mmsi

CONSTANTS
  Types,      \* the messages
  Wanted(_),  \* what an application may want a value to be
  Foreign(_), \* raw numbers another device may send for a value
  MaxSets,    \* bound of the check: calls of setters
  MaxRelays   \* bound of the check: how often a message is sent on, one less for
              \* each value the sender has set

VARIABLES
  type,     \* of the object
  raw,      \* its members
  wanted,   \* what was set last, by name
  arrived,  \* the object has been made from bits
  first,    \* the members of the first object that was made from bits
  relays    \* how often it was sent on since

vars == <<type, raw, wanted, arrived, first, relays>>

\* What a new object has: not available, some number, or an empty text.
Initial(value) == IF value.missing = <<>> THEN <<value.new>> ELSE value.missing

\* Of a type: its values in their order; by name which value it is, what a new
\* object has, and the last value whose setter assigns it, if there is one.
Described(listed) ==
  LET names == {listed[i].name : i \in DOMAIN listed}
      named == [x \in names |-> CHOOSE value \in ToSet(listed) : value.name = x]
  IN [listed |-> listed,
      named |-> named,
      new |-> [x \in names |-> Initial(named[x])],
      writer |-> [x \in names |-> Max({i \in DOMAIN listed : listed[i].into = x} \cup {0})]]
Descriptions == [t \in Types |-> Described(Contents[t])]

\* of the type of the object
Listed == Descriptions[type].listed
Values == ToSet(Listed)
Named == Descriptions[type].named
Names == DOMAIN Named
New == Descriptions[type].new
WriterOf == Descriptions[type].writer

-----------------------------------------------------------------------------
Signed(n, bits) == IF n >= 2^(bits - 1) THEN n - 2^bits ELSE n

\* Mutant of Degrees: rounded away from where it will be rounded to next.
DegreesDown(n, per) == (per * n) \div 6 - 1

\* deg_from, and rounding to 1e-6.
Degrees(n, per) == (per * n + 3) \div 6

\* deg_to: rounds down.  The product of doubles may be a bit less than the whole
\* number it should be, which then loses one step; whole degrees are exact.
Steps(x, per) ==
  LET n == (6 * x) \div per
  IN {n} \cup (IF (6 * x) % per = 0 /\ x % 1000000 # 0 THEN {n - 1} ELSE {})

\* Largest angle of a latitude or longitude.
Largest(value, i) ==
  IF value.name = "longitude" \/ i = 2 THEN 180000000 ELSE 90000000

-----------------------------------------------------------------------------
\* A position is missing if one of its numbers is.
IsMissing(value, n) ==
  value.missing # <<>> /\ \E i \in DOMAIN value.missing : n[i] = value.missing[i]

Got(value, i, n) ==
  CASE value.kind = "angle" -> Degrees(Signed(n, value.bits[i]), value.per)
    [] value.kind = "turn" -> Signed(n, value.bits[i])
    [] OTHER -> n + value.read

\* The getter, on the members m of an object.
Get(value, m) ==
  IF IsMissing(value, m[value.checked])
    THEN value.gives
    ELSE [i \in DOMAIN value.bits |-> Got(value, i, m[value.name][i])]

\* The classes for angles throw.
GetterThrows(value, m) ==
  /\ value.kind = "angle"
  /\ LET v == Get(value, m)
     IN \E i \in DOMAIN v : v[i] \notin (-Largest(value, i))..Largest(value, i)

-----------------------------------------------------------------------------
\* Quantities may not be negative, rates of turn have a limit.
SetterThrows(value, v) ==
  v # Nothing /\ CASE value.kind \in {"unit", "ceiling"} -> v[1] < 0
                   [] value.kind = "turn" -> v[1] \notin -126..126
                   [] value.kind = "checked" -> v[1] > value.most
                   [] OTHER -> FALSE

\* Whose setter takes its greatest value for what is more.
HasLimit(value) == value.most # NoLimit /\ value.kind \notin {"choice", "checked"}

\* Mutant of Limited: one more than the greatest value is let through.
LimitedLate(value, n) ==
  IF HasLimit(value) /\ (n < 0 \/ n > value.most + 1) THEN value.most ELSE n

\* std::min, clamp: as numbers without a sign.
Limited(value, n) == IF HasLimit(value) /\ (n < 0 \/ n > value.most) THEN value.most ELSE n

\* Whose setter takes for not available what is more than v[1] may be.
TooMuch(value, v) == value.valid # NoLimit /\ v[1] > value.valid

\* What a number becomes.  Ten times a tenth may be a bit more than the number,
\* which the draught is then rounded up from; a negative double is converted to
\* uint32_t, which is undefined: the number modulo 2^32, or zero.
Converted(value, n) ==
  CASE value.kind = "ceiling" -> {n} \cup (IF n % 5 = 0 THEN {} ELSE {n + 1})
    [] value.kind = "double" /\ n < 0 -> {n, 0}
    [] OTHER -> {n}

\* The setter: every number it may store for v.
Stored(value, v) ==
  IF v = Nothing THEN {value.missing}
  ELSE CASE value.kind = "angle" ->
              IF Len(v) = 1
                THEN {<<n % 2^value.bits[1]>> : n \in Steps(v[1], value.per)}
                ELSE {<<n % 2^value.bits[1], k % 2^value.bits[2]>> :
                        n \in Steps(v[1], value.per), k \in Steps(v[2], value.per)}
         [] TooMuch(value, v) -> {value.missing}
         [] OTHER -> {<<Limited(value, n)>> : n \in Converted(value, v[1] + value.write)}

\* There is no way to say of these that they are not available.
AlwaysAvailable(value) == value.missing = <<>> \/ value.name \in {"position_ne", "position_sw"}

-----------------------------------------------------------------------------
\* What a program can set, and what the bits of a value can be.
Texts == {"text", "padded"}
Reals == {"angle", "turn", "unit", "double", "ceiling"}
Settable(value) ==
  [DOMAIN value.bits -> IF value.kind \in Reals THEN Int
                        ELSE IF value.kind = "choice" THEN 0..value.most
                        ELSE Nat]
Readable(value) ==
  {n \in [DOMAIN value.bits -> Nat] :
     \A i \in DOMAIN n : IF value.kind \in Texts THEN n[i] <= value.bits[i] ELSE n[i] < 2^value.bits[i]}

\* Steps of the message from zero to the largest angle.
Most(value, i) == 6 * (Largest(value, i) \div value.per)

\* What the values of the table have in common, by kind.
WellFormed(value) ==
  /\ value.kind \in Reals \cup Texts \cup {"number", "plain", "choice", "checked", "mmsi"}
  /\ value.bits \in Seq(1..30) /\ value.bits # <<>>
  /\ Initial(value) \in Readable(value)
  /\ value.kind \notin {"number", "double", "unit", "angle"} => value.missing = <<>>
  /\ value.valid # NoLimit => value.missing # <<>>
  /\ HasLimit(value) =>
       /\ value.most \in Nat /\ <<value.most>> \in Readable(value) /\ value.new <= value.most
       /\ value.missing # <<>> => value.missing[1] > value.most
       /\ value.valid = NoLimit /\ value.read = 0 /\ value.write = 0
  /\ value.kind = "unit" /\ value.missing # <<>> => HasLimit(value)
  /\ value.kind \in Texts => value.most = value.bits[1]
  /\ value.kind \in {"choice", "checked"} => value.most \in 0..(2^value.bits[1] - 1)
  /\ value.kind = "mmsi" => value.bits = <<30>>
  /\ value.kind \in {"turn", "ceiling"} => value.bits = <<8>> /\ value.most = NoLimit
  /\ value.kind \in {"number", "double"} \/ (value.read = 0 /\ value.write = 0 /\ value.valid = NoLimit)
  /\ value.read \in Int /\ value.write \in Int /\ value.valid \in Nat
  /\ IF value.kind = "angle"
       THEN /\ value.most = NoLimit /\ value.checked = value.name /\ Len(value.bits) \in 1..2
            /\ value.missing # <<>>
            /\ value.per \in {I4, I3, I1}
            /\ value.gives \in {Nothing, [i \in DOMAIN value.bits |-> 0]}
            /\ \A i \in DOMAIN value.bits :
                 /\ value.missing[i] > Most(value, i)
                 /\ value.missing[i] < 2^(value.bits[i] - 1)
       ELSE Len(value.bits) = 1 /\ value.gives = Nothing

\* Two values whose getter and setter do not move the zero alike.
Moved == {"temperature", "dew_point", "water_level", "water_temperature"}

\* ... and what the values of a message have to do with each other.
Consistent(listed) ==
  /\ \A i, j \in DOMAIN listed : listed[i].name = listed[j].name => i = j
  /\ \A value \in ToSet(listed) :
       /\ WellFormed(value)
       /\ value.into \in {NoSetter, value.name} \/
            \E other \in ToSet(listed) :
              /\ value.into = other.name /\ value.kind = other.kind
              /\ value.kind \in {"text", "mmsi"} /\ value.bits[1] <= other.bits[1]
       /\ value.checked = value.name \/
            /\ value.kind = "unit"
            /\ \E other \in ToSet(listed) :
                 /\ value.checked = other.name /\ Len(other.bits) = 1
                 /\ other.kind \notin Texts /\ value.missing[1] >= 2^other.bits[1]
       /\ value.name # NoSetter

Dimensions == {"to_bow", "to_stern", "to_port", "to_starboard"}

\* Part B of message_24: the identity of the mothership has as many bits as the
\* dimension, and one setter assigns the identity of the vessel.
PartB(named) ==
  /\ Dimensions \cup {"mmsi", "mothership_mmsi"} \subseteq DOMAIN named
  /\ \A x \in Dimensions : named[x].kind = "unit" /\ named[x].checked = x
  /\ named.to_bow.bits = <<9>> /\ named.to_stern.bits = <<9>>
  /\ named.to_port.bits = <<6>> /\ named.to_starboard.bits = <<6>>
  /\ named.mmsi.kind = "mmsi" /\ named.mmsi.most = NoLimit /\ named.mothership_mmsi.kind = "mmsi"
  /\ \A x \in DOMAIN named : named[x].into = "mmsi" <=> x = "mmsi"

ASSUME BoundsAssumption == MaxSets \in Nat /\ MaxRelays \in Nat
ASSUME TypesAssumption == Types \subseteq DOMAIN Contents
ASSUME ContentsAssumption ==
  \A t \in Types :
    /\ Contents[t] \in Seq(ToSet(Contents[t])) \ {<<>>}
    /\ Consistent(Contents[t])
ASSUME PartBAssumption == "message_24_B" \in Types => PartB(Descriptions["message_24_B"].named)
ASSUME OffsetsAssumption ==
  \A t \in Types : \A value \in ToSet(Contents[t]) :
    value.read + value.write = 0 \/ (t = "binary_001_11" /\ value.name \in Moved)
ASSUME InputsAssumption ==
  \A t \in Types : \A value \in ToSet(Contents[t]) :
    Wanted(value) \subseteq Settable(value) /\ Foreign(value) \subseteq Readable(value)

-----------------------------------------------------------------------------
\* Mutant of OnTheWay: a number that does not fit is not cut.
OnTheWayUncut(value, i, n) ==
  CASE value.kind = "padded" -> value.bits[i]
    [] OTHER -> n

\* What arrives of a number; a text is filled up with @, which its getter takes
\* off again, or not.
OnTheWay(value, i, n) ==
  CASE value.kind = "text" -> n
    [] value.kind = "padded" -> value.bits[i]
    [] OTHER -> n % 2^value.bits[i]

\* Of part B of message_24 get_data writes, and the constructor reads, the identity
\* of the mothership of an auxiliary vessel, of others the dimension.
Carried(m, x) ==
  type = "message_24_B" =>
    /\ x = "mothership_mmsi" => is_auxiliary(m.mmsi[1])
    /\ x \in Dimensions => ~is_auxiliary(m.mmsi[1])

\* The identity of the mothership has the bits of the dimension.
MadeOfDimension(m) ==
  ((m.to_bow[1] * 512 + m.to_stern[1]) * 64 + m.to_port[1]) * 64 + m.to_starboard[1]

\* What the constructor from bits makes of the members m of the sender.  Of the
\* identity there are 30 bits, which may be one of an auxiliary vessel although
\* the number that was set is not.
Constructed(m) ==
  LET bits == [x \in Names |-> [i \in DOMAIN m[x] |-> OnTheWay(Named[x], i, m[x][i])]]
  IN [x \in Names |-> IF ~Carried(bits, x) THEN New[x]
                     ELSE IF Carried(m, x) THEN bits[x]
                     ELSE <<MadeOfDimension(bits)>>]

Init ==
  /\ type \in Types
  /\ raw = New
  /\ wanted = <<>>
  /\ arrived = FALSE
  /\ first = <<>>
  /\ relays = 0

\* A setter; one that throws leaves the object as it was.
Set(value, v) ==
  /\ first = <<>> /\ ~arrived /\ Cardinality(DOMAIN wanted) < MaxSets
  /\ value.name \notin DOMAIN wanted /\ value.into # NoSetter
  /\ v = Nothing => ~AlwaysAvailable(value)
  /\ ~SetterThrows(value, v)
  /\ \E n \in Stored(value, v) : raw' = [raw EXCEPT ![value.into] = n]
  /\ wanted' = [x \in DOMAIN wanted \cup {value.name} |-> IF x = value.name THEN v ELSE wanted[x]]
  /\ UNCHANGED <<type, arrived, first, relays>>

\* get_data here, the constructor from bits there.
Transmit ==
  /\ ~arrived
  /\ raw' = Constructed(raw)
  /\ arrived' = TRUE
  /\ first' = IF first = <<>> THEN raw' ELSE first
  /\ UNCHANGED <<type, wanted, relays>>

\* What another device sends.
ReceiveForeign(value) ==
  /\ raw = New /\ wanted = <<>> /\ ~arrived /\ first = <<>>
  /\ \E n \in Foreign(value) : raw' = [raw EXCEPT ![value.name] = n]
  /\ Carried(raw', value.name)
  /\ arrived' = TRUE
  /\ first' = raw'
  /\ UNCHANGED <<type, wanted, relays>>

\* What the setter that assigns the member x last stores of what it gets, the
\* setters being called in the order of the values.
Copied(x) ==
  LET i == WriterOf[x]
  IN IF i = 0 THEN {New[x]}
     ELSE Stored(Listed[i], Get(Listed[i], raw))

\* The objects which may get what the getters return.
Copies ==
  LET inexact == {x \in Names : Cardinality(Copied(x)) > 1}
      chosen == {f \in [inexact -> UNION {Copied(x) : x \in inexact}] :
                  \A x \in inexact : f[x] \in Copied(x)}
  IN {[x \in Names |-> IF x \in inexact THEN f[x] ELSE CHOOSE n \in Copied(x) : TRUE] : f \in chosen}

\* A new object gets what the getters return, one setter after another.
Relay ==
  /\ arrived /\ relays + Cardinality(DOMAIN wanted) < MaxRelays
  /\ \A value \in Values : ~GetterThrows(value, raw)
  /\ raw' \in Copies
  /\ arrived' = FALSE
  /\ relays' = relays + 1
  /\ UNCHANGED <<type, wanted, first>>

Next ==
  \/ \E value \in Values : \E v \in Wanted(value) \cup {Nothing} : Set(value, v)
  \/ Transmit
  \/ \E value \in Values : ReceiveForeign(value)
  \/ Relay

Spec == Init /\ [][Next]_vars

-----------------------------------------------------------------------------
\* Raw numbers fit into their bits once they have travelled, those of angles
\* always.
TypeOK ==
  /\ type \in Types
  /\ relays \in 0..MaxRelays
  /\ DOMAIN raw = Names /\ DOMAIN wanted \subseteq Names
  /\ \A value \in Values :
       \A i \in DOMAIN raw[value.name] :
         LET n == raw[value.name][i]
         IN IF value.kind \in Texts THEN n \in 0..value.bits[i]
            ELSE IF value.kind = "angle" \/ arrived THEN n \in 0..(2^value.bits[i] - 1)
            ELSE n \in Int

\* A setter of another value has assigned this one last.
Overwritten(value) ==
  IF relays = 0
    THEN \E x \in DOMAIN wanted : x # value.name /\ Named[x].into = value.name
    ELSE WriterOf[value.name] # 0
         /\ Listed[WriterOf[value.name]] # value

\* The setter and the getter of these do not agree: four setters of the weather
\* data take tenths of a degree or meter for whole ones when they move the zero,
\* set_vendor_id assigns the callsign and set_dest_mmsi of message_10 the identity
\* of the sender, the ship type of message_23 has no setter, get_shipname of
\* message_19 returns what the name was filled up with, get_altitude does not
\* know what is missing, and a mothership may be made of the dimension if the
\* identity has more than 30 bits.
Mistaken ==
  {value \in Values :
     \/ type = "binary_001_11" /\ value.name \in Moved
     \/ value.into # value.name \/ Overwritten(value)
     \/ value.kind = "padded"
     \/ /\ value.checked # value.name
        /\ value.name \in DOMAIN wanted /\ wanted[value.name] = Nothing
     \/ /\ value.name = "mothership_mmsi"
        /\ "mmsi" \in DOMAIN wanted /\ wanted["mmsi"][1] >= 2^30}

\* There is a raw number for v, which does not mean something else: always, of a
\* speed or altitude.
Fits(value, v) ==
  CASE value.kind = "angle" ->
         \A i \in DOMAIN v : v[i] \in (-Largest(value, i))..Largest(value, i)
    [] value.kind \in {"text", "turn"} -> TRUE
    [] value.kind = "unit" /\ value.missing # <<>> -> TRUE
    [] OTHER -> LET n == Limited(value, v[1] + value.write)
                IN /\ v[1] + value.write >= 0
                   /\ n \in 0..(2^value.bits[1] - 1) /\ <<n>> # value.missing

\* got is v, as exactly as the message can say it.
Arrives(value, v, got) ==
  CASE value.kind = "angle" ->
         /\ DOMAIN got = DOMAIN v
         /\ \A i \in DOMAIN v : v[i] - got[i] \in 0..(value.per \div 6 + 1)
    [] TooMuch(value, v) -> got = Nothing
    [] HasLimit(value) /\ v[1] > value.most -> got = <<value.most>>
    [] value.kind = "ceiling" -> got # Nothing /\ got[1] - v[1] \in 0..1
    [] OTHER -> got = v

\* What was set arrives, as exactly as the message can say it (angles up to a
\* step further south or west), what is too much as the greatest value or as not
\* available, what was not set as in a new object: no setter changes the value of
\* another, no conversion makes a value one that means something else (get_ and
\* set_ of message_NN.cpp, angle.cpp:57).  Nothing is claimed of what no number is
\* left for, as of the 31st in the weather data (Fits; DocumentedArrives is about
\* that).  Mistaken are the only exceptions.
SentArrives ==
  (arrived /\ relays = 0 /\ wanted # <<>>) =>
    \A value \in Values \ Mistaken :
      LET got == Get(value, raw)
      IN IF value.name \notin DOMAIN wanted \/ ~Carried(raw, value.name)
           THEN got = Get(value, New)
         ELSE LET v == wanted[value.name]
              IN IF v = Nothing THEN got = value.gives
                 ELSE Fits(value, v) => Arrives(value, v, got) /\ ~GetterThrows(value, raw)

\* A value an application got is still the same when it has been sent on, however
\* often: a position moves south or west by two steps of the message at most, in
\* all, and never to where its getter throws; a draught grows to the next half
\* meter at most; what the setter limits is the limit (message_09.cpp:114,
\* binary_200_10.cpp:87).  Mistaken are the only exceptions.
RelayedSame ==
  (arrived /\ relays > 0) =>
    \A value \in Values \ Mistaken :
      LET before == Get(value, first)
          now == Get(value, raw)
      IN /\ ~GetterThrows(value, raw)
         /\ CASE before = Nothing -> now = Nothing
              [] value.kind = "angle" ->
                   /\ DOMAIN now = DOMAIN before
                   /\ \A i \in DOMAIN now : before[i] - now[i] \in 0..((2 * value.per) \div 6 + 1)
              [] value.kind = "ceiling" ->
                   now[1] \in before[1]..(5 * ((before[1] + 4) \div 5))
              [] OTHER -> Arrives(value, before, now)

-----------------------------------------------------------------------------
\* What the identities of a class begin with, and in how many digits.
Begins ==
  [regular |-> <<0, 0>>, group |-> <<0, 1>>, coastal |-> <<0, 2>>, auxiliary |-> <<98, 2>>,
   sar_aircraft |-> <<111, 3>>, sart |-> <<970, 3>>, mob |-> <<972, 3>>,
   epirb_ais |-> <<974, 3>>, ais_aids |-> <<99, 2>>]

\* The nine digits of an identity, made of what mid, man and id tell of it.
Composed(class, n) ==
  LET digits == 9 - Begins[class][2]
      middle == IF class \in DOMAIN MidOf THEN mid(n) * 10^(digits - 3) ELSE man(n) * 10^(digits - 2)
  IN Begins[class][1] * 10^digits + middle + id(n)

\* Of the stations in a message a program is told one class at most, and the
\* parts of the identity which that class has: together they are the identity,
\* and a country goes by its MID (mmsi.cpp, mmsi_country.cpp).  Of an aid to
\* navigation nobody tells the MID.  More than nine digits are of no class if
\* they come out of a message; a program that makes such an identity itself is
\* told what the last nine are (mmsi.cpp:184).
StationTold ==
  \A value \in Values : value.kind = "mmsi" =>
    LET n == raw[value.name][1]
        classes == {c \in ToSet(Tried) : Is(c, n)}
    IN IF n >= 10^9 THEN arrived => classes = {}
       ELSE /\ \A c, d \in classes : c = d
            /\ \A c \in classes :
                 IF c = "ais_aids" THEN mid(n) = initial_value /\ man(n) = initial_value
                 ELSE Composed(c, n) = n
            /\ mmsi_country(n) \in {initial_value, mid(n)}

\* What the getters and setters of the weather data say the values are, in
\* tenths, the pressure in hPa.
Documented(value, n) ==
  /\ type = "binary_001_11"
  /\ CASE value.name = "temperature" -> n \in -600..600
       [] value.name = "dew_point" -> n \in -200..500
       [] value.name = "water_level" -> n \in -100..300
       [] value.name = "water_temperature" -> n \in -100..500
       [] value.name = "pressure" -> n \in 800..1200
       [] value.name = "day" -> n \in 1..31
       [] OTHER -> FALSE

\* A temperature, water level, pressure or day in the range its getter or setter
\* documents is what the getter of the receiver returns (binary_001_11.cpp:148,
\* 360, 401).
DocumentedArrives ==
  (arrived /\ relays = 0) =>
    \A x \in DOMAIN wanted :
      (wanted[x] # Nothing /\ Documented(Named[x], wanted[x][1])) =>
        Get(Named[x], raw) = wanted[x]
=============================================================================
