--------------------------- MODULE SeatalkMessages ---------------------------
(***************************************************************************)
(* SeaTalk messages on the way from one object to another: setters, then   *)
(* get_data() makes a datagram, make_message() an object again, which may  *)
(* be sent on.  Datagrams of other devices come in between.                *)
(*                                                                         *)
(* Values are the integers the members hold, except for angles: a latitude *)
(* or longitude counts seconds (in message_58 thousandths of a minute),    *)
(* south and west negative, a course counts halves of a degree.            *)
(***************************************************************************)
EXTENDS Integers, FiniteSets, SequencesExt, SeatalkLayouts

CONSTANTS
  Types,      \* identifiers of the messages
  Values(_),  \* values for a member
  Foreign(_), \* datagrams of a type other devices send
  MaxSets,    \* bound of the check: calls of setters
  MaxRelays   \* bound of the check: how often a message is sent on

VARIABLES
  message,   \* the object of the sender: layout and values
  sets,      \* calls of setters
  datagram,  \* none before get_data
  received,  \* what make_message made of it
  origin,    \* the first object on the way that came from no other
  relays     \* how often it has been sent on

messageVars == <<message, sets, datagram, received, origin, relays>>

At(data, i) == data[i + 1]
Absolute(v) == IF v < 0 THEN -v ELSE v
Smaller(a, b) == IF a < b THEN a ELSE b
NamesOf(layout) == {layout.members[i].name : i \in DOMAIN layout.members}
LayoutOf == [id \in {layout.id : layout \in Layouts} |-> CHOOSE layout \in Layouts : layout.id = id]

-----------------------------------------------------------------------------
\* Bits of a number below its k-th piece.
Below(pieces, k) == SumFunction([j \in (k + 1)..Len(pieces) |-> pieces[j].bits])

\* The pieces with their weights, by message and member those that are read, by
\* message and byte those that are written.
Weighed(p, below, j) ==
  [member |-> j, byte |-> p.byte, factor |-> 2^p.low, modulus |-> 2^p.bits, weight |-> 2^below]
ReadFrom ==
  [id \in DOMAIN LayoutOf |-> [j \in DOMAIN LayoutOf[id].members |->
     LET pieces == LayoutOf[id].members[j].reads
     IN {Weighed(pieces[k], Below(pieces, k), j) : k \in DOMAIN pieces}]]
WrittenTo ==
  [id \in DOMAIN LayoutOf |-> [i \in DOMAIN LayoutOf[id].constants |->
     UNION {LET pieces == LayoutOf[id].members[j].writes
                here == {k \in DOMAIN pieces : pieces[k].byte = i}
            IN {Weighed(pieces[k], Below(pieces, k), j) : k \in here} :
              j \in DOMAIN LayoutOf[id].members}]]

\* The number a member's pieces make.
Read(data, pieces) ==
  SumFunction([p \in pieces |-> ((At(data, p.byte) \div p.factor) % p.modulus) * p.weight])

\* Mutant of Share: the higher bits are not masked.
ShareUnmasked(n, p) == (n \div p.weight) * p.factor

\* What a piece of the number n is in its byte; bits there are no pieces for are
\* lost.
Share(n, p) == ((n \div p.weight) % p.modulus) * p.factor

\* Hundredths of a minute, or seconds, in a coordinate: whole minutes keep,
\* fractions are rounded down in both directions.
ToHundredths(seconds) == (seconds \div 60) * 100 + (((seconds % 60) * 100) \div 60)
ToSeconds(hundredths) == (hundredths \div 100) * 60 + (((hundredths % 100) * 60) \div 100)

\* Mutant of CoordinateOf: the hundredths are taken for seconds.
CoordinateOfUnconverted(n) == (n \div 65536) * 3600 + (n % 32768)

\* Coordinate of messages 50 and 51 without its hemisphere.
CoordinateOf(n) == (n \div 65536) * 3600 + ToSeconds(n % 32768)
Hemisphere(n) == (n \div 32768) % 2

\* Mutant of NumberOf: the hemisphere is in the wrong bit.
NumberOfShifted(seconds, hemisphere) ==
  (seconds \div 3600) * 65536 + hemisphere * 16384 + ToHundredths(seconds % 3600)

NumberOf(seconds, hemisphere) ==
  (seconds \div 3600) * 65536 + hemisphere * 32768 + ToHundredths(seconds % 3600)

\* The value of a member that is read as n.
FromDatagram(member, n) ==
  CASE member.kind = "side" -> IF n <= 2 THEN n ELSE 0
    [] member.kind = "signed" -> IF n >= 2^(member.width - 1) THEN n - 2^member.width ELSE n
    [] member.kind = "halves" -> ((n * 10) % 65536) \div 2
    [] member.kind = "tenths" -> (n \div 16) * 10 + (n % 16)
    [] member.kind = "above" -> n - 100
    [] member.kind = "clamped" -> Smaller(n, member.most)
    [] member.kind = "latitude" -> IF Hemisphere(n) = 1 THEN -CoordinateOf(n) ELSE CoordinateOf(n)
    [] member.kind = "longitude" -> IF Hemisphere(n) = 1 THEN CoordinateOf(n) ELSE -CoordinateOf(n)
    [] member.kind \in {"course", "heading"} ->
         LET v == (n \div 256) * 180 + ((n \div 4) % 64) * 4 + (n % 4)
         IN IF member.kind = "heading" THEN v % 720 ELSE v
    [] member.kind \in {"north", "east"} ->
         LET v == ((n \div 65536) % 256) * 60000 + (n % 65536)
         IN IF (n >= 2^24) = (member.kind = "north") THEN -v ELSE v
    [] member.kind = "repeated" -> n \div 256
    [] OTHER -> n

\* The number a value is written as.  The position of message_58 goes through
\* double: its fraction may lose one thousandth.
ToDatagram(member, v, lost) ==
  CASE member.kind = "signed" -> v % 2^member.width
    [] member.kind = "tenths" -> ((v \div 256) % 128) * 16 + (v % 16)
    [] member.kind = "above" -> (v + 100) % 65536
    [] member.kind = "latitude" -> NumberOf(Absolute(v), IF v < 0 THEN 1 ELSE 0)
    [] member.kind = "longitude" -> NumberOf(Absolute(v), IF v < 0 THEN 0 ELSE 1)
    [] member.kind \in {"course", "heading"} ->
         ((v \div 180) % 4) * 256 + (((v % 180) \div 4) * 4) + (v % 4)
    [] member.kind \in {"north", "east"} ->
         (IF (v < 0) = (member.kind = "north") THEN 2^24 ELSE 0)
           + (Absolute(v) \div 60000) * 65536 + (v % 60000) - lost
    [] member.kind = "repeated" -> v * 256 + (255 - v)
    [] OTHER -> v

\* float_cast refuses the fraction of a negative angle.
Castable(member, v) == member.kind \in {"north", "east"} => (v >= 0 \/ v % 60000 = 0)

-----------------------------------------------------------------------------
\* get_data: every datagram it may make of the object, none if it throws.
GetData(m) ==
  LET members == LayoutOf[m.type].members
      V(j) == m.values[members[j].name]
      Inexact == {j \in DOMAIN members : members[j].kind \in {"north", "east"} /\ V(j) % 60000 > 0}
      N(j, lost) == ToDatagram(members[j], V(j), IF j \in lost THEN 1 ELSE 0)
      Bytes(lost) == [i \in 1..LayoutOf[m.type].size |->
                        LayoutOf[m.type].constants[i - 1]
                          + SumFunction([p \in WrittenTo[m.type][i - 1] |->
                                           Share(N(p.member, lost), p)])]
  IN IF \A j \in DOMAIN members : Castable(members[j], V(j))
       THEN {Bytes(lost) : lost \in SUBSET Inexact}
       ELSE {}

Refused(why) == [outcome |-> why]
MessageOf(type, values) == [outcome |-> "message", type |-> type, values |-> values]

\* check_size
SizeIsRight(layout, data) == Len(data) = layout.size /\ At(data, 1) % 16 = layout.size - 3

\* What a latitude or longitude throws at, and what a keystroke does.
InRange(member, n) ==
  CASE member.kind \in {"latitude", "longitude", "north", "east"} ->
         Absolute(FromDatagram(member, n)) <= member.most
    [] member.kind = "repeated" -> n \div 256 = 255 - (n % 256)
    [] OTHER -> TRUE

Parse(layout, data) ==
  LET members == layout.members
      n == [j \in DOMAIN members |-> Read(data, ReadFrom[layout.id][j])]
      J(name) == CHOOSE j \in DOMAIN members : members[j].name = name
  IN IF /\ SizeIsRight(layout, data)
        /\ \A r \in layout.required : At(data, r[1]) = r[2]
        /\ \A j \in DOMAIN members : InRange(members[j], n[j])
       THEN MessageOf(layout.id, [x \in NamesOf(layout) |-> FromDatagram(members[J(x)], n[J(x)])])
       ELSE Refused("invalid_argument")

MakeMessage(data) ==
  LET entries == {layout \in KnownMessages : layout.id = At(data, 0)}
  IN IF entries = {} THEN Refused("unknown")
     ELSE Parse(CHOOSE layout \in entries : TRUE, data)

-----------------------------------------------------------------------------
\* What the constructors leave in the members.
Default(name) ==
  CASE name = "key" -> 2
    [] name = "level" -> 1
    [] OTHER -> 0

\* What a setter keeps: the timer is clamped, a course is a direction.
Stored(member, v) ==
  CASE member.kind = "clamped" -> Smaller(v, member.most)
    [] member.kind \in {"course", "heading"} -> v % 720
    [] OTHER -> v

\* What the type of a member, and the checks of a setter and parse, let it hold.
MayHold(member) ==
  CASE member.kind = "signed" -> (-(2^(member.width - 1)))..(2^(member.width - 1) - 1)
    [] member.kind \in {"latitude", "longitude", "north", "east"} -> (-member.most)..member.most
    [] member.kind = "above" -> -100..member.most
    [] member.kind = "plain" /\ member.width = 32 -> Nat
    [] OTHER -> 0..(2^member.width - 1)

\* get_data of message_10, 11 and 25 writes one member in another form than parse
\* reads.
IsMiswritten(id, member) ==
  <<id, member.name>> \in {<<16, "angle">>, <<17, "speed">>, <<37, "total">>}

(***************************************************************************)
(* What the proofs need of the layouts, of each as it is in the table.     *)
(***************************************************************************)
\* How many numbers the pieces of a member can tell apart.
Room == [id \in DOMAIN LayoutOf |-> [j \in DOMAIN LayoutOf[id].members |->
           2^Below(LayoutOf[id].members[j].reads, 0)]]

IsPiece(p) ==
  /\ p.byte \in Nat /\ p.factor \in Nat \ {0}
  /\ p.modulus \in Nat \ {0, 1} /\ p.weight \in Nat \ {0}

\* What is written to a byte: the pieces lie one above the other, above what the
\* byte is before they are written, and do not leave it.
Largest(p) == (p.modulus - 1) * p.factor
Apart(constant, pieces) ==
  /\ IsFiniteSet(pieces)
  /\ constant \in Nat
  /\ constant + SumFunction([p \in pieces |-> Largest(p)]) <= 255
  /\ \A r \in pieces :
       /\ constant + SumFunction([p \in {q \in pieces : q.factor < r.factor} |-> Largest(p)])
            < r.factor
       /\ \A p \in pieces \ {r} :
            p.factor < r.factor \/ p.factor % (r.factor * r.modulus) = 0

\* What is read of a member: the pieces are all bits of a number, each once.
Complete(pieces, room) ==
  /\ IsFiniteSet(pieces)
  /\ \E p \in pieces : p.weight * p.modulus = room
  /\ \A p \in pieces :
       /\ p.weight * p.modulus <= room
       /\ p.weight = 1 \/ \E q \in pieces : q.weight * q.modulus = p.weight
       /\ \A q \in pieces \ {p} :
            p.weight * p.modulus <= q.weight \/ q.weight * q.modulus <= p.weight

\* There is room for what a member of its kind may hold, and no more than that
\* is ever read.
Roomy(member, room) ==
  CASE member.kind = "signed" ->
         /\ room = 2^member.width /\ room = 2 * 2^(member.width - 1)
         /\ 2^(member.width - 1) \in Nat \ {0}
    [] member.kind = "side" -> 2^member.width = 4 /\ member.most = 2 /\ room = 16
    [] member.kind \in {"halves", "tenths"} -> 2^member.width = 65536 /\ room <= 65536
    [] member.kind = "above" -> room = 65536 /\ member.most = 65435
    [] member.kind = "clamped" -> 2^member.width = 256 /\ member.most \in 0..99 /\ member.most < room
    [] member.kind \in {"latitude", "longitude"} ->
         room = 16777216 /\ member.most \in {90 * 3600, 180 * 3600}
    [] member.kind \in {"course", "heading"} -> room = 1024 /\ 2^member.width = 1024
    [] member.kind \in {"north", "east"} ->
         room = 33554432 /\ member.most \in {90 * 60000, 180 * 60000}
    [] member.kind = "repeated" -> room = 65536 /\ 2^member.width = 256
    [] OTHER ->
         /\ member.kind = "plain" /\ member.most \in Nat /\ member.most < room
         /\ member.width = 32 \/ (room <= 2^member.width /\ 2^member.width \in Nat)

\* A piece is read where it is written, at most the higher bits are left off.
WrittenAs(p, w) ==
  /\ w.member = p.member /\ w.factor = p.factor /\ w.weight = p.weight
  /\ w.modulus % p.modulus = 0

LayoutIsSound(id) ==
  LET layout == LayoutOf[id]
      members == layout.members
      bytes == 0..(layout.size - 1)
  IN /\ layout.id = id /\ layout.size \in 3..18
     /\ DOMAIN layout.constants = bytes
     /\ \A i \in bytes :
          /\ Apart(layout.constants[i], WrittenTo[id][i])
          /\ \A p \in WrittenTo[id][i] : IsPiece(p) /\ p.member \in DOMAIN members
     /\ layout.constants[0] = id /\ WrittenTo[id][0] = {}
     /\ layout.constants[1] % 16 = layout.size - 3
     /\ \A p \in WrittenTo[id][1] : p.factor % 16 = 0
     /\ \A r \in layout.required :
          r[1] \in bytes /\ WrittenTo[id][r[1]] = {} /\ layout.constants[r[1]] = r[2]
     /\ \A j \in DOMAIN members :
          /\ \A p \in ReadFrom[id][j] : IsPiece(p) /\ p.byte \in bytes /\ p.member = j
          /\ Complete(ReadFrom[id][j], Room[id][j])
          /\ Roomy(members[j], Room[id][j])
          /\ Default(members[j].name) \in MayHold(members[j])
          /\ \A k \in DOMAIN members \ {j} : members[k].name # members[j].name
          /\ \/ IsMiswritten(id, members[j]) /\ members[j].kind \in {"halves", "tenths", "plain"}
             \/ /\ members[j].kind \notin {"halves", "tenths"}
                /\ \A p \in ReadFrom[id][j] : \E w \in WrittenTo[id][p.byte] : WrittenAs(p, w)

ASSUME BoundsAssumption == MaxSets \in Nat /\ MaxRelays \in Nat
ASSUME TypesAssumption == Types \subseteq DOMAIN LayoutOf
ASSUME ValuesAssumption ==
  \A id \in Types : \A member \in ToSet(LayoutOf[id].members) :
    \A v \in Values(member) : Stored(member, v) \in MayHold(member)
ASSUME ForeignAssumption ==
  \A id \in Types : \A data \in Foreign(id) :
    data \in Seq(0..255) /\ data # <<>> /\ At(data, 0) = id
ASSUME LayoutsAssumption ==
  /\ \A layout \in Layouts : \A other \in Layouts \ {layout} : layout.id # other.id
  /\ \A id \in DOMAIN LayoutOf : LayoutIsSound(id)

-----------------------------------------------------------------------------
Nothing == [outcome |-> "nothing"]

Members == ToSet(LayoutOf[message.type].members)

Constructed(type) == MessageOf(type, [x \in NamesOf(LayoutOf[type]) |-> Default(x)])

MessagesInit ==
  /\ message \in {Constructed(type) : type \in Types}
  /\ sets = 0
  /\ datagram = <<>>
  /\ received = Nothing
  /\ origin = Nothing
  /\ relays = 0

\* A setter.
Set ==
  /\ sets < MaxSets /\ datagram = <<>> /\ origin = Nothing
  /\ \E member \in Members : \E v \in Values(member) :
       message' = [message EXCEPT !.values[member.name] = Stored(member, v)]
  /\ sets' = sets + 1
  /\ UNCHANGED <<datagram, received, origin, relays>>

\* The first object on the way.
First == IF origin = Nothing THEN message ELSE origin

\* encode_message
EncodeMessage ==
  /\ datagram = <<>>
  /\ datagram' \in GetData(message)
  /\ origin' = First
  /\ UNCHANGED <<message, sets, received, relays>>

EncodeFails ==
  /\ datagram = <<>> /\ received = Nothing
  /\ GetData(message) = {}
  /\ received' = Refused("range_error")
  /\ origin' = First
  /\ UNCHANGED <<message, sets, datagram, relays>>

\* Another device sends.
Receive ==
  /\ datagram = <<>> /\ origin = Nothing
  /\ message = Constructed(message.type)
  /\ datagram' \in Foreign(message.type)
  /\ message' = [message EXCEPT !.outcome = "foreign"]
  /\ UNCHANGED <<sets, received, origin, relays>>

\* make_message
Decode ==
  /\ datagram # <<>> /\ received = Nothing
  /\ received' = MakeMessage(datagram)
  /\ UNCHANGED <<message, sets, datagram, origin, relays>>

\* What was received is sent on.
Relay ==
  /\ received.outcome = "message" /\ relays < MaxRelays
  /\ relays' = relays + 1
  /\ message' = received
  /\ datagram' = <<>>
  /\ received' = Nothing
  /\ UNCHANGED <<sets, origin>>

MessagesNext == Set \/ EncodeMessage \/ EncodeFails \/ Receive \/ Decode \/ Relay

MessagesSpec == MessagesInit /\ [][MessagesNext]_messageVars

-----------------------------------------------------------------------------
IsMessage(m) ==
  /\ m.type \in Types
  /\ DOMAIN m.values = NamesOf(LayoutOf[m.type])
  /\ \A member \in ToSet(LayoutOf[m.type].members) : m.values[member.name] \in MayHold(member)

\* Objects hold what their members can hold, datagrams are bytes.
MessagesTypeOK ==
  /\ IsMessage(message)
  /\ sets \in 0..MaxSets /\ relays \in 0..MaxRelays
  /\ \A i \in DOMAIN datagram : datagram[i] \in 0..255
  /\ received.outcome \in {"nothing", "message", "invalid_argument", "unknown", "range_error"}
  /\ received.outcome = "message" => IsMessage(received)

\* What the datagram has no room for comes back as something else.
Fits(member, v) ==
  \/ member.kind \in {"signed", "latitude", "longitude", "north", "east", "course", "heading"}
  \/ v <= member.most

\* As exactly as the datagram can say it: coordinates may be rounded towards
\* zero, a course is a direction.
Same(member, sent, got) ==
  CASE member.kind \in {"latitude", "longitude", "north", "east"} ->
         /\ Absolute(sent) - Absolute(got) \in 0..1
         /\ got < 0 => sent < 0
         /\ got > 0 => sent > 0
    [] member.kind \in {"course", "heading"} -> got % 720 = sent % 720
    [] OTHER -> got = sent

AllSame(members) ==
  /\ received.outcome = "message"
  /\ received.type = message.type
  /\ \A member \in members :
       Fits(member, message.values[member.name]) =>
         Same(member, message.values[member.name], received.values[member.name])

Own == message.outcome = "message" /\ received # Nothing

Miswritten == {member \in Members : IsMiswritten(message.type, member)}

\* What get_data writes make_message reads: whatever is set, and whatever another
\* device has sent, is the same after it has been sent on, members that share
\* bytes do not disturb each other, own datagrams pass check_size
\* (message.cpp:check_size, message_NN.cpp).  Nothing is claimed of Miswritten
\* members, of message_24, which is not registered, and of an object with a member
\* get_data cannot convert: DocumentedReadBack is the claim without exceptions.
ReadBack ==
  (/\ Own /\ message.type # Message24.id
   /\ \A member \in Members : Castable(member, message.values[member.name]))
    => AllSame(Members \ Miswritten)

\* "Suported messages for SeaTalk (decode and encode)" (README.md:186): whatever
\* is set in a message of the list there, it arrives when the message is encoded
\* and decoded.
DocumentedReadBack == Own => AllSame(Members)

\* A coordinate that is sent on again and again moves towards zero by two
\* seconds at most, and never to the other hemisphere (message_50.cpp:29,
\* message_51.cpp:29: both directions round down).
PositionNear ==
  (origin # Nothing /\ received.outcome = "message") =>
    \A member \in Members :
      member.kind \in {"latitude", "longitude"} =>
        LET first == origin.values[member.name]
            now == received.values[member.name]
        IN /\ Absolute(first) - Absolute(now) \in 0..2
           /\ now < 0 => first < 0
           /\ now > 0 => first > 0
=============================================================================
