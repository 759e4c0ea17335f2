------------------------------ MODULE MCSeatalk ------------------------------
(***************************************************************************)
(* Instance of SeatalkReader and SeatalkMessages for TLC: bytes to         *)
(* datagrams, and datagrams to objects, one after the other in one run.    *)
(* They share nothing; half says which of them moves.                      *)
(*                                                                         *)
(* Of the messages: every message, values at the limits of the members and *)
(* of the room for them in the datagram, and datagrams of other devices.   *)
(***************************************************************************)
EXTENDS SeatalkReader, SeatalkMessages

CONSTANT MaxIndex  \* longest message the reader explores, a bound of the check

VARIABLE half

WithinBound == index <= MaxIndex

-----------------------------------------------------------------------------
AllTypes == DOMAIN LayoutOf

\* A position, in units of which there are n in a degree: poles and fractions
\* which do and do not survive rounding.
Angles(member, n) ==
  LET some == {0, 1, 2, 3, 59, 60, n - 1, n, 10 * n + 61, member.most - 1, member.most}
  IN some \cup {-v : v \in some}

ValuesOf(member) ==
  CASE member.kind = "signed" -> {0, 1, 127, 2^(member.width - 1) - 1, -1, -(2^(member.width - 1))}
    [] member.kind = "side" -> 0..2
    [] member.kind = "clamped" -> {0, 1, member.most, member.most + 1, 255}
    [] member.kind = "above" -> {-100, -1, 0, 200, 65435}
    [] member.kind \in {"course", "heading"} -> {0, 1, 2, 3, 4, 179, 180, 359, 360, 541, 719, 720}
    [] member.kind \in {"latitude", "longitude"} -> Angles(member, 3600)
    [] member.kind \in {"north", "east"} -> Angles(member, 60000)
    [] member.width = 32 -> {0, 1, 255, 256, 65535, 65536, member.most, member.most + 1}
    [] OTHER -> {v \in {0, 1, 9, 15, 16, 63, 64, 128, 255, 256, 1279, 65535} : v < 2^member.width}

\* Bytes of other devices, fewer of them where a datagram has many.
Alphabet(size) ==
  CASE size <= 4 -> {0, 1, 2, 9, 63, 64, 128, 255}
    [] size = 5 -> {0, 1, 60, 98, 128, 255}
    [] size <= 7 -> {0, 90, 255}
    [] OTHER -> {0, 90}

\* Any attribute that announces the right size, with any data; and datagrams of
\* another size, or that announce one.
ForeignOf(type) ==
  LET size == LayoutOf[type].size
      Attribute(high) == <<type, 16 * high + size - 3>>
  IN {Attribute(high) \o bytes :
         high \in {0, 1, 2, 3, 7, 15}, bytes \in [1..(size - 2) -> Alphabet(size)]}
       \cup {Attribute(0) \o [i \in 1..n |-> 0] : n \in {size - 3, size - 1}}
       \cup {<<type, a>> \o [i \in 1..(size - 2) |-> 0] : a \in {size - 2, (size - 4) % 16}}

\* Messages whose encoding is documented and which do not come back.
Unread == {36, 88}

-----------------------------------------------------------------------------
MessagesAtRest ==
  /\ message = Constructed(CHOOSE type \in Types : TRUE)
  /\ sets = MaxSets /\ relays = MaxRelays
  /\ datagram = <<>> /\ received = Nothing /\ origin = Nothing

SeatalkInit ==
  \/ half = "reader" /\ MessagesAtRest /\ Init
  \/ half = "messages" /\ Init /\ ~dev /\ MessagesInit

SeatalkNext ==
  /\ \/ half = "reader" /\ Next /\ UNCHANGED messageVars
     \/ half = "messages" /\ MessagesNext /\ UNCHANGED vars
  /\ UNCHANGED half

SeatalkSpec == SeatalkInit /\ [][SeatalkNext]_<<half, vars, messageVars>>
=============================================================================
