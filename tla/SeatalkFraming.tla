--------------------------- MODULE SeatalkFraming ---------------------------
(***************************************************************************)
(* What the SeaTalk reader promises, without counters, escapes or parity:  *)
(* a command character starts a datagram, data characters extend it until  *)
(* it has the length its attribute announces, and completing it delivers   *)
(* it.  SeatalkReader implements this specification.                       *)
(***************************************************************************)
EXTENDS Integers, Sequences

CONSTANTS
  Byte,              \* values of a SeaTalk character
  COLLISION_MODULUS  \* where the collision counter wraps

VARIABLES
  datagram,   \* characters received since the last command, <<>> before any
  collisions, \* datagrams cut short by another command
  delivered   \* what the last step handed over, <<>> if nothing

vars == <<datagram, collisions, delivered>>

\* The length of a datagram is known once its second character is there.
Announced(d) == Len(d) >= 2
Complete(d) == Announced(d) /\ Len(d) = 3 + (d[2] % 16)

Init ==
  /\ datagram = <<>>
  /\ collisions = 0
  /\ delivered = <<>>

Command(c) ==
  /\ datagram' = <<c>>
  /\ collisions' = IF Announced(datagram) /\ ~Complete(datagram)
                     THEN (collisions + 1) % COLLISION_MODULUS
                     ELSE collisions
  /\ delivered' = <<>>

Extend(c) ==
  /\ datagram # <<>> /\ ~Complete(datagram)
  /\ datagram' = Append(datagram, c)
  /\ delivered' = IF Complete(datagram') THEN datagram' ELSE <<>>
  /\ UNCHANGED collisions

\* A stray data character after a complete datagram delivers it once more:
\* seatalk_reader.cpp:94, 105 and 116 test remaining, which is still 0.  ("If a
\* complete SeaTalk message was received the method process_message will be
\* executed", says line 145, of a message and not of each character after it.)
Redeliver ==
  /\ Complete(datagram)
  /\ delivered' = datagram
  /\ UNCHANGED <<datagram, collisions>>

\* Everything else: data out of sync, escapes, errors, end of file, close.
Nothing ==
  /\ delivered' = <<>>
  /\ UNCHANGED <<datagram, collisions>>

Next ==
  \/ \E c \in Byte : Command(c) \/ Extend(c)
  \/ Redeliver
  \/ Nothing

Spec == Init /\ [][Next]_vars
=============================================================================
