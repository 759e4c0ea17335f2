---------------------------- MODULE SeatalkLine ----------------------------
(***************************************************************************)
(* A SeaTalk reader listening to a bus.  Talkers put nine-bit characters   *)
(* on the bus and may cut each other off; the serial driver turns each     *)
(* character into one to three raw bytes (PARMRK, see                      *)
(* Test_io_seatalk_reader.cpp:10) and queues them; an application calls    *)
(* default_seatalk_reader::read_message in a loop, as the examples do.     *)
(*                                                                         *)
(* The bus and the serial driver are not part of the repository.  Loss     *)
(* says what the driver may lose on an overrun: nothing, whole characters, *)
(* or single bytes of the quoted stream.                                   *)
(***************************************************************************)
EXTENDS SeatalkReader, Sequences, SequencesExt

CONSTANTS
  Commands, Attributes, DataBytes,  \* what talkers send
  Loss,        \* "none", "characters" or "bytes"
  MaxLosses,   \* bound of the check: overruns
  MaxTty,      \* bound of the check: bytes waiting in the driver
  JoinsLate    \* the reader may start listening in the middle of a datagram

\* No message has the command FF: a quoted FF is data (seatalk_reader.cpp:104).
ASSUME TalkersAssumption ==
  /\ Commands \subseteq Byte \ {255}
  /\ Attributes \subseteq Byte /\ DataBytes \subseteq Byte
  /\ {0, 255} \subseteq Byte
ASSUME LossAssumption == Loss \in {"none", "characters", "bytes"}

VARIABLES
  bus,      \* characters of the datagram now on the bus
  intact,   \* all of them reached the driver while the reader listened
  cut,      \* intact datagrams another command cut after their attribute
  pending,  \* intact datagrams completed and not yet returned, oldest first
  tty,      \* raw bytes waiting in the driver
  losses    \* overruns so far

lineVars == <<bus, intact, cut, pending, tty, losses>>
allVars == <<vars, lineVars>>

\* The bytes a character becomes: a parity error iff its command bit is not
\* the parity of its value.  An error is quoted FF 00 v, a good FF is FF FF.
Encode(isCommand, v) ==
  IF isCommand # Parity(v) THEN <<255, 0, v>>
  ELSE IF v = 255 THEN <<255, 255>>
  ELSE <<v>>

LineInit ==
  /\ Init /\ dev
  /\ bus \in {<<>>} \cup (IF JoinsLate
                            THEN {<<c>> : c \in Commands} \cup Commands \X Attributes
                            ELSE {})
  /\ intact = FALSE
  /\ cut = 0
  /\ pending = <<>>
  /\ tty = <<>>
  /\ losses = 0

\* What an overrun may leave of the bytes enc of one character.
Damaged(enc) ==
  CASE Loss = "none"       -> {}
    [] Loss = "characters" -> {<<>>}
    [] Loss = "bytes"      -> {RemoveAt(enc, i) : i \in 1..Len(enc)}

\* The bytes enc of one character arrive in the driver, or what an overrun
\* leaves of them; wasIntact says whether the rest of its datagram arrived.
Arrives(enc, wasIntact) ==
  /\ Len(tty) + Len(enc) <= MaxTty
  /\ \/ tty' = tty \o enc /\ intact' = wasIntact /\ UNCHANGED losses
     \/ /\ losses < MaxLosses
        /\ \E rest \in Damaged(enc) : tty' = tty \o rest
        /\ losses' = losses + 1
        /\ intact' = FALSE

TalkCommand(c) ==
  /\ bus' = <<c>>
  /\ cut' = IF intact /\ Framing!Announced(bus) /\ ~Framing!Complete(bus)
              THEN (cut + 1) % COLLISION_MODULUS ELSE cut
  /\ Arrives(Encode(TRUE, c), TRUE)
  /\ UNCHANGED <<pending, vars>>

TalkData(c) ==
  /\ bus # <<>> /\ ~Framing!Complete(bus)
  /\ c \in IF Len(bus) = 1 THEN Attributes ELSE DataBytes
  /\ bus' = Append(bus, c)
  /\ Arrives(Encode(FALSE, c), intact)
  /\ pending' = IF Framing!Complete(bus') /\ intact'
                  THEN Append(pending, bus') ELSE pending
  /\ UNCHANGED <<cut, vars>>

\* Mutant of ReadMessage: two bytes are fetched and only the second is kept.
ReadMessageSkips ==
  /\ tty # <<>>
  /\ ReadByte(Last(tty))
  /\ tty' = <<>>
  /\ pending' = IF pending # <<>> /\ emitted' = Head(pending)
                  THEN Tail(pending) ELSE pending
  /\ UNCHANGED <<bus, intact, cut, losses>>

\* One turn of the loop in read_message.  A call that made process_message run
\* returns that message at once, so what it returns is what the turn emits.
ReadMessage ==
  /\ tty # <<>>
  /\ ReadByte(Head(tty))
  /\ tty' = Tail(tty)
  /\ pending' = IF pending # <<>> /\ emitted' = Head(pending)
                  THEN Tail(pending) ELSE pending
  /\ UNCHANGED <<bus, intact, cut, losses>>

LineNext ==
  \/ \E c \in Commands : TalkCommand(c)
  \/ \E c \in Attributes \cup DataBytes : TalkData(c)
  \/ ReadMessage

\* The application keeps reading; nothing makes the talkers go on.
LineSpec == LineInit /\ [][LineNext]_allVars /\ WF_allVars(ReadMessage)

-----------------------------------------------------------------------------
\* When the driver has nothing left the reader stands exactly where the bus
\* does: no half-consumed escape, the same characters of a datagram that arrives
\* intact whatever was lost before, and, before any loss, the same number of
\* collisions and nothing that is not on the bus.
DrainedAgrees ==
  tty = <<>> =>
    /\ state = "READ"
    /\ intact => Message(data, index) = bus
    /\ losses = 0 => collisions = cut /\ (index # 0 => Message(data, index) = bus)

\* When the driver has nothing left no intact datagram is still owed.
NothingForgotten == tty = <<>> => pending = <<>>

\* "data was successfully read from the SeaTalk bus, inclusive synchronization
\* ... begin to listen on the bus at any time" (read_seatalk.cpp:71): as long as
\* nothing is lost every message returned is the oldest intact datagram not yet
\* returned.
ReturnsNextIntact ==
  [][Len(tty') < Len(tty) /\ emitted' # <<>> /\ losses = 0 =>
       pending # <<>> /\ emitted' = Head(pending)]_allVars

\* An intact datagram does not wait for ever: the application gets a message,
\* which ReturnsNextIntact says is that one unless an earlier one was due.
IntactEventuallyReturned == pending # <<>> ~> emitted # <<>>
=============================================================================
