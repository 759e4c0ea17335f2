--------------------------- MODULE SeatalkReader ---------------------------
(***************************************************************************)
(* marnav::io::seatalk_reader: turns the raw bytes of a serial device in   *)
(* PARMRK mode into SeaTalk messages.  The ninth (command) bit of a        *)
(* SeaTalk character arrives as a parity error, which the terminal driver  *)
(* quotes as FF 00 v; a genuine FF arrives as FF FF.                       *)
(*                                                                         *)
(* One action is one call of a public member function.  The device may     *)
(* deliver any byte of Byte, end of file or an error, and the overridden   *)
(* process_message may return or throw (CallbackOutcome).                  *)
(***************************************************************************)
EXTENDS Integers, FiniteSets

CONSTANTS
  Byte,              \* values a device can deliver, a subset of 0..255
  MAX_MESSAGE_SIZE,  \* capacity of ctx_.data
  COLLISION_MODULUS, \* ctx_.collisions is a uint32_t and wraps here
  CallbackOutcome    \* how process_message may end

ASSUME ByteAssumption == Byte \subseteq 0..255
ASSUME SizeAssumption ==
  MAX_MESSAGE_SIZE \in Nat /\ MAX_MESSAGE_SIZE >= 18 /\ MAX_MESSAGE_SIZE < 254
ASSUME ModulusAssumption == COLLISION_MODULUS \in Nat \ {0}
ASSUME CallbackAssumption ==
  CallbackOutcome \subseteq {"true", "callback_error"} /\ "true" \in CallbackOutcome

VARIABLES
  dev,        \* dev_ holds a device
  state,      \* ctx_.state
  index,      \* ctx_.index
  remaining,  \* ctx_.remaining: 255 not in sync, 254 attribute awaited
  data,       \* ctx_.data
  collisions, \* ctx_.collisions
  emitted,    \* message process_message got during the last call, <<>> if none
  outcome     \* how the last call ended

framing == <<index, remaining, data, collisions>>
vars == <<dev, state, index, remaining, data, collisions, emitted, outcome>>

NotInSync == 255
AttributeAwaited == 254
Outcomes == {"none", "true", "false", "callback_error", "bus_error",
             "read_error", "device_invalid"}

Parity(a) == Cardinality({i \in 0..7 : (a \div 2^i) % 2 = 1}) % 2 = 0

\* Bytes 0 .. n-1 of the array d, as the vector handed to process_message.
Message(d, n) == [i \in 1..n |-> d[i - 1]]

Init ==
  /\ dev \in BOOLEAN
  /\ state = "READ"
  /\ index = 0
  /\ remaining = NotInSync
  /\ data = [i \in 0..(MAX_MESSAGE_SIZE - 1) |-> 0]
  /\ collisions = 0
  /\ emitted = <<>>
  /\ outcome = "none"

\* Mutant of WriteCmd: a command after a complete message counts too.
WriteCmdCountsComplete(c) ==
  /\ collisions' = IF remaining < AttributeAwaited
                     THEN (collisions + 1) % COLLISION_MODULUS
                     ELSE collisions
  /\ data' = [data EXCEPT ![0] = c]
  /\ index' = 1
  /\ remaining' = AttributeAwaited

\* Mutant of WriteCmd: the index is not rewound.
WriteCmdKeepsIndex(c) ==
  /\ collisions' = IF remaining > 0 /\ remaining < AttributeAwaited
                     THEN (collisions + 1) % COLLISION_MODULUS
                     ELSE collisions
  /\ data' = [data EXCEPT ![0] = c]
  /\ index' = IF index = 0 THEN 1 ELSE index
  /\ remaining' = AttributeAwaited

WriteCmd(c) ==
  /\ collisions' = IF remaining > 0 /\ remaining < AttributeAwaited
                     THEN (collisions + 1) % COLLISION_MODULUS
                     ELSE collisions
  /\ data' = [data EXCEPT ![0] = c]
  /\ index' = 1
  /\ remaining' = AttributeAwaited

\* Mutant of Accepts: a complete message still takes data.
AcceptsWhenComplete == index < MAX_MESSAGE_SIZE /\ remaining # NotInSync

Accepts == index < MAX_MESSAGE_SIZE /\ remaining # 0 /\ remaining # NotInSync

\* Mutant of WriteData: the command is counted as still missing.
WriteDataForgetsCmd(c) ==
  IF Accepts
    THEN /\ data' = [data EXCEPT ![index] = c]
         /\ index' = index + 1
         /\ remaining' = (IF remaining = AttributeAwaited
                            THEN 3 + (c % 16) ELSE remaining) - 1
         /\ UNCHANGED collisions
    ELSE UNCHANGED framing

WriteData(c) ==
  IF Accepts
    THEN /\ data' = [data EXCEPT ![index] = c]
         /\ index' = index + 1
         /\ remaining' = (IF remaining = AttributeAwaited
                            THEN 3 + (c % 16) - 1 ELSE remaining) - 1
         /\ UNCHANGED collisions
    ELSE UNCHANGED framing

\* A command character: the rest of process_seatalk only sets the state.
CommandByte(c) ==
  /\ WriteCmd(c)
  /\ state' = "READ"
  /\ emitted' = <<>>
  /\ outcome' = "true"

\* Mutant of DataByte: the message is emitted one byte early.
DataByteEmitsEarly(c) ==
  /\ WriteData(c)
  /\ IF remaining' = 1
       THEN emitted' = Message(data', index') /\ outcome' \in CallbackOutcome
       ELSE emitted' = <<>> /\ outcome' = "true"
  /\ state' = IF outcome' = "true" THEN "READ" ELSE state

\* A data character.  state is assigned after the callback: a callback that
\* throws leaves it as it was.
DataByte(c) ==
  /\ WriteData(c)
  /\ IF remaining' = 0
       THEN emitted' = Message(data', index') /\ outcome' \in CallbackOutcome
       ELSE emitted' = <<>> /\ outcome' = "true"
  /\ state' = IF outcome' = "true" THEN "READ" ELSE state

\* A byte that only moves the escape automaton.
EscapeByte(next, how) ==
  /\ state' = next
  /\ emitted' = <<>>
  /\ outcome' = how
  /\ UNCHANGED framing

ProcessRead(raw) ==
  /\ state = "READ"
  /\ \/ raw = 255 /\ EscapeByte("ESCAPE", "true")
     \/ raw # 255 /\ Parity(raw) /\ CommandByte(raw)
     \/ raw # 255 /\ ~Parity(raw) /\ DataByte(raw)

ProcessEscape(raw) ==
  /\ state = "ESCAPE"
  /\ \/ raw = 0 /\ EscapeByte("PARITY", "true")
     \/ raw = 255 /\ DataByte(raw)
     \/ raw \notin {0, 255} /\ EscapeByte("ESCAPE", "bus_error")

\* Mutant of ProcessParity: the break of the state assignment is misplaced, a
\* command leaves the state as it is.
ProcessParityStays(raw) ==
  /\ state = "PARITY"
  /\ \/ Parity(raw) /\ DataByte(raw)
     \/ /\ ~Parity(raw)
        /\ WriteCmd(raw)
        /\ state' = state
        /\ emitted' = <<>>
        /\ outcome' = "true"

ProcessParity(raw) ==
  /\ state = "PARITY"
  /\ \/ Parity(raw) /\ DataByte(raw)
     \/ ~Parity(raw) /\ CommandByte(raw)

\* read() when the device delivers the byte raw.
ReadByte(raw) ==
  /\ dev
  /\ ProcessRead(raw) \/ ProcessEscape(raw) \/ ProcessParity(raw)
  /\ UNCHANGED dev

\* read() when no byte is delivered: end of file, an error of the device, or
\* no device at all.
ReadNothing(how) ==
  /\ \/ dev /\ how \in {"false", "read_error"}
     \/ ~dev /\ how = "device_invalid"
  /\ emitted' = <<>>
  /\ outcome' = how
  /\ UNCHANGED <<dev, state, index, remaining, data, collisions>>

Close ==
  /\ dev' = FALSE
  /\ emitted' = <<>>
  /\ outcome' = "none"
  /\ UNCHANGED <<state, index, remaining, data, collisions>>

Next ==
  \/ \E raw \in Byte : ReadByte(raw)
  \/ \E how \in Outcomes : ReadNothing(how)
  \/ Close

Spec == Init /\ [][Next]_vars

-----------------------------------------------------------------------------
\* Type correctness of the reader's context.  index and remaining are uint8_t.
TypeOK ==
  /\ dev \in BOOLEAN
  /\ state \in {"READ", "ESCAPE", "PARITY"}
  /\ index \in 0..MAX_MESSAGE_SIZE
  /\ remaining \in 0..255
  /\ data \in [0..(MAX_MESSAGE_SIZE - 1) -> 0..255]
  /\ collisions \in 0..(COLLISION_MODULUS - 1)
  /\ outcome \in Outcomes

\* The length a message has: command, attribute, and 1 + low nibble bytes.
DatagramLength(attribute) == 3 + (attribute % 16)

\* index and remaining always agree on where the message under collection
\* stands: the two sentinels only at the positions where they mean something,
\* and otherwise collected plus missing bytes add up to the announced length,
\* so that the write through ctx_.index never leaves the buffer.
CountersAgree ==
  /\ remaining = NotInSync => index = 0
  /\ remaining = AttributeAwaited => index = 1
  /\ remaining < AttributeAwaited =>
       index >= 2 /\ index + remaining = DatagramLength(data[1])
  /\ index < MAX_MESSAGE_SIZE \/ remaining = 0

\* Every message handed to process_message has exactly the length its own
\* attribute byte announces, whatever errors and resynchronisations preceded.
EmittedWellFormed ==
  emitted # <<>> =>
    /\ DOMAIN emitted = 1..DatagramLength(data[1])
    /\ emitted = Message(data, index)

\* The collision counter moves only when a message was cut between its
\* attribute byte and its last byte.
CollisionMeansTruncation ==
  [][collisions' # collisions =>
       index >= 2 /\ index < DatagramLength(data[1]) /\ index' = 1]_vars

\* The reader implements SeatalkFraming: counters, escape automaton, parity and
\* error paths together do no more than frame datagrams.
Framing == INSTANCE SeatalkFraming
             WITH datagram <- Message(data, index), delivered <- emitted
ImplementsFraming == Framing!Spec
=============================================================================
