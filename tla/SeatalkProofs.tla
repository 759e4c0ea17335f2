---------------------------- MODULE SeatalkProofs ----------------------------
(***************************************************************************)
(* Proofs about the two halves of SeaTalk, which share nothing but the     *)
(* bytes of a datagram: first the reader that collects them, alone and on  *)
(* the bus, then the messages that are made of them and written as them.   *)
(***************************************************************************)
EXTENDS SeatalkLine, SeatalkMessages, RecursionFacts, SequenceTheorems

-----------------------------------------------------------------------------
(***************************************************************************)
(* Of the reader alone: its safety for every alphabet, buffer size of at   *)
(* least 18 bytes and collision modulus.  The inductive invariant is the   *)
(* type invariant together with CountersAgree: index and remaining alone   *)
(* do not bound the writes to data, their agreement with the attribute     *)
(* byte does.                                                              *)
(*                                                                         *)
(* Of the reader on the bus: where it stands when the driver is empty, and *)
(* that it owes no message then, for any alphabet, any bus, any length of  *)
(* the queue of the driver and any number of characters lost as a whole.   *)
(* While bytes are queued reader and bus differ; the invariant says that   *)
(* the bytes on the way lead the reader from where it stands to where the  *)
(* bus stands, and that it hands over on that way what is pending, in this *)
(* order.                                                                  *)
(***************************************************************************)

IInv == TypeOK /\ CountersAgree

\* A byte's low nibble lies between 0 and 15.
LEMMA Nibble == ASSUME NEW c \in 0..255 PROVE c % 16 \in 0..15
  BY SMT

\* The constructor establishes the invariant.
LEMMA InitIInv == Init => IInv
  BY SizeAssumption, ModulusAssumption, SMT
     DEF Init, IInv, TypeOK, CountersAgree, NotInSync, AttributeAwaited, Outcomes

\* A command character restarts the message under collection consistently.
LEMMA CommandByteIInv ==
  ASSUME IInv, NEW c \in Byte, CommandByte(c), UNCHANGED dev PROVE IInv'
<1>1. c \in 0..255
  BY ByteAssumption
<1>2. collisions' \in 0..(COLLISION_MODULUS - 1)
  BY ModulusAssumption, SMT DEF IInv, TypeOK, CommandByte, WriteCmd
<1>3. data' \in [0..(MAX_MESSAGE_SIZE - 1) -> 0..255]
  BY <1>1, SizeAssumption, SMT DEF IInv, TypeOK, CommandByte, WriteCmd
<1>4. TypeOK'
  BY <1>2, <1>3, SizeAssumption, SMT
     DEF IInv, TypeOK, CommandByte, WriteCmd, AttributeAwaited, Outcomes
<1>5. CountersAgree'
  BY SizeAssumption, SMT
     DEF CommandByte, WriteCmd, CountersAgree, NotInSync, AttributeAwaited
<1> QED
  BY <1>4, <1>5 DEF IInv

\* A data character advances both counters together or leaves them alone.
LEMMA DataByteIInv ==
  ASSUME IInv, NEW c \in Byte, DataByte(c), UNCHANGED dev PROVE IInv'
<1>1. c \in 0..255
  BY ByteAssumption
<1>2. c % 16 \in 0..15
  BY <1>1, Nibble
<1>3. state' \in {"READ", "ESCAPE", "PARITY"} /\ outcome' \in Outcomes
  BY CallbackAssumption DEF IInv, TypeOK, DataByte, Outcomes
<1>4. CASE ~Accepts
  BY <1>3, <1>4, SMT
     DEF IInv, TypeOK, CountersAgree, DataByte, WriteData, framing, DatagramLength
<1>5. CASE Accepts
  <2> DEFINE Slots == 0..(MAX_MESSAGE_SIZE - 1)
  <2>a. index \in Slots /\ data \in [Slots -> 0..255]
    BY <1>5, SizeAssumption, SMT DEF IInv, TypeOK, Accepts
  <2>b. /\ data' = [data EXCEPT ![index] = c]
        /\ index' = index + 1
        /\ collisions' = collisions
    BY <1>5 DEF DataByte, WriteData
  <2>1. data' \in [Slots -> 0..255]
    BY <1>1, <2>a, <2>b
  <2>c. 1 \in Slots
    BY SizeAssumption, SMT
  <2>2. CASE remaining = AttributeAwaited
    <3>1. index = 1 /\ index' = 2
      BY <1>5, <2>2 DEF IInv, CountersAgree, DataByte, WriteData
    <3>2. remaining' = (3 + (c % 16) - 1) - 1
      BY <1>5, <2>2 DEF DataByte, WriteData
    <3>3. data'[1] = c
      BY <2>a, <2>b, <2>c, <3>1
    <3>4. index' \in 0..MAX_MESSAGE_SIZE /\ remaining' \in 0..255
      BY <1>2, <3>1, <3>2, SizeAssumption, SMT
    <3>5. TypeOK'
      BY <1>3, <2>1, <2>b, <3>4 DEF IInv, TypeOK
    <3>6. CountersAgree'
      BY <1>2, <3>1, <3>2, <3>3, SizeAssumption, SMT
         DEF CountersAgree, DatagramLength, NotInSync, AttributeAwaited
    <3> QED
      BY <3>5, <3>6 DEF IInv
  <2>3. CASE remaining # AttributeAwaited
    <3>1. remaining \in 1..253
      BY <1>5, <2>3, SMT DEF IInv, TypeOK, Accepts, NotInSync, AttributeAwaited
    <3>2. index >= 2 /\ index + remaining = DatagramLength(data[1])
      BY <3>1, SMT DEF IInv, CountersAgree, AttributeAwaited
    <3>3. index' = index + 1 /\ remaining' = remaining - 1
      BY <1>5, <2>3 DEF DataByte, WriteData
    <3>4. data'[1] = data[1]
      <4>1. index # 1
        BY <2>a, <3>2, SMT
      <4> QED
        BY <2>a, <2>b, <2>c, <4>1
    <3>5. data[1] % 16 \in 0..15
      BY <2>a, <2>c, Nibble
    <3>6. index' \in 0..MAX_MESSAGE_SIZE /\ remaining' \in 0..255
      BY <2>a, <3>1, <3>3, SizeAssumption, SMT
    <3>7. TypeOK'
      BY <1>3, <2>1, <2>b, <3>6 DEF IInv, TypeOK
    <3>8. CountersAgree'
      BY <2>a, <3>1, <3>2, <3>3, <3>4, <3>5, SizeAssumption, SMT
         DEF CountersAgree, DatagramLength, NotInSync, AttributeAwaited
    <3> QED
      BY <3>7, <3>8 DEF IInv
  <2> QED
    BY <2>2, <2>3
<1> QED
  BY <1>4, <1>5

\* Escape marks and bus errors leave the message under collection alone.
LEMMA EscapeByteIInv ==
  ASSUME IInv, NEW next \in {"READ", "ESCAPE", "PARITY"}, NEW how \in Outcomes,
         EscapeByte(next, how), UNCHANGED dev
  PROVE  IInv'
  BY DEF IInv, TypeOK, CountersAgree, EscapeByte, framing, DatagramLength

\* Every call of the reader preserves the invariant.
LEMMA NextIInv == IInv /\ [Next]_vars => IInv'
<1> SUFFICES ASSUME IInv, [Next]_vars PROVE IInv'
  OBVIOUS
<1>1. ASSUME NEW raw \in Byte, ReadByte(raw) PROVE IInv'
  <2>1. UNCHANGED dev
    BY <1>1 DEF ReadByte
  <2>2. CASE CommandByte(raw)
    BY <2>1, <2>2, CommandByteIInv
  <2>3. CASE DataByte(raw)
    BY <2>1, <2>3, DataByteIInv
  <2>4. CASE \E next \in {"READ", "ESCAPE", "PARITY"}, how \in Outcomes :
                EscapeByte(next, how)
    BY <2>1, <2>4, EscapeByteIInv
  <2> QED
    BY <1>1, <2>2, <2>3, <2>4
       DEF ReadByte, ProcessRead, ProcessEscape, ProcessParity, Outcomes
<1>2. ASSUME NEW how \in Outcomes, ReadNothing(how) PROVE IInv'
  BY <1>2 DEF IInv, TypeOK, CountersAgree, ReadNothing, Outcomes, DatagramLength
<1>3. CASE Close
  BY <1>3 DEF IInv, TypeOK, CountersAgree, Close, Outcomes, DatagramLength
<1>4. CASE UNCHANGED vars
  BY <1>4 DEF IInv, TypeOK, CountersAgree, vars, DatagramLength
<1> QED
  BY <1>1, <1>2, <1>3, <1>4 DEF Next

\* In every behaviour of the reader the context is well typed.
THEOREM ReaderTypeOK == Spec => []TypeOK
<1>1. IInv => TypeOK
  BY DEF IInv
<1> QED
  BY <1>1, InitIInv, NextIInv, PTL DEF Spec

\* In every behaviour of the reader index and remaining agree with the length
\* the attribute byte announced, so no write leaves ctx_.data.
THEOREM ReaderCountersAgree == Spec => []CountersAgree
<1>1. IInv => CountersAgree
  BY DEF IInv
<1> QED
  BY <1>1, InitIInv, NextIInv, PTL DEF Spec

\* A call that hands over a message hands over a whole one.
LEMMA NextEmitted ==
  IInv /\ IInv' /\ EmittedWellFormed /\ [Next]_vars => EmittedWellFormed'
<1> SUFFICES ASSUME IInv, IInv', EmittedWellFormed, [Next]_vars,
                    emitted' # <<>>
             PROVE  /\ DOMAIN emitted' = 1..DatagramLength(data'[1])
                    /\ emitted' = Message(data', index')
  BY DEF EmittedWellFormed
<1>1. CASE UNCHANGED vars
  BY <1>1 DEF EmittedWellFormed, vars, Message, DatagramLength
<1>2. ASSUME NEW raw \in Byte, ReadByte(raw)
      PROVE  remaining' = 0 /\ emitted' = Message(data', index')
  BY <1>2 DEF ReadByte, ProcessRead, ProcessEscape, ProcessParity,
              CommandByte, DataByte, EscapeByte
<1>3. CASE \E raw \in Byte : ReadByte(raw)
  <2>1. remaining' = 0 /\ emitted' = Message(data', index')
    BY <1>2, <1>3
  <2>2. index' = DatagramLength(data'[1])
    <3>1. index' + 0 = DatagramLength(data'[1]) /\ index' \in Nat
      BY <2>1, SizeAssumption, SMT
         DEF IInv, TypeOK, CountersAgree, AttributeAwaited
    <3> QED
      BY <3>1, SMT
  <2> QED
    BY <2>1, <2>2 DEF Message
<1>4. CASE Close \/ \E how \in Outcomes : ReadNothing(how)
  BY <1>4 DEF Close, ReadNothing
<1> QED
  BY <1>1, <1>3, <1>4 DEF Next

\* In every behaviour every message given to process_message has exactly the
\* length its attribute byte announces.
THEOREM ReaderEmittedWellFormed == Spec => []EmittedWellFormed
<1>1. Init => EmittedWellFormed
  BY DEF Init, EmittedWellFormed
<1> QED
  BY <1>1, InitIInv, NextIInv, NextEmitted, PTL DEF Spec

\* The collision counter moves only when a message is cut between its
\* attribute byte and its last byte.
THEOREM ReaderCollisions == Spec => CollisionMeansTruncation
<1> DEFINE Cut == collisions' # collisions =>
                    index >= 2 /\ index < DatagramLength(data[1]) /\ index' = 1
<1>1. IInv /\ [Next]_vars => [Cut]_vars
  <2> SUFFICES ASSUME IInv, [Next]_vars, collisions' # collisions
               PROVE  index >= 2 /\ index < DatagramLength(data[1]) /\ index' = 1
    OBVIOUS
  <2>1. PICK raw \in Byte : ReadByte(raw)
    BY DEF Next, vars, Close, ReadNothing
  <2>2. CommandByte(raw)
    BY <2>1 DEF ReadByte, ProcessRead, ProcessEscape, ProcessParity,
                DataByte, WriteData, EscapeByte, framing
  <2>3. remaining > 0 /\ remaining < AttributeAwaited /\ index' = 1
    BY <2>2 DEF CommandByte, WriteCmd
  <2>4. index \in Nat /\ remaining \in Nat
    BY SizeAssumption, SMT DEF IInv, TypeOK
  <2>5. index >= 2 /\ index + remaining = DatagramLength(data[1])
    BY <2>3 DEF IInv, CountersAgree
  <2> QED
    BY <2>3, <2>4, <2>5, SMT
<1> QED
  BY <1>1, InitIInv, NextIInv, PTL DEF Spec, CollisionMeansTruncation

-----------------------------------------------------------------------------
\* The refinement of SeatalkFraming: its datagram is the filled part of data.

Slot == 0..(MAX_MESSAGE_SIZE - 1)

\* The vector built from the first n bytes is a sequence of length n.
LEMMA MessageIsSeq ==
  ASSUME NEW d \in [Slot -> 0..255], NEW n \in 0..MAX_MESSAGE_SIZE
  PROVE  /\ Message(d, n) \in Seq(0..255)
         /\ Len(Message(d, n)) = n
         /\ n >= 2 => Message(d, n)[2] = d[1]
<1>1. \A i \in 1..n : i - 1 \in Slot
  BY SizeAssumption, SMT DEF Slot
<1>2. n \in Nat
  BY SizeAssumption, SMT
<1>3. Message(d, n) \in [1..n -> 0..255]
  BY <1>1 DEF Message
<1>4. Message(d, n) \in Seq(0..255) /\ Len(Message(d, n)) = n
  BY <1>2, <1>3, SMT
<1>5. ASSUME n >= 2 PROVE Message(d, n)[2] = d[1]
  BY <1>2, <1>5, SMT DEF Message
<1> QED
  BY <1>4, <1>5

\* Storing a byte at index and advancing index appends it to the message.
LEMMA MessageAppend ==
  ASSUME NEW d \in [Slot -> 0..255], NEW n \in Slot, NEW c \in 0..255
  PROVE  Message([d EXCEPT ![n] = c], n + 1) = Append(Message(d, n), c)
<1> DEFINE e == [d EXCEPT ![n] = c]
<1>1. n \in 0..MAX_MESSAGE_SIZE /\ n + 1 \in 0..MAX_MESSAGE_SIZE /\ n \in Nat
  BY SizeAssumption, SMT DEF Slot
<1>2. e \in [Slot -> 0..255] /\ e[n] = c /\ \A k \in Slot : k # n => e[k] = d[k]
  OBVIOUS
<1>3. Message(e, n + 1) \in Seq(0..255) /\ Len(Message(e, n + 1)) = n + 1
  BY <1>1, <1>2, MessageIsSeq
<1>4. Message(d, n) \in Seq(0..255) /\ Len(Message(d, n)) = n
  BY <1>1, MessageIsSeq
<1>5. ASSUME NEW i \in 1..(n + 1)
      PROVE  Message(e, n + 1)[i] = Append(Message(d, n), c)[i]
  <2>1. CASE i = n + 1
    BY <1>1, <1>2, <1>4, <2>1, SMT DEF Message
  <2>2. CASE i # n + 1
    <3>1. i \in 1..n /\ i - 1 \in Slot /\ i - 1 # n
      BY <1>1, <2>2, SizeAssumption, SMT DEF Slot
    <3>2. Message(e, n + 1)[i] = d[i - 1]
      BY <1>2, <3>1 DEF Message
    <3>3. Append(Message(d, n), c)[i] = Message(d, n)[i]
      BY <1>4, <3>1, SMT
    <3> QED
      BY <3>1, <3>2, <3>3 DEF Message
  <2> QED
    BY <2>1, <2>2
<1>6. Append(Message(d, n), c) \in Seq(0..255)
      /\ Len(Append(Message(d, n), c)) = n + 1
  BY <1>4, SMT
<1> HIDE DEF e
<1>7. Message(e, n + 1) = Append(Message(d, n), c)
  BY <1>1, <1>3, <1>5, <1>6, SMT
<1> QED
  BY <1>7 DEF e

\* Seen through the refinement mapping, remaining says where the datagram
\* stands: unstarted, without attribute, complete or in between.
LEMMA Mapping ==
  ASSUME IInv
  PROVE  /\ Message(data, index) \in Seq(0..255)
         /\ Len(Message(data, index)) = index
         /\ Framing!Announced(Message(data, index)) <=> remaining < AttributeAwaited
         /\ Framing!Complete(Message(data, index)) <=> remaining = 0
         /\ Message(data, index) = <<>> <=> remaining = NotInSync
<1> DEFINE msg == Message(data, index)
<1>1. /\ msg \in Seq(0..255) /\ Len(msg) = index
      /\ index >= 2 => msg[2] = data[1]
  BY MessageIsSeq DEF IInv, TypeOK, Slot
<1>2. index \in Nat /\ remaining \in 0..255
  BY SizeAssumption, SMT DEF IInv, TypeOK
<1>3. msg = <<>> <=> index = 0
  BY <1>1, SMT
<1>4. CASE remaining = NotInSync
  <2>1. index = 0
    BY <1>4 DEF IInv, CountersAgree
  <2> QED
    BY <1>1, <1>3, <1>4, <2>1, SMT
       DEF Framing!Announced, Framing!Complete, NotInSync, AttributeAwaited
<1>5. CASE remaining = AttributeAwaited
  <2>1. index = 1
    BY <1>5 DEF IInv, CountersAgree
  <2> QED
    BY <1>1, <1>3, <1>5, <2>1, SMT
       DEF Framing!Announced, Framing!Complete, NotInSync, AttributeAwaited
<1>6. CASE remaining < AttributeAwaited
  <2>1. index >= 2 /\ index + remaining = 3 + (data[1] % 16)
    BY <1>6 DEF IInv, CountersAgree, DatagramLength
  <2>2. index = 3 + (data[1] % 16) <=> remaining = 0
    BY <1>2, <2>1, SMT
  <2> HIDE DEF msg
  <2>3. Framing!Announced(msg)
    BY <1>1, <2>1 DEF Framing!Announced
  <2>4. Framing!Complete(msg) <=> remaining = 0
    BY <1>1, <2>1, <2>2, <2>3 DEF Framing!Complete
  <2>5. msg # <<>> /\ remaining # NotInSync
    BY <1>2, <1>3, <1>6, <2>1, SMT DEF NotInSync, AttributeAwaited
  <2> QED
    BY <1>1, <1>6, <2>3, <2>4, <2>5 DEF msg
<1> QED
  BY <1>2, <1>4, <1>5, <1>6, SMT DEF NotInSync, AttributeAwaited

\* A command character of the reader is a command of the framing.
LEMMA CommandByteFraming ==
  ASSUME IInv, NEW c \in Byte, CommandByte(c) PROVE Framing!Command(c)
<1>1. c \in 0..255
  BY ByteAssumption
<1>2. data' = [data EXCEPT ![0] = c] /\ index' = 1 /\ emitted' = <<>>
  BY DEF CommandByte, WriteCmd
<1>3. Message(data', index') = <<c>>
  <2>1. 0 \in DOMAIN data
    BY SizeAssumption, SMT DEF IInv, TypeOK
  <2>2. data'[0] = c
    BY <1>2, <2>1
  <2>3. Message(data', index') = [i \in 1..1 |-> data'[i - 1]]
    BY <1>2 DEF Message
  <2>4. ASSUME NEW i \in 1..1 PROVE data'[i - 1] = c
    BY <2>2, SMT
  <2>5. [i \in 1..1 |-> data'[i - 1]] = [i \in 1..1 |-> c]
    BY <2>4, Zenon
  <2>6. [i \in 1..1 |-> c] = <<c>>
    BY SMT
  <2> QED
    BY <2>3, <2>5, <2>6
<1>4. remaining \in 0..255
  BY DEF IInv, TypeOK
<1>5. (remaining > 0 /\ remaining < AttributeAwaited)
        <=> (/\ Framing!Announced(Message(data, index))
             /\ ~Framing!Complete(Message(data, index)))
  BY <1>4, Mapping, SMT DEF AttributeAwaited
<1> QED
  BY <1>2, <1>3, <1>5 DEF CommandByte, WriteCmd, Framing!Command

\* A data character of the reader extends the datagram, delivers a complete
\* one again, or is dropped out of sync.
LEMMA DataByteFraming ==
  ASSUME IInv, IInv', NEW c \in Byte, DataByte(c)
  PROVE  Framing!Extend(c) \/ Framing!Redeliver \/ Framing!Nothing
<1>1. c \in 0..255
  BY ByteAssumption
<1>2. CASE Accepts
  <2>1. /\ data' = [data EXCEPT ![index] = c]
        /\ index' = index + 1
        /\ collisions' = collisions
    BY <1>2 DEF DataByte, WriteData
  <2>2. index \in Slot /\ data \in [Slot -> 0..255]
    BY <1>2, SizeAssumption, SMTT(60) DEF IInv, TypeOK, Accepts, Slot
  <2>3. Message(data', index') = Append(Message(data, index), c)
    BY <1>1, <2>1, <2>2, MessageAppend
  <2>4. Message(data, index) # <<>> /\ ~Framing!Complete(Message(data, index))
    BY <1>2, Mapping DEF Accepts
  <2>5. Framing!Complete(Message(data', index')) <=> remaining' = 0
    <3>1. IInv' => (Framing!Complete(Message(data, index)) <=> remaining = 0)'
      BY Mapping, PTL
    <3> QED
      BY <3>1
  <2>6. emitted' = IF remaining' = 0 THEN Message(data', index') ELSE <<>>
    BY DEF DataByte
  <2> QED
    BY <2>1, <2>3, <2>4, <2>5, <2>6 DEF Framing!Extend
<1>3. CASE ~Accepts
  <2>1. UNCHANGED framing
    BY <1>3 DEF DataByte, WriteData
  <2>2. CASE remaining = 0
    BY <2>1, <2>2, Mapping DEF DataByte, framing, Framing!Redeliver
  <2>3. CASE remaining # 0
    BY <2>1, <2>3 DEF DataByte, framing, Framing!Nothing
  <2> QED
    BY <2>2, <2>3
<1> QED
  BY <1>2, <1>3

\* The reader implements SeatalkFraming: only whole datagrams are delivered,
\* and the collision counter counts datagrams cut after their attribute.
THEOREM ReaderImplementsFraming == Spec => ImplementsFraming
<1>1. Init => Framing!Init
  <2> SUFFICES ASSUME Init PROVE Message(data, 0) = <<>>
    BY DEF Init, Framing!Init
  <2> QED
    BY SMT DEF Message
<1>2. IInv /\ IInv' /\ [Next]_vars => [Framing!Next]_(Framing!vars)
  <2> SUFFICES ASSUME IInv, IInv', [Next]_vars
               PROVE  Framing!Next \/ UNCHANGED Framing!vars
    OBVIOUS
  <2>1. CASE UNCHANGED vars
    BY <2>1 DEF vars, Framing!vars, Message
  <2>2. ASSUME NEW raw \in Byte, ReadByte(raw) PROVE Framing!Next
    <3>1. CASE CommandByte(raw)
      BY <3>1, CommandByteFraming DEF Framing!Next
    <3>2. CASE DataByte(raw)
      BY <3>2, DataByteFraming DEF Framing!Next
    <3>3. CASE \E next, how : EscapeByte(next, how)
      BY <3>3 DEF EscapeByte, framing, Framing!Next, Framing!Nothing
    <3> QED
      BY <2>2, <3>1, <3>2, <3>3
         DEF ReadByte, ProcessRead, ProcessEscape, ProcessParity
  <2>3. CASE Close \/ \E how \in Outcomes : ReadNothing(how)
    BY <2>3 DEF Close, ReadNothing, Framing!Next, Framing!Nothing
  <2> QED
    BY <2>1, <2>2, <2>3 DEF Next
<1> QED
  BY <1>1, <1>2, InitIInv, NextIInv, PTL DEF Spec, ImplementsFraming, Framing!Spec

-----------------------------------------------------------------------------
\* Where a reader stands: the escape automaton, the datagram, the collisions, and
\* what the last call handed over.
Context(st, msg, coll, out) == [st |-> st, msg |-> msg, coll |-> coll, out |-> out]
Now == Context(state, Message(data, index), collisions, emitted)

OnCommand(a, c) ==
  Context("READ", <<c>>,
          IF Framing!Announced(a.msg) /\ ~Framing!Complete(a.msg)
            THEN (a.coll + 1) % COLLISION_MODULUS ELSE a.coll,
          <<>>)

Extended(msg, c) == IF msg # <<>> /\ ~Framing!Complete(msg) THEN Append(msg, c) ELSE msg
Whole(msg) == IF Framing!Complete(msg) THEN msg ELSE <<>>
OnData(a, c) == Context("READ", Extended(a.msg, c), a.coll, Whole(Extended(a.msg, c)))

\* Where one byte leads.
Escaped(a, st) == Context(st, a.msg, a.coll, <<>>)
Step(a, raw) ==
  IF a.st = "READ"
    THEN IF raw = 255 THEN Escaped(a, "ESCAPE")
         ELSE IF Parity(raw) THEN OnCommand(a, raw) ELSE OnData(a, raw)
  ELSE IF a.st = "ESCAPE"
    THEN IF raw = 0 THEN Escaped(a, "PARITY")
         ELSE IF raw = 255 THEN OnData(a, raw) ELSE Escaped(a, "ESCAPE")
  ELSE IF Parity(raw) THEN OnData(a, raw) ELSE OnCommand(a, raw)

\* h is the way from a to b along the bytes s; the messages of p are handed over at
\* the places at, one after the other, and with exact nothing is at another place.
Way(h, a, s, b) ==
  h[0] = a /\ h[Len(s)] = b /\ \A i \in 1..Len(s) : h[i] = Step(h[i - 1], s[i])
Delivers(h, n, p, at) ==
  /\ \A j \in 1..Len(p) : at[j] \in 1..n /\ h[at[j]].out = p[j]
  /\ \A j, k \in 1..Len(p) : j < k => at[j] < at[k]
NothingElse(h, n, p, at) ==
  /\ \A j \in 1..Len(p) : p[j] # <<>>
  /\ \A i \in 1..n : h[i].out # <<>> => \E j \in 1..Len(p) : at[j] = i
Leads(a, s, b, p, exact) ==
  \E h, at : /\ Way(h, a, s, b) /\ Delivers(h, Len(s), p, at)
             /\ exact => NothingElse(h, Len(s), p, at)

-----------------------------------------------------------------------------
\* What leads there exactly leads there.
LEMMA LeadsWeaker ==
  ASSUME NEW a, NEW s, NEW b, NEW p, NEW x, NEW y, Leads(a, s, b, p, x), y => x
  PROVE  Leads(a, s, b, p, y)
BY DEF Leads

\* No bytes lead nowhere, and deliver nothing.
LEMMA LeadsNil ==
  ASSUME NEW a, NEW b, NEW S, NEW p \in Seq(S), NEW exact
  PROVE  Leads(a, <<>>, b, p, exact) <=> a = b /\ p = <<>>
<1>1. ASSUME Leads(a, <<>>, b, p, exact) PROVE a = b /\ p = <<>>
  <2>1. a = b /\ \A j \in 1..Len(p) : FALSE
    BY <1>1 DEF Leads, Way, Delivers
  <2> QED
    BY <2>1
<1>2. ASSUME a = b, p = <<>> PROVE Leads(a, <<>>, b, p, exact)
  <2> DEFINE h == [i \in {0} |-> a]
  <2>1. h[0] = a /\ h[0] = b /\ Len(<<>>) = 0 /\ 1..0 = {} /\ Len(p) = 0
    BY <1>2
  <2>2. Way(h, a, <<>>, b)
    BY <2>1 DEF Way
  <2>3. Delivers(h, 0, p, h) /\ NothingElse(h, 0, p, h)
    BY <2>1 DEF Delivers, NothingElse
  <2> QED
    BY <2>1, <2>2, <2>3 DEF Leads
<1> QED
  BY <1>1, <1>2

\* A byte that arrives leads on from where those before it lead, and may deliver
\* one message more.
LEMMA LeadsAppend ==
  ASSUME NEW S, NEW s \in Seq(S), NEW c \in S, NEW a, NEW b,
         NEW P, NEW p \in Seq(P), NEW exact, Leads(a, s, b, p, exact)
  PROVE  /\ (exact => Step(b, c).out = <<>>) => Leads(a, Append(s, c), Step(b, c), p, exact)
         /\ Step(b, c).out \in P \ {<<>>} =>
              Leads(a, Append(s, c), Step(b, c), Append(p, Step(b, c).out), exact)
<1> DEFINE n == Len(s)
           t == Append(s, c)
           d == Step(b, c)
           m == Len(p)
<1>1. n \in Nat /\ m \in Nat /\ Len(t) = n + 1 /\ t[n + 1] = c /\ \A i \in 1..n : t[i] = s[i]
  BY AppendProperties
<1>2. PICK h, at : /\ Way(h, a, s, b) /\ Delivers(h, n, p, at)
                   /\ exact => NothingElse(h, n, p, at)
  BY DEF Leads
<1> DEFINE g == [i \in 0..(n + 1) |-> IF i = n + 1 THEN d ELSE h[i]]
<1>3. g[n + 1] = d /\ \A i \in 0..n : g[i] = h[i]
  BY <1>1
<1> HIDE DEF g, t, n, d, m
<1>4. Way(g, a, t, d)
  <2>1. ASSUME NEW i \in 1..(n + 1) PROVE g[i] = Step(g[i - 1], t[i])
    <3>1. CASE i = n + 1
      <4>1. i - 1 = n /\ n \in 0..n
        BY <1>1, <3>1
      <4>2. g[i] = d /\ g[i - 1] = b /\ t[i] = c
        BY <1>1, <1>2, <1>3, <3>1, <4>1 DEF Way, n
      <4> QED
        BY <4>2 DEF d
    <3>2. CASE i # n + 1
      <4>1. i \in 1..n /\ i \in 0..n /\ i - 1 \in 0..n
        BY <1>1, <3>2
      <4>2. g[i] = h[i] /\ g[i - 1] = h[i - 1] /\ t[i] = s[i]
        BY <1>1, <1>3, <4>1
      <4> QED
        BY <1>2, <4>1, <4>2 DEF Way, n
    <3> QED
      BY <3>1, <3>2
  <2>2. g[0] = a
    BY <1>1, <1>2, <1>3 DEF Way
  <2> QED
    BY <1>1, <1>3, <2>1, <2>2 DEF Way
<1>5. Delivers(g, n + 1, p, at)
  <2>1. ASSUME NEW j \in 1..m PROVE at[j] \in 1..(n + 1) /\ g[at[j]].out = p[j]
    <3>1. at[j] \in 1..n /\ h[at[j]].out = p[j]
      BY <1>2 DEF Delivers, m
    <3>2. at[j] \in 0..n /\ at[j] \in 1..(n + 1)
      BY <1>1, <3>1
    <3> QED
      BY <1>3, <3>1, <3>2
  <2> QED
    BY <1>2, <2>1 DEF Delivers, m
<1>6. ASSUME exact, d.out = <<>> PROVE NothingElse(g, n + 1, p, at)
  <2>1. ASSUME NEW i \in 1..(n + 1), g[i].out # <<>> PROVE \E j \in 1..m : at[j] = i
    <3>1. i # n + 1
      BY <1>3, <1>6, <2>1
    <3>2. i \in 1..n /\ i \in 0..n
      BY <1>1, <3>1
    <3>3. h[i].out # <<>>
      BY <1>3, <2>1, <3>2
    <3> QED
      BY <1>2, <1>6, <3>2, <3>3 DEF NothingElse, m
  <2> QED
    BY <1>2, <1>6, <2>1 DEF NothingElse, m
<1>7. ASSUME d.out \in P \ {<<>>}
      PROVE  \E f : /\ Delivers(g, n + 1, Append(p, d.out), f)
                    /\ exact => NothingElse(g, n + 1, Append(p, d.out), f)
  <2> DEFINE q == Append(p, d.out)
             f == [j \in 1..(m + 1) |-> IF j = m + 1 THEN n + 1 ELSE at[j]]
  <2>1. Len(q) = m + 1 /\ q[m + 1] = d.out /\ \A j \in 1..m : q[j] = p[j]
    BY <1>7, AppendProperties DEF m
  <2>2. f[m + 1] = n + 1 /\ \A j \in 1..m : f[j] = at[j]
    BY <1>1
  <2> HIDE DEF q, f
  <2>3. ASSUME NEW j \in 1..(m + 1) PROVE f[j] \in 1..(n + 1) /\ g[f[j]].out = q[j]
    <3>1. CASE j = m + 1
      BY <1>1, <1>3, <2>1, <2>2, <3>1
    <3>2. CASE j # m + 1
      <4>1. j \in 1..m
        BY <1>1, <3>2
      <4> QED
        BY <1>5, <2>1, <2>2, <4>1 DEF Delivers, m
    <3> QED
      BY <3>1, <3>2
  <2>4. ASSUME NEW j \in 1..(m + 1), NEW k \in 1..(m + 1), j < k PROVE f[j] < f[k]
    <3>1. j \in 1..m
      BY <1>1, <2>4
    <3>2. f[j] = at[j] /\ at[j] \in 1..n
      BY <1>2, <2>2, <3>1 DEF Delivers, m
    <3>3. CASE k = m + 1
      BY <1>1, <2>2, <3>2, <3>3
    <3>4. CASE k # m + 1
      <4>1. k \in 1..m
        BY <1>1, <3>4
      <4> QED
        BY <1>2, <2>2, <2>4, <3>1, <4>1 DEF Delivers, m
    <3> QED
      BY <3>3, <3>4
  <2>5. Delivers(g, n + 1, q, f)
    BY <2>1, <2>3, <2>4 DEF Delivers
  <2>6. ASSUME exact PROVE NothingElse(g, n + 1, q, f)
    <3>1. ASSUME NEW j \in 1..(m + 1) PROVE q[j] # <<>>
      <4>1. j = m + 1 \/ j \in 1..m
        BY <1>1
      <4> QED
        BY <1>2, <1>7, <2>1, <2>6, <4>1 DEF NothingElse, m
    <3>2. ASSUME NEW i \in 1..(n + 1), g[i].out # <<>> PROVE \E j \in 1..(m + 1) : f[j] = i
      <4>1. CASE i = n + 1
        <5>1. m + 1 \in 1..(m + 1)
          BY <1>1
        <5> QED
          BY <2>2, <4>1, <5>1
      <4>2. CASE i # n + 1
        <5>1. i \in 1..n /\ i \in 0..n
          BY <1>1, <4>2
        <5>2. PICK j \in 1..m : at[j] = i
          BY <1>2, <1>3, <2>6, <3>2, <5>1 DEF NothingElse, m
        <5>3. j \in 1..(m + 1)
          BY <1>1
        <5> QED
          BY <2>2, <5>2, <5>3
      <4> QED
        BY <4>1, <4>2
    <3> QED
      BY <2>1, <3>1, <3>2 DEF NothingElse
  <2> QED
    BY <2>5, <2>6 DEF q
<1>8. (exact => d.out = <<>>) => Leads(a, t, d, p, exact)
  BY <1>1, <1>4, <1>5, <1>6 DEF Leads
<1>9. d.out \in P \ {<<>>} => Leads(a, t, d, Append(p, d.out), exact)
  BY <1>1, <1>4, <1>7 DEF Leads
<1> QED
  BY <1>8, <1>9 DEF t, d

\* A byte that is read is a step towards where all of them lead; if it delivers the
\* first message that is owed, that is owed no more.
LEMMA LeadsTail ==
  ASSUME NEW S, NEW s \in Seq(S), s # <<>>, NEW a, NEW b,
         NEW P, NEW p \in Seq(P), NEW exact, Leads(a, s, b, p, exact)
  PROVE  /\ Leads(Step(a, Head(s)), Tail(s), b,
                  IF p # <<>> /\ Step(a, Head(s)).out = Head(p) THEN Tail(p) ELSE p, exact)
         /\ exact /\ Step(a, Head(s)).out # <<>> => p # <<>> /\ Step(a, Head(s)).out = Head(p)
<1> DEFINE n == Len(s)
           t == Tail(s)
           m == Len(p)
           d == Step(a, Head(s))
<1>1. n \in Nat \ {0} /\ Head(s) = s[1] /\ m \in Nat
  BY SMT
<1>2. Len(t) = n - 1 /\ \A i \in 1..(n - 1) : t[i] = s[i + 1]
  BY HeadTailProperties
<1>3. PICK h, at : /\ Way(h, a, s, b) /\ Delivers(h, n, p, at)
                   /\ exact => NothingElse(h, n, p, at)
  BY DEF Leads
<1> DEFINE g == [i \in 0..(n - 1) |-> h[i + 1]]
<1>4. \A i \in 0..(n - 1) : g[i] = h[i + 1]
  OBVIOUS
<1> HIDE DEF g, t, n, m, d
<1>5. h[1] = d
  <2>1. 1 \in 1..n /\ 1 - 1 = 0
    BY <1>1
  <2>2. h[1] = Step(h[1 - 1], s[1])
    BY <1>3, <2>1 DEF Way, n
  <2> QED
    BY <1>1, <1>3, <2>1, <2>2 DEF Way, d
<1>6. Way(g, d, t, b)
  <2>1. 0 \in 0..(n - 1) /\ n - 1 \in 0..(n - 1) /\ (n - 1) + 1 = n /\ 0 + 1 = 1
    BY <1>1
  <2>2. g[0] = d /\ g[n - 1] = b
    BY <1>3, <1>4, <1>5, <2>1 DEF Way, n
  <2>3. ASSUME NEW i \in 1..(n - 1) PROVE g[i] = Step(g[i - 1], t[i])
    <3>1. i \in 0..(n - 1) /\ i - 1 \in 0..(n - 1) /\ i + 1 \in 1..n
          /\ (i - 1) + 1 = i /\ (i + 1) - 1 = i
      BY <1>1
    <3>2. g[i] = h[i + 1] /\ g[i - 1] = h[i]
      BY <1>4, <3>1
    <3>3. h[i + 1] = Step(h[(i + 1) - 1], s[i + 1])
      BY <1>3, <3>1 DEF Way, n
    <3> QED
      BY <1>2, <3>1, <3>2, <3>3
  <2> QED
    BY <1>2, <2>2, <2>3 DEF Way
<1>7. ASSUME NEW j \in 1..m, at[j] # 1
      PROVE  at[j] - 1 \in 1..(n - 1) /\ g[at[j] - 1].out = p[j]
  <2>1. at[j] \in 1..n /\ h[at[j]].out = p[j]
    BY <1>3 DEF Delivers, m
  <2>2. at[j] - 1 \in 1..(n - 1) /\ at[j] - 1 \in 0..(n - 1) /\ (at[j] - 1) + 1 = at[j]
    BY <1>1, <1>7, <2>1
  <2> QED
    BY <1>4, <2>1, <2>2
<1>8. \A j, k \in 1..m : j < k => at[j] < at[k] /\ at[j] \in 1..n /\ at[k] \in 1..n
  BY <1>3 DEF Delivers, m
<1>9. ASSUME exact, d.out # <<>> PROVE p # <<>> /\ d.out = Head(p) /\ at[1] = 1
  <2>1. 1 \in 1..n /\ h[1].out # <<>>
    BY <1>1, <1>5, <1>9
  <2>2. PICK j \in 1..m : at[j] = 1
    BY <1>3, <1>9, <2>1 DEF NothingElse, m, n
  <2>3. j = 1
    <3>1. CASE j # 1
      <4>1. 1 \in 1..m /\ 1 < j
        BY <1>1, <3>1
      <4>2. at[1] < at[j] /\ at[1] \in 1..n
        BY <1>8, <4>1
      <4> QED
        BY <1>1, <2>2, <4>2
    <3> QED
      BY <3>1
  <2>4. 1 \in 1..m /\ at[1] = 1
    BY <2>2, <2>3
  <2>5. p # <<>> /\ p[1] = Head(p)
    BY <2>4 DEF m
  <2>6. h[at[1]].out = p[1]
    BY <1>3, <2>4 DEF Delivers, m
  <2> QED
    BY <1>5, <2>4, <2>5, <2>6
<1>10. ASSUME exact, NEW i \in 1..(n - 1), g[i].out # <<>>
       PROVE  \E j \in 1..m : at[j] = i + 1
  <2>1. i + 1 \in 1..n /\ i \in 0..(n - 1)
    BY <1>1
  <2>2. h[i + 1].out # <<>>
    BY <1>4, <1>10, <2>1
  <2> QED
    BY <1>3, <1>10, <2>1, <2>2 DEF NothingElse, m, n
<1>11. CASE p # <<>> /\ d.out = Head(p)
  <2> DEFINE q == Tail(p)
             f == [j \in 1..(m - 1) |-> at[j + 1] - 1]
  <2>1. m \in Nat \ {0} /\ Len(q) = m - 1 /\ \A j \in 1..(m - 1) : q[j] = p[j + 1]
    BY <1>11, HeadTailProperties DEF m
  <2>2. \A j \in 1..(m - 1) : f[j] = at[j + 1] - 1
    OBVIOUS
  <2> HIDE DEF q, f
  <2>3. ASSUME NEW j \in 1..(m - 1) PROVE f[j] \in 1..(n - 1) /\ g[f[j]].out = q[j]
    <3>1. j + 1 \in 1..m /\ 1 \in 1..m /\ 1 < j + 1
      BY <2>1
    <3>2. at[1] < at[j + 1] /\ at[1] \in 1..n /\ at[j + 1] \in 1..n
      BY <1>8, <3>1
    <3>3. at[j + 1] # 1
      BY <1>1, <3>2
    <3> QED
      BY <1>7, <2>1, <2>2, <3>1, <3>3
  <2>4. ASSUME NEW j \in 1..(m - 1), NEW k \in 1..(m - 1), j < k PROVE f[j] < f[k]
    <3>1. j + 1 \in 1..m /\ k + 1 \in 1..m /\ j + 1 < k + 1
      BY <2>1, <2>4
    <3>2. at[j + 1] < at[k + 1] /\ at[j + 1] \in 1..n /\ at[k + 1] \in 1..n
      BY <1>8, <3>1
    <3> QED
      BY <1>1, <2>2, <3>2
  <2>5. Delivers(g, n - 1, q, f)
    BY <2>1, <2>3, <2>4 DEF Delivers
  <2>6. ASSUME exact PROVE NothingElse(g, n - 1, q, f)
    <3>1. ASSUME NEW j \in 1..(m - 1) PROVE q[j] # <<>>
      <4>1. j + 1 \in 1..m
        BY <2>1
      <4> QED
        BY <1>3, <2>1, <2>6, <4>1 DEF NothingElse, m
    <3>2. ASSUME NEW i \in 1..(n - 1), g[i].out # <<>> PROVE \E j \in 1..(m - 1) : f[j] = i
      <4>1. PICK k \in 1..m : at[k] = i + 1
        BY <1>10, <2>6, <3>2
      <4>2. k # 1
        <5>1. d.out # <<>>
          <6>1. 1 \in 1..m /\ p[1] = Head(p)
            BY <2>1, <1>11
          <6>2. p[1] # <<>>
            BY <1>3, <2>6, <6>1 DEF NothingElse, m
          <6> QED
            BY <1>11, <6>1, <6>2
        <5>2. at[1] = 1
          BY <1>9, <2>6, <5>1
        <5> QED
          BY <4>1, <5>2, <1>1
      <4>3. k - 1 \in 1..(m - 1) /\ (k - 1) + 1 = k
        BY <2>1, <4>2
      <4>4. f[k - 1] = at[k] - 1
        BY <2>2, <4>3
      <4>5. f[k - 1] = i
        BY <1>1, <4>1, <4>4
      <4> QED
        BY <4>3, <4>5
    <3> QED
      BY <2>1, <3>1, <3>2 DEF NothingElse
  <2>7. Leads(d, t, b, q, exact)
    BY <1>2, <1>6, <2>5, <2>6 DEF Leads
  <2> QED
    BY <1>11, <2>7 DEF d, t, q
<1>12. CASE ~(p # <<>> /\ d.out = Head(p))
  <2> DEFINE f == [j \in 1..m |-> at[j] - 1]
  <2>1. \A j \in 1..m : f[j] = at[j] - 1
    OBVIOUS
  <2> HIDE DEF f
  <2>2. ASSUME NEW j \in 1..m PROVE at[j] # 1
    <3>1. CASE j = 1
      <4>1. p # <<>> /\ p[1] = Head(p)
        BY <3>1 DEF m
      <4>2. h[at[1]].out = p[1]
        BY <1>3, <3>1 DEF Delivers, m
      <4> QED
        BY <1>5, <1>12, <3>1, <4>1, <4>2
    <3>2. CASE j # 1
      <4>1. 1 \in 1..m /\ 1 < j
        BY <1>1, <3>2
      <4> QED
        BY <1>1, <1>8, <4>1
    <3> QED
      BY <3>1, <3>2
  <2>3. ASSUME NEW j \in 1..m, NEW k \in 1..m, j < k PROVE f[j] < f[k]
    BY <1>1, <1>8, <2>1, <2>3
  <2>4. Delivers(g, n - 1, p, f)
    BY <1>7, <2>1, <2>2, <2>3 DEF Delivers, m
  <2>5. ASSUME exact PROVE NothingElse(g, n - 1, p, f)
    <3>1. ASSUME NEW i \in 1..(n - 1), g[i].out # <<>> PROVE \E j \in 1..m : f[j] = i
      <4>1. PICK j \in 1..m : at[j] = i + 1
        BY <1>10, <2>5, <3>1
      <4> QED
        BY <1>1, <2>1, <4>1
    <3> QED
      BY <1>3, <2>5, <3>1 DEF NothingElse, m
  <2>6. Leads(d, t, b, p, exact)
    BY <1>2, <1>6, <2>4, <2>5 DEF Leads
  <2> QED
    BY <1>9, <1>12, <2>6 DEF d, t
<1> QED
  BY <1>9, <1>11, <1>12 DEF d

-----------------------------------------------------------------------------
\* A command character of the reader.
LEMMA CommandNow ==
  ASSUME IInv, NEW c \in Byte, CommandByte(c) PROVE Now' = OnCommand(Now, c)
<1>1. Framing!Command(c)
  BY CommandByteFraming
<1>2. state' = "READ"
  BY DEF CommandByte
<1> QED
  BY <1>1, <1>2 DEF Framing!Command, Now, OnCommand, Context

\* A data character of a reader whose callback returns.
LEMMA DataNow ==
  ASSUME IInv, IInv', NEW c \in Byte, DataByte(c), CallbackOutcome = {"true"}
  PROVE  Now' = OnData(Now, c)
<1>1. c \in 0..255
  BY ByteAssumption
<1>2. state' = "READ"
  BY DEF DataByte
<1>3. Message(data', index') = Extended(Message(data, index), c) /\ collisions' = collisions
  <2>1. CASE Accepts
    <3>1. /\ data' = [data EXCEPT ![index] = c]
          /\ index' = index + 1
          /\ collisions' = collisions
      BY <2>1 DEF DataByte, WriteData
    <3>2. index \in Slot /\ data \in [Slot -> 0..255]
      BY <2>1, SizeAssumption, SMT DEF IInv, TypeOK, Accepts, Slot
    <3>3. Message(data', index') = Append(Message(data, index), c)
      BY <1>1, <3>1, <3>2, MessageAppend
    <3>4. Message(data, index) # <<>> /\ ~Framing!Complete(Message(data, index))
      BY <2>1, Mapping DEF Accepts
    <3> QED
      BY <3>1, <3>3, <3>4 DEF Extended
  <2>2. CASE ~Accepts
    <3>1. UNCHANGED framing
      BY <2>2 DEF DataByte, WriteData
    <3>2. remaining = 0 \/ remaining = NotInSync
      <4>1. index < MAX_MESSAGE_SIZE \/ remaining = 0
        BY DEF IInv, CountersAgree
      <4> QED
        BY <2>2, <4>1 DEF Accepts
    <3>3. Message(data, index) = <<>> \/ Framing!Complete(Message(data, index))
      BY <3>2, Mapping
    <3> QED
      BY <3>1, <3>3 DEF Extended, framing
  <2> QED
    BY <2>1, <2>2
<1>4. emitted' = Whole(Message(data', index'))
  <2>1. Framing!Complete(Message(data', index')) <=> remaining' = 0
    <3>1. IInv' => (Framing!Complete(Message(data, index)) <=> remaining = 0)'
      BY Mapping, PTL
    <3> QED
      BY <3>1
  <2> QED
    BY <2>1 DEF DataByte, Whole
<1> QED
  BY <1>2, <1>3, <1>4 DEF Now, OnData, Context

\* One call that delivers a byte is one step.
LEMMA ReadNow ==
  ASSUME IInv, IInv', NEW raw \in Byte, ReadByte(raw), CallbackOutcome = {"true"}
  PROVE  Now' = Step(Now, raw)
<1>1. Now.st = state /\ Now.msg = Message(data, index) /\ Now.coll = collisions
  BY DEF Now, Context
<1>2. ASSUME NEW next, NEW how, EscapeByte(next, how) PROVE Now' = Escaped(Now, next)
  BY <1>1, <1>2 DEF EscapeByte, framing, Now, Escaped
<1>3. CASE ProcessRead(raw)
  <2>1. CASE raw = 255
    BY <1>1, <1>2, <1>3, <2>1 DEF ProcessRead, Step
  <2>2. CASE raw # 255
    BY <1>1, <1>3, <2>2, CommandNow, DataNow DEF ProcessRead, Step
  <2> QED
    BY <2>1, <2>2
<1>4. CASE ProcessEscape(raw)
  <2>1. CASE raw = 0
    BY <1>1, <1>2, <1>4, <2>1 DEF ProcessEscape, Step
  <2>2. CASE raw = 255
    BY <1>1, <1>4, <2>2, DataNow DEF ProcessEscape, Step
  <2>3. CASE raw \notin {0, 255}
    BY <1>1, <1>2, <1>4, <2>3 DEF ProcessEscape, Step
  <2> QED
    BY <2>1, <2>2, <2>3
<1>5. CASE ProcessParity(raw)
  BY <1>1, <1>5, CommandNow, DataNow DEF ProcessParity, Step
<1> QED
  BY <1>3, <1>4, <1>5 DEF ReadByte

\* A character becomes bytes.
LEMMA EncodeBytes ==
  ASSUME NEW isCommand, NEW c \in Byte PROVE Encode(isCommand, c) \in Seq(Byte)
<1>1. <<255, 0, c>> \in Seq(Byte) /\ <<255, 255>> \in Seq(Byte) /\ <<c>> \in Seq(Byte)
  BY TalkersAssumption
<1> QED
  BY <1>1, Zenon DEF Encode

\* Where a character leads, however it is quoted.
OnCharacter(a, isCommand, c) == IF isCommand THEN OnCommand(a, c) ELSE OnData(a, c)

\* The bytes of a character lead a reader that is not in an escape to where the
\* character leads, and it may be their last one that delivers a message.
LEMMA EncodeLeads ==
  ASSUME NEW s \in Seq(Byte), NEW a, NEW b, NEW P, NEW p \in Seq(P),
         NEW exact, Leads(a, s, b, p, exact),
         b.st = "READ", NEW isCommand \in BOOLEAN, NEW c \in Byte, isCommand => c # 255
  PROVE  LET t == s \o Encode(isCommand, c)
             d == OnCharacter(b, isCommand, c)
         IN  /\ t \in Seq(Byte)
             /\ (exact => d.out = <<>>) => Leads(a, t, d, p, exact)
             /\ d.out \in P \ {<<>>} => Leads(a, t, d, Append(p, d.out), exact)
<1> DEFINE d == OnCharacter(b, isCommand, c)
           Goal(t) == /\ t \in Seq(Byte)
                      /\ (exact => d.out = <<>>) => Leads(a, t, d, p, exact)
                      /\ d.out \in P \ {<<>>} => Leads(a, t, d, Append(p, d.out), exact)
           s1 == Append(s, 255)
           b1 == Escaped(b, "ESCAPE")
           b2 == Escaped(b, "PARITY")
<1>1. 0 \in Byte /\ 255 \in Byte
  BY TalkersAssumption
<1>2. Step(b, 255) = b1 /\ b1.out = <<>> /\ b2.out = <<>>
  BY DEF Step, Escaped, Context
<1>3. s1 \in Seq(Byte) /\ Leads(a, s1, b1, p, exact)
  BY <1>1, <1>2, LeadsAppend, AppendProperties
<1>4. /\ b1.st = "ESCAPE" /\ b2.st = "PARITY"
      /\ OnData(b1, c) = OnData(b, c) /\ OnData(b2, c) = OnData(b, c)
      /\ OnCommand(b2, c) = OnCommand(b, c)
      /\ Escaped(b1, "PARITY") = b2
  BY DEF Escaped, Context, OnData, OnCommand
<1> HIDE DEF d, b1, b2
<1>5. CASE isCommand # Parity(c)
  <2> DEFINE s2 == Append(s1, 0)
             s3 == Append(s2, c)
  <2>1. Step(b1, 0) = b2
    BY <1>4 DEF Step
  <2>2. s2 \in Seq(Byte) /\ Leads(a, s2, b2, p, exact)
    <3> HIDE DEF s1
    <3> QED
      BY <1>1, <1>2, <1>3, <2>1, LeadsAppend, AppendProperties
  <2>3. Step(b2, c) = d
    <3>1. Step(b2, c) = IF Parity(c) THEN OnData(b, c) ELSE OnCommand(b, c)
      BY <1>4 DEF Step
    <3>2. isCommand <=> ~Parity(c)
      BY <1>5, Zenon DEF Parity
    <3> QED
      BY <3>1, <3>2 DEF d, OnCharacter
  <2>4. Goal(s3)
    <3> HIDE DEF s2
    <3> QED
      BY <2>2, <2>3, LeadsAppend, AppendProperties
  <2>5. s3 = s \o <<255, 0, c>>
    BY <1>1, SMT
  <2>6. Goal(s \o <<255, 0, c>>)
    BY <2>4, <2>5
  <2> QED
    BY <1>5, <2>6 DEF Encode, d
<1>6. CASE isCommand = Parity(c) /\ c = 255
  <2> DEFINE s2 == Append(s1, 255)
  <2>1. Step(b1, 255) = d
    BY <1>4, <1>6 DEF Step, d, OnCharacter
  <2>2. Goal(s2)
    <3> HIDE DEF s1
    <3> QED
      BY <1>1, <1>3, <2>1, LeadsAppend, AppendProperties
  <2>3. s2 = s \o <<255, 255>>
    BY <1>1, SMT
  <2>4. Goal(s \o <<255, 255>>)
    BY <2>2, <2>3
  <2> QED
    BY <1>6, <2>4 DEF Encode, d
<1>7. CASE isCommand = Parity(c) /\ c # 255
  <2>1. Step(b, c) = d
    <3>1. isCommand <=> Parity(c)
      BY <1>7, Zenon DEF Parity
    <3> QED
      BY <1>7, <3>1 DEF Step, d, OnCharacter
  <2>2. Goal(Append(s, c))
    BY <2>1, LeadsAppend, AppendProperties
  <2>3. Append(s, c) = s \o <<c>>
    BY AppendIsConcat
  <2>4. Goal(s \o <<c>>)
    BY <2>2, <2>3
  <2> QED
    BY <1>7, <2>4 DEF Encode, d
<1> QED
  BY <1>5, <1>6, <1>7

-----------------------------------------------------------------------------
\* The types of the bus; an intact datagram has a command.
LineTypeOK ==
  /\ bus \in Seq(Byte) /\ tty \in Seq(Byte) /\ pending \in Seq(Seq(Byte))
  /\ intact \in BOOLEAN /\ losses \in Nat
  /\ intact => bus # <<>>

\* e is where the bus stands: as long as nothing was lost a reader is in sync from
\* the first command on, after a loss from the next one.
Caught(e) ==
  /\ e.st = "READ"
  /\ intact => e.msg = bus
  /\ losses = 0 => e.coll = cut /\ e.msg = IF intact THEN bus ELSE <<>>

\* As long as nothing was lost, nothing but what is pending is handed over.
LineInv ==
  IInv /\ LineTypeOK /\ \E e : Caught(e) /\ Leads(Now, tty, e, pending, losses = 0)

\* The reader starts with nothing, wherever the bus is.
LEMMA InitLineInv == LineInit => LineInv
<1> SUFFICES ASSUME LineInit PROVE LineInv
  OBVIOUS
<1>1. IInv
  BY InitIInv DEF LineInit
<1>2. bus \in Seq(Byte)
  <2>1. CASE bus = <<>>
    BY <2>1
  <2>2. CASE \E c \in Commands : bus = <<c>>
    BY <2>2, TalkersAssumption, SMT
  <2>3. CASE bus \in Commands \X Attributes
    <3>1. PICK c \in Commands, x \in Attributes : bus = <<c, x>>
      BY <2>3
    <3>2. c \in Byte /\ x \in Byte
      BY <3>1, TalkersAssumption
    <3> QED
      BY <3>1, <3>2
  <2> QED
    BY <2>1, <2>2, <2>3 DEF LineInit
<1>3. LineTypeOK
  <2>1. <<>> \in Seq(Byte) /\ <<>> \in Seq(Seq(Byte)) /\ 0 \in Nat
    BY SMT
  <2> QED
    BY <1>2, <2>1, Zenon DEF LineInit, LineTypeOK
<1>4. Now.st = "READ" /\ Now.msg = <<>> /\ Now.coll = 0
  <2>1. Message(data, 0) = <<>>
    BY SMT DEF Message
  <2> QED
    BY <2>1 DEF LineInit, Init, Now, Context
<1>5. Caught(Now)
  BY <1>4 DEF LineInit, Caught
<1>6. Leads(Now, <<>>, Now, <<>>, losses = 0)
  <2>1. <<>> \in Seq(Byte)
    BY SMT
  <2> QED
    BY <2>1, LeadsNil
<1>7. tty = <<>> /\ pending = <<>>
  BY DEF LineInit
<1> QED
  BY <1>1, <1>3, <1>5, <1>6, <1>7 DEF LineInv

\* A character that the driver loses leaves everything on the way as it was.
LEMMA ArrivesCases ==
  ASSUME LineTypeOK, Loss # "bytes", NEW isCommand, NEW c, NEW wasIntact,
         Arrives(Encode(isCommand, c), wasIntact)
  PROVE  \/ /\ tty' = tty \o Encode(isCommand, c)
            /\ intact' = wasIntact /\ losses' = losses
         \/ tty' = tty /\ intact' = FALSE /\ losses' = losses + 1
<1>1. ASSUME NEW rest \in Damaged(Encode(isCommand, c)) PROVE tty \o rest = tty
  <2>1. rest = <<>>
    BY <1>1, LossAssumption DEF Damaged
  <2> QED
    BY <2>1, ConcatEmptySeq DEF LineTypeOK
<1> QED
  BY <1>1 DEF Arrives

\* A command on the bus starts a datagram there and, once it is read, here.
LEMMA TalkCommandInv ==
  ASSUME LineInv, Loss # "bytes", NEW c \in Commands, TalkCommand(c) PROVE LineInv'
<1>1. c \in Byte /\ c # 255
  BY TalkersAssumption
<1>2. IInv' /\ Now' = Now /\ pending' = pending
  BY DEF LineInv, TalkCommand, vars, IInv, TypeOK, CountersAgree, DatagramLength, Now, Message
<1>3. PICK e : Caught(e) /\ Leads(Now, tty, e, pending, losses = 0)
  BY DEF LineInv
<1>4. bus' = <<c>> /\ bus' \in Seq(Byte) /\ bus' # <<>>
  BY <1>1, SMT DEF TalkCommand
<1>5. LineTypeOK
  BY DEF LineInv
<1>6. CASE tty' = tty \o Encode(TRUE, c) /\ intact' = TRUE /\ losses' = losses
  <2> DEFINE d == OnCommand(e, c)
  <2>1. d.st = "READ" /\ d.msg = bus' /\ d.out = <<>>
    BY <1>4 DEF OnCommand, Context
  <2>2. tty' \in Seq(Byte) /\ Leads(Now, tty', d, pending, losses = 0)
    BY <1>1, <1>3, <1>5, <1>6, <2>1, EncodeLeads DEF LineTypeOK, Caught, OnCharacter
  <2>3. losses = 0 => d.coll = cut'
    <3>1. ~Framing!Announced(<<>>)
      BY SMT DEF Framing!Announced
    <3> QED
      BY <1>3, <3>1 DEF Caught, TalkCommand, OnCommand, Context
  <2>4. Caught(d)'
    BY <1>6, <2>1, <2>3 DEF Caught
  <2>5. LineTypeOK'
    BY <1>2, <1>4, <1>5, <1>6, <2>2 DEF LineTypeOK
  <2> QED
    BY <1>2, <1>6, <2>2, <2>4, <2>5 DEF LineInv
<1>7. CASE tty' = tty /\ intact' = FALSE /\ losses' = losses + 1
  <2>1. losses' # 0 /\ LineTypeOK'
    <3>1. losses' \in Nat /\ losses' # 0
      BY <1>5, <1>7 DEF LineTypeOK
    <3> QED
      BY <1>2, <1>4, <1>5, <1>7, <3>1, Zenon DEF LineTypeOK
  <2>2. Caught(e)'
    BY <1>3, <1>7, <2>1 DEF Caught
  <2>3. Leads(Now, tty, e, pending, losses' = 0)
    BY <1>3, <2>1, LeadsWeaker
  <2> QED
    BY <1>2, <1>7, <2>1, <2>2, <2>3 DEF LineInv
<1> QED
  BY <1>5, <1>6, <1>7, ArrivesCases DEF TalkCommand

\* Data on the bus extends the datagram there and, once it is read, here; the last
\* character makes it pending there and delivers it here.
LEMMA TalkDataInv ==
  ASSUME LineInv, Loss # "bytes", NEW c \in Attributes \cup DataBytes, TalkData(c)
  PROVE  LineInv'
<1>1. c \in Byte
  BY TalkersAssumption
<1>2. IInv' /\ Now' = Now
  BY DEF LineInv, TalkData, vars, IInv, TypeOK, CountersAgree, DatagramLength, Now, Message
<1>3. PICK e : Caught(e) /\ Leads(Now, tty, e, pending, losses = 0)
  BY DEF LineInv
<1>4. LineTypeOK
  BY DEF LineInv
<1>5. bus' = Append(bus, c) /\ bus' \in Seq(Byte) /\ bus' # <<>>
  BY <1>1, <1>4, AppendProperties, SMTT(60) DEF LineTypeOK, TalkData
<1>6. cut' = cut /\ bus # <<>> /\ ~Framing!Complete(bus)
  BY DEF TalkData
<1>7. CASE tty' = tty \o Encode(FALSE, c) /\ intact' = intact /\ losses' = losses
  <2> DEFINE d == OnData(e, c)
  <2>1. /\ tty' \in Seq(Byte)
        /\ (losses = 0 => d.out = <<>>) => Leads(Now, tty', d, pending, losses = 0)
        /\ d.out \in Seq(Byte) \ {<<>>} =>
             Leads(Now, tty', d, Append(pending, d.out), losses = 0)
    BY <1>1, <1>3, <1>4, <1>7, EncodeLeads DEF LineTypeOK, Caught, OnCharacter
  <2>2. /\ d.st = "READ" /\ d.coll = e.coll
        /\ d.msg = Extended(e.msg, c) /\ d.out = Whole(d.msg)
    BY DEF OnData, Context
  <2>3. intact => d.msg = bus'
    BY <1>3, <1>5, <1>6, <2>2 DEF Caught, Extended
  <2>4. losses = 0 /\ ~intact => d.msg = <<>>
    BY <1>3, <2>2 DEF Caught, Extended
  <2> HIDE DEF d
  <2>5. Caught(d)'
    BY <1>3, <1>6, <1>7, <2>2, <2>3, <2>4 DEF Caught
  <2>6. pending' \in Seq(Seq(Byte)) /\ Leads(Now, tty', d, pending', losses = 0)
    <3>1. CASE ~(Framing!Complete(bus') /\ intact')
      <4>1. pending' = pending
        BY <3>1 DEF TalkData
      <4>2. ~Framing!Complete(<<>>)
        BY SMT DEF Framing!Complete, Framing!Announced
      <4>3. losses = 0 => d.out = <<>>
        BY <1>7, <2>2, <2>3, <2>4, <3>1, <4>2 DEF Whole
      <4> QED
        BY <1>4, <2>1, <4>1, <4>3 DEF LineTypeOK
    <3>2. CASE Framing!Complete(bus') /\ intact'
      <4>1. d.out = bus'
        BY <1>7, <2>2, <2>3, <3>2 DEF Whole
      <4>2. pending' = Append(pending, bus')
        BY <3>2 DEF TalkData
      <4> QED
        BY <1>4, <1>5, <2>1, <4>1, <4>2, AppendProperties DEF LineTypeOK
    <3> QED
      BY <3>1, <3>2
  <2>7. LineTypeOK'
    BY <1>4, <1>5, <1>7, <2>1, <2>6 DEF LineTypeOK
  <2> QED
    BY <1>2, <1>7, <2>5, <2>6, <2>7 DEF LineInv
<1>8. CASE tty' = tty /\ intact' = FALSE /\ losses' = losses + 1
  <2>1. pending' = pending
    BY <1>8 DEF TalkData
  <2>2. losses' # 0 /\ LineTypeOK'
    <3>1. losses' \in Nat /\ losses' # 0
      BY <1>4, <1>8 DEF LineTypeOK
    <3> QED
      BY <1>4, <1>5, <1>8, <2>1, <3>1, Zenon DEF LineTypeOK
  <2>3. Caught(e)'
    BY <1>3, <1>8, <2>2 DEF Caught
  <2>4. Leads(Now, tty, e, pending, losses' = 0)
    BY <1>3, <2>2, LeadsWeaker
  <2> QED
    BY <1>2, <1>8, <2>1, <2>2, <2>3, <2>4 DEF LineInv
<1> QED
  BY <1>4, <1>7, <1>8, ArrivesCases DEF TalkData

\* A byte that is read takes the reader one step closer to the bus; a message it
\* hands over is the one that is due, as long as nothing was lost.
LEMMA ReadMessageInv ==
  ASSUME LineInv, CallbackOutcome = {"true"}, ReadMessage
  PROVE  /\ LineInv'
         /\ emitted' # <<>> /\ losses = 0 => pending # <<>> /\ emitted' = Head(pending)
<1> DEFINE raw == Head(tty)
<1>1. tty \in Seq(Byte) /\ tty # <<>> /\ pending \in Seq(Seq(Byte))
  BY DEF LineInv, LineTypeOK, ReadMessage
<1>2. raw \in Byte /\ Tail(tty) \in Seq(Byte)
  BY <1>1, HeadTailProperties
<1>3. ReadByte(raw) /\ tty' = Tail(tty)
  BY DEF ReadMessage
<1> HIDE DEF raw
<1>4. IInv'
  BY <1>2, <1>3, NextIInv DEF LineInv, Next
<1>5. Now' = Step(Now, raw)
  BY <1>2, <1>3, <1>4, ReadNow DEF LineInv
<1>6. emitted' = Step(Now, raw).out
  <2>1. Now'.out = emitted'
    BY DEF Now, Context
  <2> QED
    BY <1>5, <2>1
<1>7. PICK e : Caught(e) /\ Leads(Now, tty, e, pending, losses = 0)
  BY DEF LineInv
<1>8. /\ Leads(Now', tty', e, pending', losses = 0)
      /\ losses = 0 /\ emitted' # <<>> => pending # <<>> /\ emitted' = Head(pending)
  <2>1. pending' = IF pending # <<>> /\ Step(Now, raw).out = Head(pending)
                     THEN Tail(pending) ELSE pending
    BY <1>6 DEF ReadMessage
  <2> DEFINE exact == losses = 0
             a == Now
  <2>2. Leads(a, tty, e, pending, exact)
    BY <1>7
  <2> HIDE DEF exact, a
  <2>3. /\ Leads(Step(a, raw), Tail(tty), e,
                 IF pending # <<>> /\ Step(a, raw).out = Head(pending)
                   THEN Tail(pending) ELSE pending, exact)
        /\ exact /\ Step(a, raw).out # <<>> =>
             pending # <<>> /\ Step(a, raw).out = Head(pending)
    BY <1>1, <2>2, LeadsTail DEF raw
  <2> QED
    BY <1>3, <1>5, <1>6, <2>1, <2>3 DEF exact, a
<1>9. Caught(e)'
  BY <1>7 DEF Caught, ReadMessage
<1>10. pending' \in Seq(Seq(Byte))
  <2>1. pending # <<>> => Tail(pending) \in Seq(Seq(Byte))
    BY <1>1, HeadTailProperties
  <2> QED
    BY <1>1, <2>1 DEF ReadMessage
<1>11. LineTypeOK'
  BY <1>2, <1>3, <1>10 DEF LineInv, LineTypeOK, ReadMessage
<1>12. losses' = losses
  BY DEF ReadMessage
<1> QED
  BY <1>4, <1>8, <1>9, <1>11, <1>12 DEF LineInv

\* The invariant holds in every behaviour of the line.
LEMMA LineInvariant ==
  ASSUME CallbackOutcome = {"true"}, Loss # "bytes" PROVE LineSpec => []LineInv
<1>1. LineInv /\ [LineNext]_allVars => LineInv'
  <2> SUFFICES ASSUME LineInv, [LineNext]_allVars PROVE LineInv'
    OBVIOUS
  <2>1. CASE UNCHANGED allVars
    BY <2>1, ZenonT(60) DEF allVars, lineVars, vars, LineInv, LineTypeOK, Caught, IInv, TypeOK,
                CountersAgree, DatagramLength, Now, Message
  <2>2. ASSUME NEW c \in Commands, TalkCommand(c) PROVE LineInv'
    BY <2>2, TalkCommandInv
  <2>3. ASSUME NEW c \in Attributes \cup DataBytes, TalkData(c) PROVE LineInv'
    BY <2>3, TalkDataInv
  <2>4. CASE ReadMessage
    BY <2>4, ReadMessageInv
  <2> QED
    BY <2>1, <2>2, <2>3, <2>4 DEF LineNext
<1> QED
  BY <1>1, InitLineInv, PTL DEF LineSpec

\* When the driver is empty the reader stands where the bus does, on any bus whose
\* driver loses whole characters at most and with a callback that returns.
THEOREM LineDrainedAgrees ==
  ASSUME CallbackOutcome = {"true"}, Loss # "bytes"
  PROVE  LineSpec => []DrainedAgrees
<1>1. ASSUME LineInv PROVE DrainedAgrees
  <2> SUFFICES ASSUME tty = <<>>
               PROVE  /\ state = "READ"
                      /\ intact => Message(data, index) = bus
                      /\ losses = 0 => collisions = cut
                                       /\ (index # 0 => Message(data, index) = bus)
    BY DEF DrainedAgrees
  <2>1. PICK e : Caught(e) /\ Leads(Now, <<>>, e, pending, losses = 0)
    BY <1>1 DEF LineInv
  <2>2. Caught(Now)
    BY <1>1, <2>1, LeadsNil DEF LineInv, LineTypeOK
  <2>3. Now.st = state /\ Now.msg = Message(data, index) /\ Now.coll = collisions
    BY DEF Now, Context
  <2>4. Message(data, index) = <<>> => index = 0
    BY <1>1, Mapping, SMT DEF LineInv
  <2> QED
    BY <2>2, <2>3, <2>4 DEF Caught
<1> QED
  BY <1>1, LineInvariant, PTL

\* When the driver is empty no intact datagram is still owed, on any such bus.
THEOREM LineNothingForgotten ==
  ASSUME CallbackOutcome = {"true"}, Loss # "bytes"
  PROVE  LineSpec => []NothingForgotten
<1>1. ASSUME LineInv PROVE NothingForgotten
  BY <1>1, LeadsNil DEF LineInv, LineTypeOK, NothingForgotten
<1> QED
  BY <1>1, LineInvariant, PTL

\* As long as nothing is lost, every message the reader returns is the oldest intact
\* datagram it has not returned yet: none is skipped, repeated, mixed up or made of
\* two, whatever talkers put on the bus and wherever the reader began to listen.
THEOREM LineReturnsNextIntact ==
  ASSUME CallbackOutcome = {"true"}, Loss # "bytes"
  PROVE  LineSpec => ReturnsNextIntact
<1> DEFINE Next1 == Len(tty') < Len(tty) /\ emitted' # <<>> /\ losses = 0 =>
                     pending # <<>> /\ emitted' = Head(pending)
<1>1. LineInv /\ [LineNext]_allVars => [Next1]_allVars
  <2> SUFFICES ASSUME LineInv, LineNext, Len(tty') < Len(tty), emitted' # <<>>, losses = 0
               PROVE  pending # <<>> /\ emitted' = Head(pending)
    OBVIOUS
  <2>1. ASSUME NEW isCommand \in BOOLEAN, NEW c \in Byte, NEW wasIntact,
               Arrives(Encode(isCommand, c), wasIntact)
        PROVE  ~(Len(tty') < Len(tty))
    <3>1. Encode(isCommand, c) \in Seq(Byte)
      BY EncodeBytes
    <3>2. LineTypeOK /\ tty \in Seq(Byte) /\ Len(tty) \in Nat
      BY LenProperties DEF LineInv, LineTypeOK
    <3>3. Len(Encode(isCommand, c)) \in Nat
      BY <3>1, LenProperties
    <3>4. Len(tty \o Encode(isCommand, c)) = Len(tty) + Len(Encode(isCommand, c))
      BY <3>1, <3>2, ConcatProperties
    <3>5. tty' = tty \o Encode(isCommand, c) \/ tty' = tty
      BY <2>1, <3>2, ArrivesCases
    <3> QED
      BY <3>2, <3>3, <3>4, <3>5
  <2>2. ReadMessage
    <3>1. ASSUME NEW c \in Commands, TalkCommand(c) PROVE FALSE
      BY <2>1, <3>1, TalkersAssumption, LenProperties DEF TalkCommand
    <3>2. ASSUME NEW c \in Attributes \cup DataBytes, TalkData(c) PROVE FALSE
      BY <2>1, <3>2, TalkersAssumption, LenProperties, ZenonT(60) DEF TalkData
    <3> QED
      BY <3>1, <3>2 DEF LineNext
  <2> QED
    BY <2>2, ReadMessageInv
<1> QED
  BY <1>1, LineInvariant, PTL DEF LineSpec, ReturnsNextIntact

TtyOK == tty \in Seq(Byte)

\* What is in the driver are bytes, whatever it loses.
LEMMA TtyInvariant == LineSpec => []TtyOK
<1>1. LineInit => TtyOK
  BY SMT DEF LineInit, TtyOK
<1>2. ASSUME NEW isCommand, NEW c \in Byte PROVE Encode(isCommand, c) \in Seq(Byte)
  BY EncodeBytes
<1>3. ASSUME NEW enc \in Seq(Byte), NEW rest \in Damaged(enc) PROVE rest \in Seq(Byte)
  <2>1. ASSUME NEW i \in 1..Len(enc) PROVE RemoveAt(enc, i) \in Seq(Byte)
    <3>1. SubSeq(enc, 1, i - 1) \in Seq(Byte) /\ SubSeq(enc, i + 1, Len(enc)) \in Seq(Byte)
      BY SMT
    <3> QED
      BY <3>1, ConcatProperties DEF RemoveAt
  <2>2. <<>> \in Seq(Byte)
    BY SMT
  <2> QED
    BY <2>1, <2>2, LossAssumption DEF Damaged
<1>4. ASSUME tty \in Seq(Byte), NEW isCommand, NEW c \in Byte, NEW wasIntact,
             Arrives(Encode(isCommand, c), wasIntact)
      PROVE  tty' \in Seq(Byte)
  BY <1>2, <1>3, <1>4, ConcatProperties DEF Arrives
<1>5. TtyOK /\ [LineNext]_allVars => TtyOK'
  <2> SUFFICES ASSUME tty \in Seq(Byte), [LineNext]_allVars PROVE tty' \in Seq(Byte)
    BY DEF TtyOK
  <2>1. ASSUME NEW c \in Commands, TalkCommand(c) PROVE tty' \in Seq(Byte)
    BY <1>4, <2>1, TalkersAssumption DEF TalkCommand
  <2>2. ASSUME NEW c \in Attributes \cup DataBytes, TalkData(c) PROVE tty' \in Seq(Byte)
    BY <1>4, <2>2, TalkersAssumption, ZenonT(60) DEF TalkData
  <2>3. CASE ReadMessage
    BY <2>3, HeadTailProperties DEF ReadMessage
  <2>4. CASE UNCHANGED allVars
    BY <2>4 DEF allVars, lineVars
  <2> QED
    BY <2>1, <2>2, <2>3, <2>4 DEF LineNext
<1> QED
  BY <1>1, <1>5, PTL DEF LineSpec

\* The reader on the bus is the reader, whatever the driver loses and the callback
\* does: what is proved of it holds there.
THEOREM LineImplementsReader == LineSpec => Spec
<1>1. LineInit => Init
  BY DEF LineInit
<1>2. TtyOK /\ [LineNext]_allVars => [Next]_vars
  <2> SUFFICES ASSUME tty \in Seq(Byte), [LineNext]_allVars PROVE [Next]_vars
    BY DEF TtyOK
  <2>1. CASE ReadMessage
    <3>1. Head(tty) \in Byte /\ ReadByte(Head(tty))
      BY <2>1, HeadTailProperties DEF ReadMessage
    <3> QED
      BY <3>1 DEF Next
  <2>2. CASE \E c \in Commands : TalkCommand(c)
    BY <2>2 DEF TalkCommand
  <2>3. CASE \E c \in Attributes \cup DataBytes : TalkData(c)
    BY <2>3 DEF TalkData
  <2>4. CASE UNCHANGED allVars
    BY <2>4 DEF allVars
  <2> QED
    BY <2>1, <2>2, <2>3, <2>4 DEF LineNext
<1> QED
  BY <1>1, <1>2, TtyInvariant, PTL DEF LineSpec, Spec

-----------------------------------------------------------------------------
(***************************************************************************)
(* Proofs about SeaTalk messages on the way from one object to another.    *)
(*                                                                         *)
(* From what the table says of a layout (LayoutsAssumption), of whatever   *)
(* layout: the pieces that are written to a byte lie apart, so what is     *)
(* read of a piece is what was written there; the pieces of a member make  *)
(* up a number as digits do, so what is read of a member is its number, as *)
(* far as there is room; and for each kind of member that number is read   *)
(* as the value it was made of.  Then the invariant of the way: objects    *)
(* hold what they can hold, a datagram is one of what it was made of, what *)
(* is received is what make_message makes of it, and a coordinate is as    *)
(* first, or rounded once, or twice, which rounding does not change.       *)
(***************************************************************************)

-----------------------------------------------------------------------------
\* Quotients and remainders.

\* Only one quotient leaves a remainder below the divisor.
LEMMA Division ==
  ASSUME NEW k \in Nat \ {0}, NEW q \in Int, NEW r \in 0..(k - 1)
  PROVE  (k * q + r) % k = r /\ (k * q + r) \div k = q
<1> DEFINE n == k * q + r
           p == n \div k
           s == n % k
<1>1. n \in Int /\ p \in Int /\ s \in 0..(k - 1) /\ n = k * p + s
  OBVIOUS
<1> HIDE DEF p, s
<1>2. k * (p - q) = r - s
  BY <1>1
<1>3. p - q = 0
  <2>1. CASE p - q >= 1
    <3>1. k * (p - q) >= k
      BY <1>1, <2>1
    <3> QED
      BY <1>1, <1>2, <3>1
  <2>2. CASE p - q <= -1
    <3>1. k * (p - q) <= -k
      BY <1>1, <2>2
    <3> QED
      BY <1>1, <1>2, <3>1
  <2> QED
    BY <1>1, <2>1, <2>2
<1>4. p = q /\ s = r
  BY <1>1, <1>2, <1>3
<1> QED
  BY <1>4 DEF p, s

\* Numbers of any integer and a divisor.
LEMMA Divided ==
  ASSUME NEW n \in Int, NEW k \in Nat \ {0}
  PROVE  n \div k \in Int /\ n % k \in 0..(k - 1) /\ n = k * (n \div k) + (n % k)
OBVIOUS

\* The lower digits of a number and the next one.
LEMMA NextDigit ==
  ASSUME NEW n \in Int, NEW w \in Nat \ {0}, NEW m \in Nat \ {0}
  PROVE  /\ w * m \in Nat \ {0}
         /\ n % (w * m) = (n % w) + ((n \div w) % m) * w
<1> DEFINE q == n \div w
           a == n % w
           p == q \div m
           b == q % m
<1>1. q \in Int /\ a \in 0..(w - 1) /\ n = w * q + a
  BY Divided
<1> HIDE DEF q, a
<1>2. p \in Int /\ b \in 0..(m - 1) /\ q = m * p + b
  BY <1>1, Divided
<1> HIDE DEF p, b
<1>3. w * m \in Nat \ {0}
  OBVIOUS
<1>4. n = (w * m) * p + (b * w + a)
  <2>1. n = w * (m * p + b) + a
    BY <1>1, <1>2
  <2>2. w * (m * p + b) = (w * m) * p + b * w
    BY <1>2
  <2> QED
    BY <1>1, <1>2, <2>1, <2>2
<1>5. b * w + a \in 0..((w * m) - 1)
  <2>1. b * w <= (m - 1) * w /\ b * w \in Nat
    BY <1>2
  <2>2. (m - 1) * w = w * m - w
    OBVIOUS
  <2> QED
    BY <1>1, <1>2, <2>1, <2>2
<1>6. n % (w * m) = b * w + a
  BY <1>2, <1>3, <1>4, <1>5, Division
<1> QED
  BY <1>1, <1>2, <1>3, <1>6 DEF q, a, b

\* A remainder by a divisor of the divisor.
LEMMA RemainderTwice ==
  ASSUME NEW n \in Int, NEW k \in Nat \ {0}, NEW m \in Nat \ {0}, k % m = 0
  PROVE  (n % k) % m = n % m
<1> DEFINE d == k \div m
           q == n \div k
           r == n % k
           p == r \div m
           s == r % m
<1>1. d \in Int /\ k = m * d
  BY Divided
<1>2. q \in Int /\ r \in 0..(k - 1) /\ n = k * q + r
  BY Divided
<1> HIDE DEF d, q, r
<1>3. p \in Int /\ s \in 0..(m - 1) /\ r = m * p + s
  BY <1>2, Divided
<1> HIDE DEF p, s
<1>4. n = m * (d * q + p) + s
  <2>1. n = (m * d) * q + (m * p + s)
    BY <1>1, <1>2, <1>3
  <2>2. (m * d) * q = m * (d * q)
    BY <1>1, <1>2
  <2>3. d * q \in Int
    BY <1>1, <1>2
  <2> QED
    BY <1>3, <2>1, <2>2, <2>3
<1>5. d * q + p \in Int
  BY <1>1, <1>2, <1>3
<1>6. n % m = s
  BY <1>3, <1>4, <1>5, Division
<1> QED
  BY <1>6 DEF r, s

\* The remainder of a small number.
LEMMA SmallRemainder ==
  ASSUME NEW k \in Nat \ {0}, NEW v \in Int
  PROVE  /\ v >= 0 /\ v < k => v % k = v
         /\ v < 0 /\ -k <= v => v % k = v + k
<1>1. ASSUME v >= 0, v < k PROVE v % k = v
  <2>1. v \in 0..(k - 1) /\ v = k * 0 + v /\ 0 \in Int
    BY <1>1
  <2> QED
    BY <2>1, Division
<1>2. ASSUME v < 0, -k <= v PROVE v % k = v + k
  <2> DEFINE m == -1
             w == v + k
  <2>1. w \in 0..(k - 1) /\ m \in Int /\ v = k * m + w
    BY <1>2
  <2> HIDE DEF m, w
  <2>2. (k * m + w) % k = w
    BY <2>1, Division
  <2>3. v % k = w
    BY <2>1, <2>2, Zenon
  <2> QED
    BY <2>3 DEF w
<1> QED
  BY <1>1, <1>2

-----------------------------------------------------------------------------
\* Sums over sets of pieces.

\* The sum over two sets without a common element.
LEMMA SumOfBoth ==
  ASSUME NEW S, IsFiniteSet(S), NEW f \in [S -> Int], NEW g, Additive(g, f, S), NEW a \in SUBSET S
  PROVE  \A b \in SUBSET (S \ a) : g[a \cup b] = g[a] + g[b]
<1> DEFINE R == S \ a
           T == {r \in SUBSET R : g[a \cup r] = g[a] + g[r]}
<1>1. /\ g[{}] = 0 /\ \A r \in SUBSET S : g[r] \in Int
      /\ \A r \in SUBSET S : \A x \in r : g[r] = f[x] + g[r \ {x}]
  BY DEF Additive
<1>2. IsFiniteSet(R)
  BY FS_Subset
<1>3. {} \in T
  <2>1. a \cup {} = a
    OBVIOUS
  <2> QED
    BY <1>1, <2>1
<1>4. ASSUME NEW r \in SUBSET R, NEW x \in R \ r, r \in T PROVE r \cup {x} \in T
  <2> DEFINE u == r \cup {x}
  <2>1. /\ u \in SUBSET S /\ u \in SUBSET R /\ x \in u /\ u \ {x} = r /\ a \cup u \in SUBSET S
        /\ x \in a \cup u /\ (a \cup u) \ {x} = a \cup r /\ r \in SUBSET S
    OBVIOUS
  <2> HIDE DEF u, R
  <2>2. g[u] = f[x] + g[r] /\ g[a \cup u] = f[x] + g[a \cup r]
    <3>1. g[u] = f[x] + g[u \ {x}]
      BY <1>1, <2>1
    <3> DEFINE v == a \cup u
    <3>2. v \in SUBSET S /\ x \in v
      BY <2>1
    <3> HIDE DEF v
    <3>3. g[v] = f[x] + g[v \ {x}]
      BY <1>1, <3>2
    <3> QED
      BY <2>1, <3>1, <3>3 DEF v
  <2>3. g[a \cup r] = g[a] + g[r]
    BY <1>4
  <2>4. g[a \cup u] = g[a] + g[u]
    <3>1. f[x] \in Int /\ g[r] \in Int /\ g[a] \in Int
      <4>1. x \in S
        BY <2>1
      <4> QED
        BY <1>1, <2>1, <4>1
    <3> QED
      BY <2>2, <2>3, <3>1
  <2> QED
    BY <2>1, <2>4 DEF u
<1> HIDE DEF T, R
<1>5. SUBSET R \subseteq T
  BY <1>2, <1>3, <1>4, SubsetInduction
<1> QED
  BY <1>5 DEF T, R

\* What is not larger one by one is not in all.
LEMMA SumWithin ==
  ASSUME NEW S, IsFiniteSet(S), NEW f \in [S -> Int], NEW h \in [S -> Int],
         \A x \in S : f[x] \in 0..h[x],
         NEW g, Additive(g, f, S), NEW m, Additive(m, h, S)
  PROVE  \A s \in SUBSET S : g[s] \in 0..m[s]
<1> DEFINE T == {s \in SUBSET S : g[s] \in 0..m[s]}
<1>1. /\ g[{}] = 0 /\ \A r \in SUBSET S : g[r] \in Int
      /\ \A r \in SUBSET S : \A x \in r : g[r] = f[x] + g[r \ {x}]
  BY DEF Additive
<1>2. /\ m[{}] = 0 /\ \A r \in SUBSET S : m[r] \in Int
      /\ \A r \in SUBSET S : \A x \in r : m[r] = h[x] + m[r \ {x}]
  BY DEF Additive
<1>3. {} \in T
  BY <1>1, <1>2
<1>4. ASSUME NEW r \in SUBSET S, NEW x \in S \ r, r \in T PROVE r \cup {x} \in T
  <2> DEFINE u == r \cup {x}
  <2>1. u \in SUBSET S /\ x \in u /\ u \ {x} = r
    OBVIOUS
  <2> HIDE DEF u
  <2>2. g[u] = f[x] + g[r] /\ m[u] = h[x] + m[r] /\ g[r] \in Int /\ m[r] \in Int
    BY <1>1, <1>2, <2>1
  <2>3. g[r] \in 0..m[r] /\ f[x] \in 0..h[x] /\ f[x] \in Int /\ h[x] \in Int
    BY <1>4
  <2>4. g[u] \in 0..m[u]
    BY <2>2, <2>3
  <2> QED
    BY <2>1, <2>4 DEF u
<1> HIDE DEF T
<1>5. SUBSET S \subseteq T
  BY <1>3, <1>4, SubsetInduction
<1> QED
  BY <1>5 DEF T

\* A sum of multiples is one.
LEMMA SumOfMultiples ==
  ASSUME NEW S, IsFiniteSet(S), NEW f \in [S -> Int], NEW g, Additive(g, f, S),
         NEW k \in Nat \ {0}, NEW t \in SUBSET S, \A x \in t : f[x] % k = 0
  PROVE  g[t] % k = 0
<1> DEFINE T == {s \in SUBSET t : g[s] % k = 0}
<1>1. /\ g[{}] = 0 /\ \A r \in SUBSET S : g[r] \in Int
      /\ \A r \in SUBSET S : \A x \in r : g[r] = f[x] + g[r \ {x}]
  BY DEF Additive
<1>2. IsFiniteSet(t)
  BY FS_Subset
<1>3. {} \in T
  <2>1. 0 % k = 0
    OBVIOUS
  <2> QED
    BY <1>1, <2>1
<1>4. ASSUME NEW r \in SUBSET t, NEW x \in t \ r, r \in T PROVE r \cup {x} \in T
  <2> DEFINE u == r \cup {x}
             a == f[x]
             b == g[r]
  <2>1. u \in SUBSET S /\ u \in SUBSET t /\ x \in u /\ u \ {x} = r /\ r \in SUBSET S
    OBVIOUS
  <2> HIDE DEF u
  <2>2. g[u] = a + b /\ a \in Int /\ b \in Int /\ a % k = 0 /\ b % k = 0
    BY <1>1, <1>4, <2>1
  <2> HIDE DEF a, b
  <2>3. a = k * (a \div k) /\ b = k * (b \div k) /\ a \div k \in Int /\ b \div k \in Int
    BY <2>2, Divided
  <2> DEFINE c == a \div k
             d == b \div k
  <2>4. c \in Int /\ d \in Int /\ a = k * c /\ b = k * d
    BY <2>3
  <2> HIDE DEF c, d
  <2>5. g[u] = k * (c + d) + 0 /\ c + d \in Int /\ 0 \in 0..(k - 1)
    BY <2>2, <2>4
  <2>6. (k * (c + d) + 0) % k = 0
    BY <2>5, Division
  <2>7. g[u] % k = 0
    BY <2>5, <2>6
  <2> QED
    BY <2>1, <2>7 DEF u
<1> HIDE DEF T
<1>5. t \in T
  BY <1>2, <1>3, <1>4, SubsetInduction
<1> QED
  BY <1>5 DEF T

-----------------------------------------------------------------------------
\* The byte the pieces are written to.

\* A byte is what it was before, and the shares of numbers in it; of each number
\* it has the bits of its piece.
LEMMA WrittenByte ==
  ASSUME NEW c, NEW W, Apart(c, W), \A p \in W : IsPiece(p), NEW n \in [W -> Int], NEW byte,
         byte = c + SumFunction([p \in W |-> Share(n[p], p)])
  PROVE  /\ byte \in 0..255
         /\ \A r \in W : (byte \div r.factor) % r.modulus = (n[r] \div r.weight) % r.modulus
         /\ \A k \in Nat \ {0} : (\A p \in W : p.factor % k = 0) => byte % k = c % k
         /\ W = {} => byte = c
<1> DEFINE f == [p \in W |-> Share(n[p], p)]
           h == [p \in W |-> Largest(p)]
<1>1. /\ IsFiniteSet(W) /\ c \in Nat
      /\ c + SumFunction([p \in W |-> Largest(p)]) <= 255
      /\ \A r \in W :
           /\ c + SumFunction([p \in {q \in W : q.factor < r.factor} |-> Largest(p)]) < r.factor
           /\ \A p \in W \ {r} : p.factor < r.factor \/ p.factor % (r.factor * r.modulus) = 0
  BY DEF Apart
<1>2. ASSUME NEW p \in W
      PROVE  /\ p.factor \in Nat \ {0} /\ p.modulus \in Nat \ {0} /\ p.weight \in Nat \ {0}
             /\ (n[p] \div p.weight) % p.modulus \in 0..(p.modulus - 1)
             /\ f[p] = ((n[p] \div p.weight) % p.modulus) * p.factor
             /\ f[p] \in 0..h[p] /\ f[p] \in Int /\ h[p] \in Int
  <2>1. p.factor \in Nat \ {0} /\ p.modulus \in Nat \ {0} /\ p.weight \in Nat \ {0} /\ n[p] \in Int
    BY DEF IsPiece
  <2> DEFINE a == p.factor
             m == p.modulus
             d == (n[p] \div p.weight) % m
  <2>2. d \in 0..(m - 1)
    BY <2>1, Divided
  <2>3. f[p] = d * a /\ h[p] = (m - 1) * a
    BY DEF Share, Largest
  <2> HIDE DEF f, h, d
  <2>4. d * a \in 0..((m - 1) * a) /\ d * a \in Int /\ (m - 1) * a \in Int
    <3>1. a \in Nat /\ m \in Nat \ {0}
      BY <2>1
    <3> HIDE DEF a, m
    <3>2. d * a <= (m - 1) * a /\ d * a \in Nat /\ (m - 1) * a \in Int
      BY <2>2, <3>1
    <3> QED
      BY <3>2
  <2> QED
    BY <2>1, <2>2, <2>3, <2>4 DEF d
<1>3. f \in [W -> Int] /\ h \in [W -> Int]
  BY <1>2
<1> HIDE DEF f
<1>4. byte = c + SumFunction([p \in W |-> f[p]])
  <2>1. f = [p \in W |-> f[p]]
    BY <1>3
  <2> QED
    BY <2>1 DEF f
<1>5. \A s \in SUBSET W : [p \in s |-> h[p]] = [p \in s |-> Largest(p)]
  OBVIOUS
<1> HIDE DEF h
<1>6. PICK g : /\ Additive(g, f, W)
               /\ \A s \in SUBSET W : SumFunction([x \in s |-> f[x]]) = g[s]
  BY <1>1, <1>3, SumFacts
<1>7. PICK m : /\ Additive(m, h, W)
               /\ \A s \in SUBSET W : SumFunction([x \in s |-> h[x]]) = m[s]
  BY <1>1, <1>3, SumFacts
<1>8. \A s \in SUBSET W : g[s] \in 0..m[s] /\ m[s] \in Int /\ g[s] \in Int
  <2>1. \A s \in SUBSET W : g[s] \in 0..m[s]
    BY <1>1, <1>2, <1>3, <1>6, <1>7, SumWithin
  <2>2. m \in [SUBSET W -> Int]
    BY <1>7 DEF Additive
  <2> QED
    BY <2>1, <2>2
<1>9. byte = c + g[W] /\ c + m[W] <= 255
  <2>1. W \in SUBSET W
    OBVIOUS
  <2>2. SumFunction([p \in W |-> Largest(p)]) = m[W]
    BY <1>5, <1>7, <2>1
  <2> QED
    BY <1>1, <1>4, <1>6, <2>1, <2>2
<1>10. byte \in 0..255
  <2>1. g[W] \in 0..m[W] /\ m[W] \in Int /\ c \in Nat
    <3>1. W \in SUBSET W
      OBVIOUS
    <3> QED
      BY <1>1, <1>8, <3>1
  <2> QED
    BY <1>9, <2>1
<1>11. ASSUME NEW r \in W
       PROVE  (byte \div r.factor) % r.modulus = (n[r] \div r.weight) % r.modulus
  <2> DEFINE a == r.factor
             b == r.modulus
             d == (n[r] \div r.weight) % r.modulus
             L == {q \in W : q.factor < r.factor}
             H == W \ (L \cup {r})
             k == a * b
  <2>1. a \in Nat \ {0} /\ b \in Nat \ {0} /\ d \in 0..(b - 1) /\ f[r] = d * a
    BY <1>2
  <2>2. L \in SUBSET W /\ H \in SUBSET W /\ r \notin L /\ r \notin H /\ {r} \in SUBSET W
    <3>1. ~(r.factor < r.factor)
      BY <2>1
    <3> QED
      BY <3>1
  <2>3. c + g[L] \in 0..(a - 1)
    <3>1. c + m[L] < a
      BY <1>1, <1>5, <1>7, <2>2
    <3> QED
      BY <1>1, <1>8, <2>1, <2>2, <3>1
  <2>4. k \in Nat \ {0}
    BY <2>1
  <2>5. \A p \in H : f[p] % k = 0
    <3> SUFFICES ASSUME NEW p \in H PROVE f[p] % k = 0
      OBVIOUS
    <3>1. p \in W \ {r} /\ ~(p.factor < r.factor)
      OBVIOUS
    <3>2. p.factor % k = 0
      BY <1>1, <3>1
    <3>3. f[p] = ((n[p] \div p.weight) % p.modulus) * p.factor
          /\ p.factor \in Nat /\ (n[p] \div p.weight) % p.modulus \in Nat
      BY <1>2, <3>1
    <3> DEFINE e == (n[p] \div p.weight) % p.modulus
               u == p.factor
               v == u \div k
    <3>4. u \in Nat /\ e \in Nat /\ u % k = 0 /\ f[p] = e * u
      BY <3>2, <3>3
    <3> HIDE DEF e, u, k
    <3>5. v \in Int /\ u = k * v
      BY <2>4, <3>4, Divided
    <3> HIDE DEF v
    <3>6. f[p] = k * (e * v) + 0 /\ e * v \in Int /\ 0 \in 0..(k - 1)
      BY <2>4, <3>4, <3>5
    <3> QED
      BY <2>4, <3>6, Division
  <2>6. g[W] = g[L] + f[r] + g[H]
    <3>1. g[L \cup {r}] = f[r] + g[L]
      <4> DEFINE u == L \cup {r}
      <4>1. u \in SUBSET W /\ r \in u /\ u \ {r} = L
        BY <2>2
      <4> HIDE DEF u
      <4>2. g[u] = f[r] + g[u \ {r}]
        BY <1>6, <4>1 DEF Additive
      <4> QED
        BY <4>1, <4>2 DEF u
    <3>2. g[(L \cup {r}) \cup H] = g[L \cup {r}] + g[H]
      <4> DEFINE u == L \cup {r}
      <4>1. u \in SUBSET W /\ H \in SUBSET (W \ u)
        BY <2>2
      <4> HIDE DEF u, H
      <4> QED
        BY <1>1, <1>3, <1>6, <4>1, SumOfBoth DEF u
    <3>3. (L \cup {r}) \cup H = W
      OBVIOUS
    <3> HIDE DEF L, H
    <3>4. g[L] \in Int /\ g[H] \in Int /\ f[r] \in Int
      BY <1>2, <1>8, <2>2
    <3>5. g[W] = g[L \cup {r}] + g[H]
      BY <3>2, <3>3, Zenon
    <3> QED
      BY <3>1, <3>4, <3>5
  <2>7. g[H] % k = 0
    <3> HIDE DEF k, H
    <3> QED
      BY <1>1, <1>3, <1>6, <2>2, <2>4, <2>5, SumOfMultiples
  <2> HIDE DEF L, H
  <2>8. g[L] \in Int /\ g[H] \in Int
    BY <1>8, <2>2
  <2> DEFINE l == c + g[L]
             v == g[H]
             w == v \div k
  <2>9. byte = l + d * a + v /\ l \in 0..(a - 1) /\ v \in Int /\ v % k = 0
    <3> HIDE DEF k, d
    <3>1. c \in Nat /\ d * a \in Int
      BY <1>1, <2>1
    <3> QED
      BY <1>9, <2>1, <2>3, <2>6, <2>7, <2>8, <3>1
  <2> HIDE DEF l, v, d, a, b
  <2>10. w \in Int /\ v = k * w
    <3> HIDE DEF k
    <3>1. v \div k \in Int /\ v = k * (v \div k) + (v % k)
      BY <2>4, <2>9, Divided
    <3> QED
      BY <2>4, <2>9, <3>1
  <2> HIDE DEF w
  <2>11. byte = a * (b * w + d) + l /\ b * w + d \in Int
    <3>1. k * w = a * (b * w) /\ b * w \in Int /\ d \in Int
      BY <2>1, <2>10
    <3>2. a * (b * w + d) = a * (b * w) + d * a
      BY <2>1, <3>1
    <3> HIDE DEF k
    <3>3. a * (b * w) \in Int /\ d * a \in Int
      BY <2>1, <3>1
    <3> QED
      BY <2>1, <2>9, <2>10, <3>1, <3>2, <3>3
  <2>12. byte \div a = b * w + d
    <3> DEFINE e == b * w + d
    <3>1. byte = a * e + l /\ e \in Int
      BY <2>11
    <3> HIDE DEF e
    <3>2. l \in 0..(a - 1) /\ a \in Nat \ {0}
      BY <2>1, <2>9
    <3>3. (a * e + l) \div a = e
      BY <3>1, <3>2, Division
    <3>4. byte \div a = e
      BY <3>1, <3>3, Zenon
    <3> QED
      BY <3>4 DEF e
  <2>13. (b * w + d) % b = d
    BY <2>1, <2>10, Division
  <2> QED
    BY <2>12, <2>13 DEF a, b, d
<1>12. ASSUME NEW k \in Nat \ {0}, \A p \in W : p.factor % k = 0
       PROVE  byte % k = c % k
  <2>1. \A p \in W : f[p] % k = 0
    <3> SUFFICES ASSUME NEW p \in W PROVE f[p] % k = 0
      OBVIOUS
    <3> DEFINE e == (n[p] \div p.weight) % p.modulus
               u == p.factor
               v == u \div k
    <3>1. u \in Nat /\ e \in Nat /\ u % k = 0 /\ f[p] = e * u
      BY <1>2, <1>12
    <3> HIDE DEF e, u
    <3>2. v \in Int /\ u = k * v
      BY <3>1, Divided
    <3> HIDE DEF v
    <3>3. f[p] = k * (e * v) + 0 /\ e * v \in Int /\ 0 \in 0..(k - 1)
      BY <3>1, <3>2
    <3> QED
      BY <3>3, Division
  <2>2. g[W] % k = 0 /\ g[W] \in Int
    <3>1. W \in SUBSET W
      OBVIOUS
    <3> QED
      BY <1>1, <1>3, <1>6, <1>8, <2>1, <3>1, SumOfMultiples
  <2> DEFINE v == g[W]
             w == v \div k
             q == c \div k
             r == c % k
  <2>10. v \in Int /\ v % k = 0 /\ c \in Int
    BY <1>1, <2>2
  <2> HIDE DEF v
  <2>3. v \in Int /\ v = k * w /\ w \in Int
    BY <2>10, Divided
  <2>4. q \in Int /\ r \in 0..(k - 1) /\ c = k * q + r
    BY <2>10, Divided
  <2> HIDE DEF v, w, q, r
  <2>5. c + v = k * (q + w) + r /\ q + w \in Int
    BY <2>3, <2>4
  <2>6. (k * (q + w) + r) % k = r
    BY <2>4, <2>5, Division
  <2> QED
    BY <1>9, <2>5, <2>6 DEF v, r
<1>13. W = {} => byte = c
  BY <1>1, <1>6, <1>9 DEF Additive
<1> QED
  BY <1>10, <1>11, <1>12, <1>13

-----------------------------------------------------------------------------
\* The number the pieces are read as.

\* The value of digits d in the places of P is below room; the digits of a number
\* make its lower part.
LEMMA Digits ==
  ASSUME NEW P, NEW room, Complete(P, room), \A p \in P : IsPiece(p),
         NEW d, \A p \in P : d[p] \in 0..(p.modulus - 1), NEW n \in Int,
         NEW value, value = SumFunction([p \in P |-> d[p] * p.weight])
  PROVE  /\ room \in Nat \ {0} /\ value \in 0..(room - 1)
         /\ (\A p \in P : d[p] = (n \div p.weight) % p.modulus) => value = n % room
<1> DEFINE f == [p \in P |-> d[p] * p.weight]
           Top(p) == p.weight * p.modulus
           Under(t) == {p \in P : Top(p) <= t}
           Of(u) == \A p \in P : d[p] = (u \div p.weight) % p.modulus
<1>1. /\ IsFiniteSet(P)
      /\ \E p \in P : Top(p) = room
      /\ \A p \in P :
           /\ Top(p) <= room
           /\ p.weight = 1 \/ \E q \in P : Top(q) = p.weight
           /\ \A q \in P \ {p} : Top(p) <= q.weight \/ Top(q) <= p.weight
  BY DEF Complete
<1>2. ASSUME NEW p \in P
      PROVE  /\ p.weight \in Nat \ {0} /\ p.modulus \in Nat \ {0, 1}
             /\ Top(p) \in Nat /\ Top(p) > p.weight
             /\ d[p] \in 0..(p.modulus - 1)
             /\ f[p] = d[p] * p.weight /\ f[p] \in Int
  <2>1. p.weight \in Nat \ {0} /\ p.modulus \in Nat \ {0, 1}
    BY DEF IsPiece
  <2>2. \A w \in Nat \ {0} : \A m \in Nat \ {0, 1} : w * m \in Nat /\ w * m > w
    OBVIOUS
  <2>3. d[p] * p.weight \in Int
    BY <2>1
  <2> QED
    BY <2>1, <2>2, <2>3
<1>3. f \in [P -> Int]
  BY <1>2
<1> HIDE DEF f
<1>4. PICK g : /\ Additive(g, f, P)
               /\ \A s \in SUBSET P : SumFunction([x \in s |-> f[x]]) = g[s]
  BY <1>1, <1>3, SumFacts
<1>5. value = g[P]
  <2>1. f = [p \in P |-> f[p]]
    BY <1>3
  <2>2. P \in SUBSET P
    OBVIOUS
  <2>3. value = SumFunction([p \in P |-> f[p]])
    BY <2>1 DEF f
  <2> QED
    BY <1>4, <2>2, <2>3
<1>6. /\ g[{}] = 0
      /\ \A s \in SUBSET P : g[s] \in Int /\ \A x \in s : g[s] = f[x] + g[s \ {x}]
  BY <1>4 DEF Additive
<1> DEFINE T == {t \in Nat : \A s \in 0..t : \A p \in P : Top(p) = s =>
                   g[Under(s)] \in 0..(s - 1) /\ (Of(n) => g[Under(s)] = n % s)}
<1>7. 0 \in T
  <2> SUFFICES ASSUME NEW s \in 0..0, NEW p \in P, Top(p) = s PROVE FALSE
    OBVIOUS
  <2>1. Top(p) \in Nat /\ Top(p) > p.weight /\ p.weight \in Nat
    BY <1>2
  <2> QED
    BY <2>1
<1>8. ASSUME NEW i \in Nat, i \in T PROVE i + 1 \in T
  <2> SUFFICES ASSUME NEW s \in 0..(i + 1), NEW p \in P, Top(p) = s
               PROVE  g[Under(s)] \in 0..(s - 1) /\ (Of(n) => g[Under(s)] = n % s)
    <3> HIDE DEF Top, Under, Of
    <3> QED
      OBVIOUS
  <2> DEFINE w == p.weight
             m == p.modulus
             e == d[p]
  <2>1. /\ w \in Nat \ {0} /\ m \in Nat \ {0, 1} /\ s \in Nat /\ s > w /\ s = w * m
        /\ e \in 0..(m - 1) /\ f[p] = e * w
    BY <1>2
  <2>2. Under(s) \in SUBSET P /\ p \in Under(s) /\ Under(w) \in SUBSET P
    BY <2>1
  <2>3. Under(s) \ {p} = Under(w)
    <3>1. ASSUME NEW q \in P \ {p}, Top(q) <= s PROVE Top(q) <= w
      <4>1. q.weight \in Nat \ {0} /\ Top(q) > q.weight /\ Top(q) \in Nat
        BY <1>2
      <4>2. Top(p) <= q.weight \/ Top(q) <= p.weight
        BY <1>1
      <4> QED
        BY <2>1, <3>1, <4>1, <4>2
    <3>2. ASSUME NEW q \in P, Top(q) <= w PROVE Top(q) <= s /\ q # p
      BY <1>2, <2>1, <3>2
    <3> QED
      BY <3>1, <3>2
  <2>4. g[Under(s)] = e * w + g[Under(w)]
    <3> HIDE DEF Under, e, w
    <3> QED
      BY <1>6, <2>1, <2>2, <2>3
  <2>5. g[Under(w)] \in 0..(w - 1) /\ (Of(n) => g[Under(w)] = n % w)
    <3>1. CASE w = 1
      <4>1. Under(w) = {}
        <5> SUFFICES ASSUME NEW q \in P, Top(q) <= 1 PROVE FALSE
          BY <3>1
        <5> QED
          BY <1>2
      <4>2. g[Under(w)] = 0
        BY <1>6, <4>1, Zenon
      <4> HIDE DEF Under, w, Of
      <4>3. g[Under(w)] \in 0..(w - 1)
        BY <3>1, <4>2
      <4>4. n % w = 0
        BY <3>1
      <4> QED
        BY <4>2, <4>3, <4>4
    <3>2. CASE w # 1
      <4>1. PICK q \in P : Top(q) = w
        BY <1>1, <3>2
      <4>2. w \in 0..i
        BY <2>1
      <4> HIDE DEF Top, Under, Of, w
      <4>3. \A t \in 0..i : \A r \in P : Top(r) = t =>
              g[Under(t)] \in 0..(t - 1) /\ (Of(n) => g[Under(t)] = n % t)
        BY <1>8
      <4> QED
        BY <4>1, <4>2, <4>3
    <3> QED
      BY <3>1, <3>2
  <2> DEFINE u == g[Under(w)]
  <2>6. u \in 0..(w - 1) /\ (Of(n) => u = n % w) /\ g[Under(s)] = e * w + u
    BY <2>4, <2>5
  <2>7. Of(n) => e = (n \div w) % m
    BY <1>2
  <2> HIDE DEF u, e, w, m, Under, Of
  <2>8. e * w + u \in 0..(s - 1)
    <3>1. e * w <= (m - 1) * w /\ e * w \in Nat
      BY <2>1
    <3>2. (m - 1) * w = s - w
      BY <2>1
    <3> QED
      BY <2>1, <2>6, <3>1, <3>2
  <2>9. ASSUME Of(n) PROVE e * w + u = n % s
    <3>1. n % (w * m) = (n % w) + ((n \div w) % m) * w
      BY <2>1, NextDigit
    <3> QED
      BY <2>1, <2>6, <2>7, <2>9, <3>1
  <2> QED
    BY <2>6, <2>8, <2>9
<1> HIDE DEF T
<1>9. Nat \subseteq T
  BY <1>7, <1>8, Induction
<1>10. PICK p \in P : Top(p) = room
  BY <1>1
<1>11. room \in Nat \ {0}
  BY <1>2, <1>10
<1>12. Under(room) = P
  BY <1>1
<1>13. g[P] \in 0..(room - 1) /\ (Of(n) => g[P] = n % room)
  <2>1. room \in T
    BY <1>9, <1>11
  <2>2. room \in 0..room
    BY <1>11
  <2> QED
    BY <1>10, <1>12, <2>1, <2>2 DEF T
<1> QED
  BY <1>5, <1>11, <1>13

-----------------------------------------------------------------------------
\* All bytes of a datagram, all members.

\* The bytes get_data makes of the numbers of the members.
Written(id, number) ==
  [i \in 1..LayoutOf[id].size |->
     LayoutOf[id].constants[i - 1]
       + SumFunction([p \in WrittenTo[id][i - 1] |-> Share(number[p.member], p)])]

\* Members that are written in another form than they are read.
Differs(id, j) ==
  LET member == LayoutOf[id].members[j]
  IN IsMiswritten(id, member) /\ member.kind \in {"halves", "tenths", "plain"}

\* The others are read as the lower part of their numbers.
Carries(id, bytes, number) ==
  \A j \in DOMAIN LayoutOf[id].members :
    Differs(id, j) \/ Read(bytes, ReadFrom[id][j]) = number[j] % Room[id][j]

Positions(id) == 0..(LayoutOf[id].size - 1)
AreBytes(id, bytes) == \A i \in Positions(id) : At(bytes, i) \in 0..255

\* What is read of a datagram of the right size.
LEMMA NumberRead ==
  ASSUME NEW id \in DOMAIN LayoutOf, NEW bytes, AreBytes(id, bytes),
         NEW j \in DOMAIN LayoutOf[id].members
  PROVE  Room[id][j] \in Nat \ {0} /\ Read(bytes, ReadFrom[id][j]) \in 0..(Room[id][j] - 1)
<1> DEFINE P == ReadFrom[id][j]
           room == Room[id][j]
           d == [p \in P |-> (At(bytes, p.byte) \div p.factor) % p.modulus]
           value == Read(bytes, P)
<1>1. LayoutIsSound(id)
  BY LayoutsAssumption
<1>2. /\ Complete(P, room)
      /\ \A p \in P : IsPiece(p) /\ p.byte \in Positions(id)
  BY <1>1 DEF LayoutIsSound, Positions
<1> HIDE DEF P, room
<1>3. \A p \in P : d[p] \in 0..(p.modulus - 1)
  <2> SUFFICES ASSUME NEW p \in P PROVE d[p] \in 0..(p.modulus - 1)
    OBVIOUS
  <2>1. p.factor \in Nat \ {0} /\ p.modulus \in Nat \ {0} /\ At(bytes, p.byte) \in Int
    <3>1. At(bytes, p.byte) \in 0..255
      BY <1>2 DEF AreBytes
    <3> QED
      BY <1>2, <3>1 DEF IsPiece
  <2> DEFINE q == At(bytes, p.byte) \div p.factor
  <2>2. q \in Int
    BY <2>1, Divided
  <2> HIDE DEF q
  <2>3. q % p.modulus \in 0..(p.modulus - 1)
    BY <2>1, <2>2, Divided
  <2> QED
    BY <2>3 DEF q
<1>4. value = SumFunction([p \in P |-> d[p] * p.weight])
  <2>1. [p \in P |-> d[p] * p.weight]
          = [p \in P |-> ((At(bytes, p.byte) \div p.factor) % p.modulus) * p.weight]
    OBVIOUS
  <2> QED
    BY <2>1 DEF Read
<1> HIDE DEF d, value
<1>5. 0 \in Int
  OBVIOUS
<1>6. room \in Nat \ {0} /\ value \in 0..(room - 1)
  BY <1>2, <1>3, <1>4, <1>5, Digits
<1> QED
  BY <1>6 DEF room, value, P

\* What is written are bytes, of the size and with the constants that are checked;
\* of a member that is written as it is read, what is read is the lower part of
\* its number.
THEOREM WrittenIsRead ==
  ASSUME NEW id \in DOMAIN LayoutOf, NEW number \in [DOMAIN LayoutOf[id].members -> Int],
         NEW bytes, bytes = Written(id, number)
  PROVE  /\ bytes \in Seq(0..255) /\ bytes # <<>> /\ At(bytes, 0) = id
         /\ AreBytes(id, bytes)
         /\ SizeIsRight(LayoutOf[id], bytes)
         /\ \A r \in LayoutOf[id].required : At(bytes, r[1]) = r[2]
         /\ Carries(id, bytes, number)
<1> DEFINE layout == LayoutOf[id]
           members == layout.members
           W(i) == WrittenTo[id][i]
           c(i) == layout.constants[i]
<1>1. LayoutIsSound(id)
  BY LayoutsAssumption
<1>2. layout.size \in 3..18
  BY <1>1 DEF LayoutIsSound
<1>3. \A i \in Positions(id) :
        At(bytes, i) = c(i) + SumFunction([p \in W(i) |-> Share(number[p.member], p)])
  <2> SUFFICES ASSUME NEW i \in Positions(id)
               PROVE  At(bytes, i) = c(i) + SumFunction([p \in W(i) |-> Share(number[p.member], p)])
    OBVIOUS
  <2>1. i + 1 \in 1..layout.size /\ (i + 1) - 1 = i
    BY <1>2 DEF Positions
  <2> DEFINE k == i + 1
  <2>2. bytes[k] = layout.constants[k - 1]
                    + SumFunction([p \in WrittenTo[id][k - 1] |-> Share(number[p.member], p)])
    <3>1. k \in 1..LayoutOf[id].size
      BY <2>1
    <3> HIDE DEF k
    <3> QED
      BY <3>1, Zenon DEF Written
  <2>3. k - 1 = i
    BY <2>1
  <2> HIDE DEF k
  <2>4. bytes[k] = c(i) + SumFunction([p \in W(i) |-> Share(number[p.member], p)])
    BY <2>2, <2>3, Zenon
  <2> QED
    BY <2>4 DEF k, At
<1>4. ASSUME NEW i \in Positions(id)
      PROVE  /\ At(bytes, i) \in 0..255
             /\ \A r \in W(i) : (At(bytes, i) \div r.factor) % r.modulus
                                  = (number[r.member] \div r.weight) % r.modulus
             /\ \A k \in Nat \ {0} : (\A p \in W(i) : p.factor % k = 0) => At(bytes, i) % k = c(i) % k
             /\ W(i) = {} => At(bytes, i) = c(i)
  <2> DEFINE n == [p \in W(i) |-> number[p.member]]
             V == W(i)
             cc == c(i)
             byte == At(bytes, i)
  <2>1. Apart(cc, V) /\ \A p \in V : IsPiece(p) /\ p.member \in DOMAIN members
    BY <1>1 DEF LayoutIsSound, Positions
  <2>2. byte = cc + SumFunction([p \in V |-> Share(n[p], p)])
    <3>1. [p \in V |-> Share(n[p], p)] = [p \in V |-> Share(number[p.member], p)]
      OBVIOUS
    <3> QED
      BY <1>3, <3>1, Zenon
  <2>3. n \in [V -> Int]
    BY <2>1
  <2>4. \A r \in V : n[r] = number[r.member]
    OBVIOUS
  <2> HIDE DEF V, n, cc, byte
  <2>5. /\ byte \in 0..255
        /\ \A r \in V : (byte \div r.factor) % r.modulus = (n[r] \div r.weight) % r.modulus
        /\ \A k \in Nat \ {0} : (\A p \in V : p.factor % k = 0) => byte % k = cc % k
        /\ V = {} => byte = cc
    BY <2>1, <2>2, <2>3, WrittenByte
  <2>6. \A r \in V : (byte \div r.factor) % r.modulus = (number[r.member] \div r.weight) % r.modulus
    BY <2>4, <2>5, Zenon
  <2> QED
    BY <2>5, <2>6, Zenon DEF V, cc, byte
<1>5. Len(bytes) = layout.size /\ bytes \in Seq(0..255) /\ bytes # <<>>
  <2> DEFINE size == layout.size
  <2>1. DOMAIN bytes = 1..size
    BY DEF Written
  <2>2. \A i \in 1..size : bytes[i] \in 0..255
    <3> SUFFICES ASSUME NEW i \in 1..size PROVE bytes[i] \in 0..255
      OBVIOUS
    <3> DEFINE k == i - 1
    <3>1. k \in Positions(id) /\ k + 1 = i
      BY <1>2 DEF Positions
    <3> HIDE DEF k
    <3>2. At(bytes, k) \in 0..255
      BY <1>4, <3>1
    <3> QED
      BY <3>1, <3>2 DEF At
  <2>3. bytes = [i \in 1..size |-> bytes[i]]
    BY DEF Written
  <2>4. size \in Nat \ {0}
    BY <1>2
  <2> HIDE DEF size
  <2>5. bytes \in [1..size -> 0..255]
    BY <2>2, <2>3
  <2>6. bytes \in Seq(0..255) /\ Len(bytes) = size
    BY <2>4, <2>5, FunIsSeq
  <2>7. bytes # <<>>
    BY <2>4, <2>6
  <2> QED
    BY <2>6, <2>7 DEF size
<1>6. 0 \in Positions(id) /\ 1 \in Positions(id)
  BY <1>2 DEF Positions
<1>7. At(bytes, 0) = id
  <2>1. c(0) = id /\ W(0) = {}
    BY <1>1 DEF LayoutIsSound
  <2> QED
    BY <1>4, <1>6, <2>1
<1>8. SizeIsRight(layout, bytes)
  <2>1. c(1) % 16 = layout.size - 3 /\ \A p \in W(1) : p.factor % 16 = 0
    BY <1>1 DEF LayoutIsSound
  <2>2. \A k \in Nat \ {0} : (\A p \in W(1) : p.factor % k = 0) => At(bytes, 1) % k = c(1) % k
    BY <1>4, <1>6
  <2>3. 16 \in Nat \ {0}
    OBVIOUS
  <2>4. At(bytes, 1) % 16 = c(1) % 16
    <3> HIDE DEF W, c
    <3> QED
      BY <2>1, <2>2, <2>3, Zenon
  <2> QED
    BY <1>5, <2>1, <2>4 DEF SizeIsRight
<1>9. ASSUME NEW r \in layout.required PROVE At(bytes, r[1]) = r[2]
  <2>1. r[1] \in Positions(id) /\ W(r[1]) = {} /\ c(r[1]) = r[2]
    BY <1>1 DEF LayoutIsSound, Positions
  <2> QED
    BY <1>4, <2>1
<1>10. ASSUME NEW j \in DOMAIN members, ~Differs(id, j)
       PROVE  Read(bytes, ReadFrom[id][j]) = number[j] % Room[id][j]
  <2> DEFINE P == ReadFrom[id][j]
             room == Room[id][j]
             d == [p \in P |-> (At(bytes, p.byte) \div p.factor) % p.modulus]
             value == Read(bytes, P)
             n == number[j]
  <2>1. /\ Complete(P, room)
        /\ \A p \in P : IsPiece(p) /\ p.byte \in Positions(id) /\ p.member = j
        /\ \A p \in P : \E w \in W(p.byte) : WrittenAs(p, w)
    BY <1>1, <1>10 DEF LayoutIsSound, Positions, Differs
  <2>2. n \in Int
    OBVIOUS
  <2> HIDE DEF P, room, n
  <2>3. ASSUME NEW p \in P
        PROVE  d[p] \in 0..(p.modulus - 1) /\ d[p] = (n \div p.weight) % p.modulus
    <3>1. /\ p.factor \in Nat \ {0} /\ p.modulus \in Nat \ {0} /\ p.weight \in Nat \ {0}
          /\ p.byte \in Positions(id) /\ p.member = j
      BY <2>1 DEF IsPiece
    <3>2. PICK w \in W(p.byte) : WrittenAs(p, w)
      BY <2>1
    <3>3. /\ w.member = j /\ w.factor = p.factor /\ w.weight = p.weight
          /\ w.modulus % p.modulus = 0
      BY <3>1, <3>2 DEF WrittenAs
    <3>4. w.modulus \in Nat \ {0}
      BY <1>1, <3>1 DEF LayoutIsSound, Positions, IsPiece
    <3> DEFINE byte == At(bytes, p.byte)
               a == byte \div p.factor
               b == n \div p.weight
    <3>5. byte \in Int
      BY <1>4, <3>1
    <3>6. (byte \div w.factor) % w.modulus = (number[w.member] \div w.weight) % w.modulus
      BY <1>4, <3>1
    <3> HIDE DEF byte
    <3>7. a % w.modulus = b % w.modulus
      BY <3>3, <3>6, Zenon DEF n
    <3>8. a \in Int /\ b \in Int
      BY <2>2, <3>1, <3>5, Divided
    <3>9. d[p] = a % p.modulus
      BY DEF byte
    <3> HIDE DEF a, b, d
    <3>10. (a % w.modulus) % p.modulus = a % p.modulus /\ (b % w.modulus) % p.modulus = b % p.modulus
      BY <3>1, <3>3, <3>4, <3>8, RemainderTwice
    <3>11. a % p.modulus = b % p.modulus
      BY <3>7, <3>10, Zenon
    <3>12. a % p.modulus \in 0..(p.modulus - 1)
      BY <3>1, <3>8, Divided
    <3>13. d[p] = b % p.modulus /\ d[p] \in 0..(p.modulus - 1)
      BY <3>9, <3>11, <3>12, Zenon
    <3> QED
      BY <3>13 DEF b
  <2>4. value = SumFunction([p \in P |-> d[p] * p.weight])
    <3>1. [p \in P |-> d[p] * p.weight]
            = [p \in P |-> ((At(bytes, p.byte) \div p.factor) % p.modulus) * p.weight]
      OBVIOUS
    <3> QED
      BY <3>1 DEF Read
  <2> HIDE DEF d, value
  <2>5. value = n % room
    BY <2>1, <2>2, <2>3, <2>4, Digits
  <2> QED
    BY <2>5 DEF value, P, n, room
<1> QED
  BY <1>4, <1>5, <1>7, <1>8, <1>9, <1>10 DEF Carries, AreBytes

-----------------------------------------------------------------------------
\* What the kinds of members make of their values.

\* Seconds after they were hundredths of a minute; of the third part of a minute
\* one is lost.
LEMMA SecondsKept ==
  ASSUME NEW x \in Nat, x < 3600
  PROVE  /\ ToHundredths(x) \in Nat /\ ToHundredths(x) < 6000
         /\ ToSeconds(ToHundredths(x)) = IF x % 3 = 0 THEN x ELSE x - 1
<1> DEFINE a == x \div 60
           b == x % 60
           c == (b * 100) \div 60
           d == (c * 60) \div 100
<1>1. a \in 0..59 /\ b \in 0..59 /\ x = 60 * a + b
  OBVIOUS
<1> HIDE DEF a, b
<1>2. c \in 0..99
  BY <1>1
<1>3. d = IF b % 3 = 0 THEN b ELSE b - 1
  BY <1>1
<1>4. ToHundredths(x) = a * 100 + c
  BY DEF ToHundredths, a, b
<1> HIDE DEF c, d
<1> DEFINE h == a * 100 + c
<1>5. h \div 100 = a /\ h % 100 = c
  BY <1>1, <1>2
<1> HIDE DEF h
<1>6. ToSeconds(h) = a * 60 + d
  BY <1>5 DEF ToSeconds, d
<1>7. x % 3 = b % 3
  BY <1>1
<1>8. h \in Nat /\ h < 6000
  BY <1>1, <1>2 DEF h
<1>9. a * 60 + d = IF x % 3 = 0 THEN x ELSE x - 1
  BY <1>1, <1>3, <1>7
<1>10. ToHundredths(x) = h
  BY <1>4 DEF h
<1> QED
  BY <1>6, <1>8, <1>9, <1>10

\* A coordinate in seconds after it was in a datagram.
Rounded(v) ==
  IF v < 0 THEN -(-v - (IF (-v) % 3 = 0 THEN 0 ELSE 1))
           ELSE v - (IF v % 3 = 0 THEN 0 ELSE 1)

\* It moves towards zero by one second at most, by two however often.
LEMMA RoundedFacts ==
  ASSUME NEW v \in Int
  PROVE  /\ Rounded(v) \in Int /\ Absolute(v) - Absolute(Rounded(v)) \in 0..1
         /\ Rounded(v) < 0 => v < 0
         /\ Rounded(v) > 0 => v > 0
         /\ Absolute(v) - Absolute(Rounded(Rounded(v))) \in 0..2
         /\ Rounded(Rounded(v)) < 0 => v < 0
         /\ Rounded(Rounded(v)) > 0 => v > 0
         /\ Rounded(Rounded(Rounded(v))) = Rounded(Rounded(v))
<1> DEFINE s == Absolute(v)
           q == s \div 3
           r == s % 3
           one == IF r = 0 THEN 0 ELSE 1
           two == r
<1>1. s \in Nat /\ q \in Nat /\ r \in 0..2 /\ s = 3 * q + r
  BY DEF Absolute
<1>2. CASE v >= 0
  <2>1. v = s
    BY <1>2 DEF Absolute
  <2>2. Rounded(v) = s - one
    BY <1>2, <2>1 DEF Rounded
  <2> HIDE DEF s, q, r
  <2>3. Rounded(s - one) = 3 * q
    BY <1>1 DEF Rounded
  <2>4. Rounded(3 * q) = 3 * q
    BY <1>1 DEF Rounded
  <2> QED
    BY <1>1, <2>1, <2>2, <2>3, <2>4 DEF Absolute
<1>3. CASE v < 0
  <2>1. v = -s
    BY <1>3 DEF Absolute
  <2>5. s > 0
    BY <1>1, <1>3, <2>1
  <2> HIDE DEF s, q
  <2>6. Rounded(-s) = -(s - one)
    <3> DEFINE t == -s
    <3>1. t < 0 /\ -t = s
      BY <1>1, <2>5
    <3> HIDE DEF t
    <3>2. Rounded(t) = -(s - (IF s % 3 = 0 THEN 0 ELSE 1))
      <4>1. Rounded(t) = -(-t - (IF (-t) % 3 = 0 THEN 0 ELSE 1))
        BY <3>1 DEF Rounded
      <4> QED
        BY <3>1, <4>1, Zenon
    <3> QED
      BY <3>2 DEF t, r
  <2>2. Rounded(v) = -(s - one)
    BY <2>1, <2>6
  <2> HIDE DEF r
  <2>3. Rounded(-(s - one)) = -(3 * q)
    BY <1>1 DEF Rounded
  <2>4. Rounded(-(3 * q)) = -(3 * q)
    BY <1>1 DEF Rounded
  <2> QED
    BY <1>1, <2>1, <2>2, <2>3, <2>4 DEF Absolute
<1> QED
  BY <1>2, <1>3

\* What is read of what is written of a coordinate.
LEMMA CoordinateKept ==
  ASSUME NEW s \in Nat, s <= 648000, NEW h \in 0..1
  PROVE  /\ NumberOf(s, h) \in Nat /\ NumberOf(s, h) < 16777216
         /\ Hemisphere(NumberOf(s, h)) = h
         /\ CoordinateOf(NumberOf(s, h)) = IF s % 3 = 0 THEN s ELSE s - 1
<1> DEFINE a == s \div 3600
           b == s % 3600
           c == ToHundredths(b)
           n == a * 65536 + h * 32768 + c
<1>1. a \in 0..180 /\ b \in Nat /\ b < 3600 /\ s = 3600 * a + b
  BY SMT
<1> HIDE DEF a, b
<1>2. c \in Nat /\ c < 6000 /\ ToSeconds(c) = IF b % 3 = 0 THEN b ELSE b - 1
  <2>1. b \in Nat /\ b < 3600
    BY <1>1, SMT
  <2> QED
    BY <2>1, SecondsKept, SMT
<1> HIDE DEF c
<1>3. /\ n \in Nat /\ n < 16777216 /\ n \div 65536 = a
      /\ (n \div 32768) % 2 = h /\ n % 32768 = c
  <2>1. n \in Nat /\ n < 16777216 /\ n \div 65536 = a
    BY <1>1, <1>2, SMT
  <2>2. n \div 32768 = 2 * a + h /\ n % 32768 = c
    BY <1>1, <1>2, SMT
  <2>3. (2 * a + h) % 2 = h
    BY <1>1, SMT
  <2> QED
    BY <2>1, <2>2, <2>3, SMT
<1>4. NumberOf(s, h) = n
  BY SMT DEF NumberOf, a, b, c
<1> HIDE DEF n
<1>5. CoordinateOf(n) = a * 3600 + ToSeconds(c) /\ Hemisphere(n) = h
  BY <1>3, SMT DEF CoordinateOf, Hemisphere
<1>6. s % 3 = b % 3
  BY <1>1, SMT
<1>7. a * 3600 + ToSeconds(c) = IF s % 3 = 0 THEN s ELSE s - 1
  BY <1>1, <1>2, <1>6, SMT
<1> QED
  BY <1>3, <1>4, <1>5, <1>7, SMT

\* The number of a course, and the course of a number, in halves of a degree.
CourseNumber(v) == ((v \div 180) % 4) * 256 + (((v % 180) \div 4) * 4) + (v % 4)
CourseOf(n) == (n \div 256) * 180 + ((n \div 4) % 64) * 4 + (n % 4)

\* The number has ten bits, and is of the same direction.
LEMMA CourseKept ==
  ASSUME NEW v \in Nat, v < 1024
  PROVE  LET n == CourseNumber(v)
         IN n \in Nat /\ n < 1024 /\ CourseOf(n) \in Nat /\ CourseOf(n) % 720 = v % 720
<1> DEFINE q == v \div 180
           r == v % 180
           a == q % 4
           b == r \div 4
           c == v % 4
           n == CourseNumber(v)
           got == CourseOf(n)
<1>1. q \in 0..5 /\ r \in 0..179 /\ v = 180 * q + r
  OBVIOUS
<1>2. c = r % 4
  BY <1>1
<1>3. n = a * 256 + b * 4 + c
  BY DEF CourseNumber
<1> HIDE DEF q, r, c, n
<1>4. a \in 0..3 /\ (q = a \/ q = a + 4) /\ b \in 0..44 /\ c \in 0..3 /\ r = 4 * b + c
  BY <1>1, <1>2
<1> HIDE DEF a, b
<1>5. n \in Nat /\ n < 1024 /\ n \div 256 = a /\ n \div 4 = 64 * a + b /\ n % 4 = c
  BY <1>3, <1>4
<1>6. (64 * a + b) % 64 = b
  BY <1>4
<1>7. got = a * 180 + r
  BY <1>4, <1>5, <1>6 DEF CourseOf
<1> HIDE DEF got
<1>8. got \in Nat /\ got % 720 = v % 720
  BY <1>1, <1>4, <1>7
<1> QED
  BY <1>5, <1>8 DEF got, n

\* What a member may hold, by kind.
LEMMA HeldByKind ==
  ASSUME NEW member, NEW v
  PROVE  /\ member.kind = "signed" =>
              (v \in MayHold(member) <=>
                 v \in (-(2^(member.width - 1)))..(2^(member.width - 1) - 1))
         /\ member.kind \in {"latitude", "longitude", "north", "east"} =>
              (v \in MayHold(member) <=> v \in (-member.most)..member.most)
         /\ member.kind = "above" => (v \in MayHold(member) <=> v \in -100..member.most)
         /\ member.kind = "plain" /\ member.width = 32 => (v \in MayHold(member) <=> v \in Nat)
         /\ member.kind = "plain" /\ member.width # 32 =>
              (v \in MayHold(member) <=> v \in 0..(2^member.width - 1))
         /\ member.kind \in {"side", "halves", "tenths", "clamped", "course", "heading", "repeated"} =>
              (v \in MayHold(member) <=> v \in 0..(2^member.width - 1))
  BY SMTT(30) DEF MayHold

\* What is read of a number in range a member may hold.
LEMMA ReadMayHold ==
  ASSUME NEW member, NEW room, Roomy(member, room), room \in Nat \ {0},
         NEW n \in 0..(room - 1), InRange(member, n)
  PROVE  FromDatagram(member, n) \in MayHold(member)
<1> DEFINE K == 2^member.width
           H == 2^(member.width - 1)
           got == FromDatagram(member, n)
<1>1. n \in Nat /\ n < room
  BY SMT
<1>2. CASE member.kind = "signed"
  <2>1. room = K /\ K = 2 * H /\ H \in Nat \ {0}
    BY <1>2, SMT DEF Roomy
  <2>2. got = (IF n >= H THEN n - K ELSE n)
    BY <1>2, SMT DEF FromDatagram
  <2>3. (got \in MayHold(member)) <=> got \in (-H)..(H - 1)
    BY <1>2, HeldByKind, SMT
  <2> HIDE DEF got, H, K
  <2>4. got \in (-H)..(H - 1)
    BY <1>1, <2>1, <2>2, SMT
  <2> QED
    BY <2>3, <2>4, SMT DEF got
<1>3. CASE member.kind \in {"latitude", "longitude"}
  <2>1. Absolute(got) <= member.most
    BY <1>3, SMT DEF InRange
  <2>2. member.most \in Nat
    BY <1>3, SMT DEF Roomy
  <2>3. got \in Int
    <3>1. CoordinateOf(n) \in Int
      BY <1>1, SMT DEF CoordinateOf, ToSeconds
    <3>2. got = CoordinateOf(n) \/ got = -CoordinateOf(n)
      BY <1>3, SMT DEF FromDatagram
    <3> QED
      BY <3>1, <3>2, SMT
  <2> HIDE DEF got
  <2>4. got \in (-member.most)..member.most
    BY <2>1, <2>2, <2>3, SMT DEF Absolute
  <2> QED
    BY <1>3, <2>4, HeldByKind, SMT DEF got
<1>4. CASE member.kind \in {"north", "east"}
  <2>1. Absolute(got) <= member.most
    BY <1>4, SMT DEF InRange
  <2>2. member.most \in Nat
    BY <1>4, SMT DEF Roomy
  <2> DEFINE v == ((n \div 65536) % 256) * 60000 + (n % 65536)
  <2>3. got \in Int
    <3>1. v \in Int
      BY <1>1, SMT
    <3>2. got = v \/ got = -v
      BY <1>4, SMT DEF FromDatagram
    <3> QED
      BY <3>1, <3>2, SMT
  <2> HIDE DEF got
  <2>4. got \in (-member.most)..member.most
    BY <2>1, <2>2, <2>3, SMT DEF Absolute
  <2> QED
    BY <1>4, <2>4, HeldByKind, SMT DEF got
<1>5. CASE member.kind = "above"
  <2>1. got = n - 100
    BY <1>5, SMT DEF FromDatagram
  <2>2. member.most \in Nat /\ n - 100 <= member.most
    <3>1. room = 65536 /\ member.most = 65435
      BY <1>5, SMT DEF Roomy
    <3> QED
      BY <1>1, <3>1, SMT
  <2> HIDE DEF got
  <2>3. got \in -100..member.most
    BY <1>1, <2>1, <2>2, SMT
  <2> QED
    BY <1>5, <2>3, HeldByKind, SMT DEF got
<1>6. CASE member.kind \in {"side", "halves", "tenths", "clamped", "course", "heading", "repeated"}
  <2>1. CASE member.kind = "side"
    <3>1. got = IF n <= 2 THEN n ELSE 0
      BY <2>1, SMT DEF FromDatagram
    <3>2. K = 4
      BY <2>1, SMT DEF Roomy
    <3> HIDE DEF got, K
    <3>3. got \in 0..(K - 1)
      BY <1>1, <3>1, <3>2, SMT
    <3> QED
      BY <1>6, <3>3, HeldByKind, SMT DEF got, K
  <2>2. CASE member.kind \in {"halves", "tenths"}
    <3>1. K = 65536 /\ n < 65536
      BY <1>1, <2>2, SMT DEF Roomy
    <3>2. got = ((n * 10) % 65536) \div 2 \/ got = (n \div 16) * 10 + (n % 16)
      BY <2>2, SMT DEF FromDatagram
    <3> HIDE DEF got
    <3>3. got \in 0..(K - 1)
      BY <1>1, <3>1, <3>2, SMT
    <3> QED
      BY <1>6, <3>3, HeldByKind, SMT DEF got
  <2>3. CASE member.kind = "clamped"
    <3>1. K = 256 /\ member.most \in Nat /\ member.most < 100
      BY <2>3, SMT DEF Roomy
    <3>2. got = Smaller(n, member.most)
      BY <2>3, SMT DEF FromDatagram
    <3> HIDE DEF got
    <3>3. got \in 0..(K - 1)
      BY <1>1, <3>1, <3>2, SMT DEF Smaller
    <3> QED
      BY <1>6, <3>3, HeldByKind, SMT DEF got
  <2>4. CASE member.kind \in {"course", "heading"}
    <3>1. K = 1024 /\ n < 1024
      BY <1>1, <2>4, SMT DEF Roomy
    <3> DEFINE v == (n \div 256) * 180 + ((n \div 4) % 64) * 4 + (n % 4)
    <3>2. got = v \/ got = v % 720
      BY <2>4, SMT DEF FromDatagram
    <3>3. v \in Nat /\ v < 1024
      BY <1>1, <3>1, SMT
    <3> HIDE DEF got, v
    <3>4. got \in 0..(K - 1)
      BY <3>1, <3>2, <3>3, SMT
    <3> QED
      BY <1>6, <3>4, HeldByKind, SMT DEF got
  <2>5. CASE member.kind = "repeated"
    <3>1. K = 256 /\ n < 65536
      BY <1>1, <2>5, SMT DEF Roomy
    <3>2. got = n \div 256
      BY <2>5, SMT DEF FromDatagram
    <3> HIDE DEF got
    <3>3. got \in 0..(K - 1)
      BY <1>1, <3>1, <3>2, SMT
    <3> QED
      BY <1>6, <3>3, HeldByKind, SMT DEF got
  <2> QED
    BY <1>6, <2>1, <2>2, <2>3, <2>4, <2>5, SMT
<1>7. CASE member.kind = "plain"
  <2>1. got = n
    BY <1>7, SMT DEF FromDatagram
  <2>2. CASE member.width = 32
    BY <1>1, <1>7, <2>1, <2>2, HeldByKind, SMT
  <2>3. CASE member.width # 32
    <3>1. room <= K /\ K \in Nat
      BY <1>7, <2>3, SMT DEF Roomy
    <3>2. got \in 0..(K - 1)
      BY <1>1, <2>1, <3>1, SMT
    <3> QED
      BY <1>7, <2>3, <3>2, HeldByKind, SMT
  <2> QED
    BY <2>2, <2>3, SMT
<1>8. member.kind \in {"signed", "latitude", "longitude", "north", "east", "above", "side", "halves",
                       "tenths", "clamped", "course", "heading", "repeated", "plain"}
  BY SMT DEF Roomy
<1> QED
  BY <1>2, <1>3, <1>4, <1>5, <1>6, <1>7, <1>8, SMT

\* A value of a member, and what comes back of it: the number that is read of what
\* is written is in range, and makes the same value if the datagram has room for it.
LEMMA KindReadBack ==
  ASSUME NEW member, NEW room, Roomy(member, room), room \in Nat \ {0},
         member.kind \notin {"halves", "tenths"},
         NEW v \in MayHold(member), Castable(member, v),
         NEW lost \in 0..1, lost = 1 => member.kind \in {"north", "east"} /\ v % 60000 > 0,
         NEW n, n = ToDatagram(member, v, lost) % room
  PROVE  /\ InRange(member, n)
         /\ Fits(member, v) => Same(member, v, FromDatagram(member, n))
         /\ member.kind \in {"latitude", "longitude"} => FromDatagram(member, n) = Rounded(v)
<1> DEFINE K == 2^member.width
           H == 2^(member.width - 1)
           number == ToDatagram(member, v, lost)
           got == FromDatagram(member, n)
<1>1. CASE member.kind = "signed"
  <2>1. room = K /\ K = 2 * H /\ H \in Nat \ {0}
    BY <1>1, SMT DEF Roomy
  <2>2. v \in (-H)..(H - 1)
    BY <1>1, HeldByKind, SMT
  <2>3. number = v % K
    BY <1>1, SMT DEF ToDatagram
  <2>4. got = (IF n >= H THEN n - K ELSE n)
    BY <1>1, SMT DEF FromDatagram
  <2>5. n = number % room
    BY SMT
  <2> HIDE DEF K, H, number, got
  <2>6. v % K = IF v >= 0 THEN v ELSE v + K
    BY <2>1, <2>2, SmallRemainder, SMT
  <2> DEFINE u == v % K
  <2>7. u \in 0..(K - 1) /\ K \in Nat \ {0} /\ number = u
    BY <2>1, <2>2, <2>3, <2>6, SMT
  <2> HIDE DEF u
  <2>8. u % K = u
    BY <2>7, SmallRemainder, SMT
  <2>9. n = u
    BY <2>1, <2>5, <2>7, <2>8, SMT
  <2>10. got = v
    BY <2>1, <2>2, <2>4, <2>6, <2>9, SMT DEF u
  <2> QED
    BY <1>1, <2>10, SMT DEF got, InRange, Same
<1>2. CASE member.kind \in {"latitude", "longitude"}
  <2>1. room = 16777216 /\ member.most \in Nat /\ member.most <= 648000
    BY <1>2, SMT DEF Roomy
  <2>2. v \in Int /\ -member.most <= v /\ v <= member.most
    BY <1>2, <2>1, HeldByKind, SMT
  <2> DEFINE s == Absolute(v)
             h == IF (v < 0) = (member.kind = "latitude") THEN 1 ELSE 0
  <2>3. s \in Nat /\ s <= 648000 /\ s <= member.most /\ h \in 0..1
    BY <2>1, <2>2, SMT DEF Absolute
  <2>4. number = NumberOf(s, h)
    BY <1>2, SMT DEF ToDatagram
  <2> DEFINE c == NumberOf(s, h)
  <2>5. got = IF (Hemisphere(n) = 1) = (member.kind = "latitude") THEN -CoordinateOf(n) ELSE CoordinateOf(n)
    BY <1>2, SMT DEF FromDatagram
  <2>6. n = c % 16777216
    BY <2>1, <2>4, SMT
  <2> HIDE DEF got, number, s, h
  <2>7. c \in Nat /\ c < 16777216 /\ Hemisphere(c) = h /\ CoordinateOf(c) = IF s % 3 = 0 THEN s ELSE s - 1
    BY <2>3, CoordinateKept, SMT
  <2> HIDE DEF c
  <2>8. n = c
    BY <2>6, <2>7, SMT
  <2>9. (h = 1) = ((v < 0) = (member.kind = "latitude"))
    BY SMT DEF h
  <2>10. got = IF v < 0 THEN -(IF s % 3 = 0 THEN s ELSE s - 1) ELSE (IF s % 3 = 0 THEN s ELSE s - 1)
    BY <2>3, <2>5, <2>7, <2>8, <2>9, SMT
  <2>11. got = Rounded(v)
    <3>1. CASE v < 0
      <4>1. s = -v
        BY <2>2, <3>1, SMT DEF s, Absolute
      <4>2. Rounded(v) = -(s - (IF s % 3 = 0 THEN 0 ELSE 1))
        BY <3>1, <4>1, SMT DEF Rounded
      <4> QED
        BY <2>3, <2>10, <3>1, <4>2, SMT
    <3>2. CASE v >= 0
      <4>1. s = v
        BY <2>2, <3>2, SMT DEF s, Absolute
      <4>2. Rounded(v) = s - (IF s % 3 = 0 THEN 0 ELSE 1)
        BY <2>2, <3>2, <4>1, SMT DEF Rounded
      <4> QED
        BY <2>2, <2>3, <2>10, <3>2, <4>2, SMT
    <3> QED
      BY <2>2, <3>1, <3>2, SMT
  <2>12. /\ got \in Int /\ Absolute(v) - Absolute(got) \in 0..1
         /\ got < 0 => v < 0
         /\ got > 0 => v > 0
    BY <2>2, <2>11, RoundedFacts, SMT
  <2>13. Absolute(got) <= member.most
    <3>1. Absolute(got) \in Int /\ Absolute(v) = s
      BY <2>12, SMT DEF s, Absolute
    <3> QED
      BY <2>1, <2>3, <2>12, <3>1, SMT
  <2> QED
    BY <1>2, <2>11, <2>12, <2>13, SMT DEF got, InRange, Same
<1>3. CASE member.kind \in {"north", "east"}
  <2>1. room = 33554432 /\ member.most \in Nat /\ member.most <= 10800000
    BY <1>3, SMT DEF Roomy
  <2>2. v \in Int /\ -member.most <= v /\ v <= member.most
    BY <1>3, <2>1, HeldByKind, SMT
  <2> DEFINE s == Absolute(v)
             bit == (v < 0) = (member.kind = "north")
             c == (IF bit THEN 16777216 ELSE 0) + (s \div 60000) * 65536 + (v % 60000) - lost
             e == ((n \div 65536) % 256) * 60000 + (n % 65536)
  <2>3. s \in Nat /\ s <= 10800000 /\ s <= member.most /\ (s = v \/ s = -v) /\ (v >= 0 => s = v)
    BY <2>1, <2>2, SMT DEF Absolute
  <2>4. v % 60000 = s % 60000
    <3>1. CASE v >= 0
      BY <2>3, <3>1, SMT
    <3>2. CASE ~(v >= 0)
      <4>1. v % 60000 = 0 /\ s = -v
        BY <1>3, <2>2, <2>3, <3>2, SMT DEF Castable, Absolute
      <4> QED
        BY <2>2, <4>1, SMT
    <3> QED
      BY <3>1, <3>2, SMT
  <2>5. number = c
    BY <1>3, SMT DEF ToDatagram
  <2>6. got = IF ((n >= 16777216) <=> (member.kind = "north")) THEN -e ELSE e
    BY <1>3, SMT DEF FromDatagram
  <2>7. n = c % 33554432
    BY <2>1, <2>5, SMT
  <2> DEFINE q == s \div 60000
             r == s % 60000
  <2>8. q \in Nat /\ q <= 180 /\ r \in Nat /\ r < 60000 /\ s = 60000 * q + r
        /\ (lost = 1 => r > 0)
    BY <2>3, <2>4, SMT
  <2>9. c = (IF bit THEN 16777216 ELSE 0) + q * 65536 + r - lost
    BY <2>4, SMT
  <2> HIDE DEF got, number, s, q, r, c, bit
  <2>10. c \in Nat /\ c < 33554432 /\ (c >= 16777216 <=> bit)
    BY <2>8, <2>9, SMT
  <2>11. n = c
    BY <2>7, <2>10, SMT
  <2>12. e = 60000 * q + (r - lost)
    <3> DEFINE t == r - lost
               b == IF bit THEN 256 ELSE 0
    <3>1. t \in Nat /\ t < 65536 /\ b \in {0, 256}
      BY <2>8, SMT
    <3>2. c = (b + q) * 65536 + t
      BY <2>8, <2>9, SMT
    <3> HIDE DEF t, b
    <3>3. c \div 65536 = b + q /\ c % 65536 = t
      BY <2>8, <3>1, <3>2, SMT
    <3>4. (b + q) % 256 = q
      BY <2>8, <3>1, SMT
    <3> QED
      BY <2>11, <3>3, <3>4, SMT DEF t
  <2> HIDE DEF e
  <2>13. e = s - lost /\ e \in Nat
    BY <2>8, <2>12, SMT
  <2>14. bit <=> ((v < 0) <=> (member.kind = "north"))
    BY SMT DEF bit
  <2>15. got = IF v < 0 THEN -e ELSE e
    <3>1. n >= 16777216 <=> bit
      BY <2>10, <2>11, SMT
    <3>2. (n >= 16777216 <=> (member.kind = "north")) <=> v < 0
      BY <2>14, <3>1, SMT
    <3> QED
      BY <2>6, <3>2, SMT
  <2>16. v < 0 => s = -v
    BY <2>2, SMT DEF s, Absolute
  <2>17. v = 0 => lost = 0
    BY <2>3, <2>4, <2>8, SMT
  <2>18. /\ got \in Int /\ Absolute(v) - Absolute(got) \in 0..1
         /\ got < 0 => v < 0
         /\ got > 0 => v > 0
    <3>1. CASE v < 0
      <4>1. got = -e /\ e = s - lost /\ s = -v
        BY <2>13, <2>15, <2>16, <3>1, SMT
      <4> QED
        BY <2>2, <2>13, <3>1, <4>1, SMT DEF Absolute
    <3>2. CASE v >= 0
      <4>1. got = e /\ e = s - lost /\ s = v
        BY <2>2, <2>3, <2>13, <2>15, <3>2, SMT
      <4> QED
        BY <2>2, <2>13, <2>17, <3>2, <4>1, SMT DEF Absolute
    <3> QED
      BY <2>2, <3>1, <3>2, SMT
  <2>19. Absolute(got) <= member.most
    <3>1. Absolute(got) \in Int /\ Absolute(v) = s
      BY <2>18, SMT DEF s, Absolute
    <3> QED
      BY <2>1, <2>3, <2>18, <3>1, SMT
  <2> QED
    BY <1>3, <2>18, <2>19, SMT DEF got, InRange, Same
<1>4. CASE member.kind \in {"course", "heading"}
  <2>1. room = 1024 /\ K = 1024
    BY <1>4, SMT DEF Roomy
  <2>2. v \in Nat /\ v < 1024
    BY <1>4, <2>1, HeldByKind, SMT
  <2> DEFINE c == CourseNumber(v)
             e == CourseOf(c)
  <2>3. c \in Nat /\ c < 1024 /\ e \in Nat /\ e % 720 = v % 720
    BY <2>2, CourseKept, SMT
  <2>4. number = c
    BY <1>4, SMT DEF ToDatagram, CourseNumber
  <2>5. n = c
    BY <2>1, <2>3, <2>4, SMT
  <2>6. got = e \/ got = e % 720
    BY <1>4, <2>5, SMT DEF FromDatagram, CourseOf
  <2> HIDE DEF got, e
  <2>7. got % 720 = v % 720
    BY <2>3, <2>6, SMT
  <2> QED
    BY <1>4, <2>7, SMT DEF got, InRange, Same
<1>5. CASE member.kind = "above"
  <2>1. room = 65536 /\ member.most = 65435
    BY <1>5, SMT DEF Roomy
  <2>2. v \in Int /\ v >= -100 /\ v <= member.most
    BY <1>5, <2>1, HeldByKind, SMT
  <2>3. n = ((v + 100) % 65536) % 65536 /\ got = n - 100
    BY <1>5, <2>1, SMT DEF ToDatagram, FromDatagram
  <2> HIDE DEF got
  <2>4. got = v
    BY <2>1, <2>2, <2>3, SMT
  <2> QED
    BY <1>5, <2>4, SMT DEF got, InRange, Same
<1>6. CASE member.kind = "repeated"
  <2>1. room = 65536 /\ K = 256
    BY <1>6, SMT DEF Roomy
  <2>2. v \in Nat /\ v < 256
    BY <1>6, <2>1, HeldByKind, SMT
  <2>3. n = (v * 256 + (255 - v)) % 65536 /\ got = n \div 256
    BY <1>6, <2>1, SMT DEF ToDatagram, FromDatagram
  <2> HIDE DEF got
  <2>4. n = v * 256 + (255 - v)
    BY <2>2, <2>3, SMT
  <2>5. n \div 256 = v /\ n % 256 = 255 - v
    BY <2>2, <2>4, SMT
  <2>6. got = v
    BY <2>3, <2>5, SMT
  <2> QED
    BY <1>6, <2>2, <2>5, <2>6, SMT DEF got, InRange, Same
<1>7. CASE member.kind \in {"side", "clamped", "plain"}
  <2>1. ASSUME Fits(member, v) PROVE got = v
    <3>1. v <= member.most
      BY <1>7, <2>1, SMT DEF Fits
    <3>2. member.most \in Nat /\ member.most < room /\ (member.kind = "side" => member.most = 2)
      BY <1>7, SMT DEF Roomy
    <3>3. v \in Nat
      <4>1. CASE member.kind \in {"side", "clamped"}
        BY <1>7, <4>1, HeldByKind, SMT DEF Roomy
      <4>2. CASE member.kind = "plain" /\ member.width = 32
        BY <4>2, HeldByKind, SMT
      <4>3. CASE member.kind = "plain" /\ member.width # 32
        BY <4>3, HeldByKind, SMT DEF Roomy
      <4> QED
        BY <1>7, <4>1, <4>2, <4>3, SMT
    <3>4. number = v
      BY <1>7, SMT DEF ToDatagram
    <3>5. n = v % room
      BY <3>4, SMT
    <3>6. v % room = v
      BY <3>1, <3>2, <3>3, SmallRemainder, SMT
    <3>7. n = v
      BY <3>5, <3>6, SMT
    <3>8. got = IF member.kind = "side" THEN (IF n <= 2 THEN n ELSE 0)
                ELSE IF member.kind = "clamped" THEN Smaller(n, member.most) ELSE n
      BY <1>7, SMT DEF FromDatagram
    <3> HIDE DEF got
    <3> QED
      BY <1>7, <3>1, <3>2, <3>3, <3>7, <3>8, SMT DEF Smaller
  <2> HIDE DEF got
  <2> QED
    BY <1>7, <2>1, SMT DEF got, InRange, Same
<1>8. member.kind \in {"signed", "latitude", "longitude", "north", "east", "above", "side",
                       "clamped", "course", "heading", "repeated", "plain"}
  BY SMT DEF Roomy
<1> QED
  BY <1>1, <1>2, <1>3, <1>4, <1>5, <1>6, <1>7, <1>8, SMT

-----------------------------------------------------------------------------
\* Objects, and what parse makes of bytes.

\* The table has one layout for an identifier, and the register all but one.
LEMMA LayoutFacts ==
  /\ \A id \in DOMAIN LayoutOf : LayoutOf[id] \in Layouts /\ LayoutOf[id].id = id
  /\ \A layout \in Layouts : layout.id \in DOMAIN LayoutOf /\ LayoutOf[layout.id] = layout
  /\ Message24 \in Layouts /\ KnownMessages = Layouts \ {Message24}
<1>1. DOMAIN LayoutOf = {layout.id : layout \in Layouts}
  BY DEF LayoutOf
<1>2. ASSUME NEW id \in DOMAIN LayoutOf PROVE LayoutOf[id] \in Layouts /\ LayoutOf[id].id = id
  <2>1. \E layout \in Layouts : layout.id = id
    BY <1>1
  <2>2. LayoutOf[id] = CHOOSE layout \in Layouts : layout.id = id
    BY <1>1 DEF LayoutOf
  <2> QED
    BY <2>1, <2>2, Zenon
<1>3. ASSUME NEW layout \in Layouts
      PROVE  layout.id \in DOMAIN LayoutOf /\ LayoutOf[layout.id] = layout
  <2>1. layout.id \in DOMAIN LayoutOf
    BY <1>1
  <2>2. LayoutOf[layout.id] \in Layouts /\ LayoutOf[layout.id].id = layout.id
    BY <1>2, <2>1
  <2> QED
    BY <2>1, <2>2, LayoutsAssumption
<1>4. Message24 \in Layouts
  BY DEF Layouts
<1> QED
  BY <1>2, <1>3, <1>4 DEF KnownMessages

\* The number of a value.
LEMMA NumberIsInteger ==
  ASSUME NEW member, NEW room, Roomy(member, room), NEW v \in MayHold(member), NEW lost \in 0..1
  PROVE  v \in Int /\ ToDatagram(member, v, lost) \in Int
<1> DEFINE number == ToDatagram(member, v, lost)
           K == 2^member.width
<1>1. member.kind \in {"signed", "latitude", "longitude", "north", "east", "above", "side", "halves",
                       "tenths", "clamped", "course", "heading", "repeated", "plain"}
  BY SMT DEF Roomy
<1>2. v \in Int
  BY <1>1, HeldByKind, SMT
<1>3. CASE member.kind = "signed"
  <2>1. number = v % K
    BY <1>3, SMT DEF ToDatagram
  <2>2. K \in Nat \ {0}
    BY <1>3, SMT DEF Roomy
  <2> HIDE DEF number, K
  <2> QED
    BY <1>2, <2>1, <2>2, Divided, SMT DEF number
<1>4. CASE member.kind \in {"latitude", "longitude"}
  <2>1. number = NumberOf(Absolute(v), 0) \/ number = NumberOf(Absolute(v), 1)
    BY <1>4, SMT DEF ToDatagram
  <2>2. Absolute(v) \in Int
    BY <1>2, SMT DEF Absolute
  <2> HIDE DEF number
  <2> QED
    BY <1>2, <2>1, <2>2, SMT DEF number, NumberOf, ToHundredths
<1>5. CASE member.kind \in {"north", "east"}
  <2>1. Absolute(v) \in Int
    BY <1>2, SMT DEF Absolute
  <2> QED
    BY <1>2, <1>5, <2>1, SMT DEF ToDatagram
<1>6. CASE member.kind \in {"above", "side", "halves", "tenths", "clamped", "course", "heading",
                            "repeated", "plain"}
  BY <1>2, <1>6, SMT DEF ToDatagram
<1> QED
  BY <1>1, <1>2, <1>3, <1>4, <1>5, <1>6, SMT

\* The objects on the way hold what their members can hold.
IsObject(m) ==
  /\ m = [outcome |-> m.outcome, type |-> m.type, values |-> m.values]
  /\ m.values = [x \in NamesOf(LayoutOf[m.type]) |-> m.values[x]]
  /\ IsMessage(m)

\* What make_message makes of the first byte.
LEMMA MakeMessageIs ==
  ASSUME NEW bytes, NEW id \in DOMAIN LayoutOf, At(bytes, 0) = id
  PROVE  MakeMessage(bytes) = IF id = Message24.id THEN Refused("unknown") ELSE Parse(LayoutOf[id], bytes)
<1> DEFINE entries == {layout \in KnownMessages : layout.id = At(bytes, 0)}
<1>1. CASE id = Message24.id
  <2>1. entries = {}
    BY <1>1, LayoutFacts
  <2> QED
    BY <1>1, <2>1 DEF MakeMessage
<1>2. CASE id # Message24.id
  <2>1. LayoutOf[id] \in entries
    BY <1>2, LayoutFacts
  <2>2. \A layout \in entries : layout = LayoutOf[id]
    BY LayoutFacts
  <2> DEFINE chosen == CHOOSE layout \in entries : TRUE
  <2>3. chosen \in entries
    BY <2>1, Zenon
  <2>4. chosen = LayoutOf[id]
    BY <2>2, <2>3
  <2> HIDE DEF chosen
  <2>5. entries # {}
    BY <2>1
  <2>6. MakeMessage(bytes) = Parse(chosen, bytes)
    BY <2>5 DEF MakeMessage, chosen
  <2> QED
    BY <1>2, <2>4, <2>6, Zenon
<1> QED
  BY <1>1, <1>2

\* What the parse functions check.
Accepted(id, bytes) ==
  /\ SizeIsRight(LayoutOf[id], bytes)
  /\ \A r \in LayoutOf[id].required : At(bytes, r[1]) = r[2]
  /\ \A j \in DOMAIN LayoutOf[id].members :
       InRange(LayoutOf[id].members[j], Read(bytes, ReadFrom[id][j]))

\* What is accepted is an object with the values that are read, all else is refused.
LEMMA ParseIs ==
  ASSUME NEW id \in DOMAIN LayoutOf, NEW bytes
  PROVE  LET got == Parse(LayoutOf[id], bytes)
             members == LayoutOf[id].members
         IN /\ ~Accepted(id, bytes) => got = Refused("invalid_argument")
            /\ Accepted(id, bytes) =>
                 /\ got = [outcome |-> "message", type |-> id, values |-> got.values]
                 /\ got.values = [x \in NamesOf(LayoutOf[id]) |-> got.values[x]]
                 /\ \A j \in DOMAIN members :
                      got.values[members[j].name] = FromDatagram(members[j], Read(bytes, ReadFrom[id][j]))
<1> DEFINE layout == LayoutOf[id]
           members == layout.members
           got == Parse(layout, bytes)
           n == [j \in DOMAIN members |-> Read(bytes, ReadFrom[layout.id][j])]
           J(name) == CHOOSE j \in DOMAIN members : members[j].name = name
           values == [x \in NamesOf(layout) |-> FromDatagram(members[J(x)], n[J(x)])]
<1>1. LayoutIsSound(id)
  BY LayoutsAssumption
<1>2. \A j \in DOMAIN members : \A k \in DOMAIN members \ {j} : members[k].name # members[j].name
  BY <1>1 DEF LayoutIsSound
<1>3. ASSUME NEW j \in DOMAIN members PROVE J(members[j].name) = j
  <2>1. \E k \in DOMAIN members : members[k].name = members[j].name
    OBVIOUS
  <2> DEFINE k == J(members[j].name)
  <2>2. k \in DOMAIN members /\ members[k].name = members[j].name
    BY <2>1, Zenon
  <2> HIDE DEF k
  <2>3. k = j
    BY <1>2, <2>2
  <2> QED
    BY <2>3 DEF k
<1>4. layout.id = id
  BY LayoutFacts
<1>5. got = IF /\ SizeIsRight(layout, bytes)
               /\ \A r \in layout.required : At(bytes, r[1]) = r[2]
               /\ \A j \in DOMAIN members : InRange(members[j], n[j])
            THEN MessageOf(layout.id, values) ELSE Refused("invalid_argument")
  BY DEF Parse
<1>9. \A j \in DOMAIN members : n[j] = Read(bytes, ReadFrom[id][j])
  BY <1>4, Zenon
<1>6. (/\ SizeIsRight(layout, bytes)
       /\ \A r \in layout.required : At(bytes, r[1]) = r[2]
       /\ \A j \in DOMAIN members : InRange(members[j], n[j])) <=> Accepted(id, bytes)
  BY <1>9 DEF Accepted
<1>7. CASE ~Accepted(id, bytes)
  <2>1. got = Refused("invalid_argument")
    BY <1>5, <1>6, <1>7, Zenon
  <2> HIDE DEF got
  <2> QED
    BY <1>7, <2>1, Zenon DEF got
<1>8. CASE Accepted(id, bytes)
  <2>1. got = MessageOf(id, values)
    BY <1>4, <1>5, <1>6, <1>8, Zenon
  <2>2. \A j \in DOMAIN members :
          values[members[j].name] = FromDatagram(members[j], Read(bytes, ReadFrom[id][j]))
    <3> SUFFICES ASSUME NEW j \in DOMAIN members
                 PROVE  values[members[j].name] = FromDatagram(members[j], Read(bytes, ReadFrom[id][j]))
      OBVIOUS
    <3>1. members[j].name \in NamesOf(layout)
      BY DEF NamesOf
    <3>2. values[members[j].name] = FromDatagram(members[J(members[j].name)], n[J(members[j].name)])
      BY <3>1, Zenon
    <3>3. values[members[j].name] = FromDatagram(members[j], n[j])
      BY <1>3, <3>2, Zenon
    <3> QED
      BY <1>9, <3>3, Zenon
  <2>3. values = [x \in NamesOf(layout) |-> values[x]]
    OBVIOUS
  <2> HIDE DEF values, got
  <2>4. got.values = values /\ got = [outcome |-> "message", type |-> id, values |-> values]
    BY <2>1 DEF MessageOf
  <2>5. /\ got = [outcome |-> "message", type |-> id, values |-> got.values]
        /\ got.values = [x \in NamesOf(layout) |-> got.values[x]]
        /\ \A j \in DOMAIN members :
             got.values[members[j].name] = FromDatagram(members[j], Read(bytes, ReadFrom[id][j]))
    BY <2>2, <2>3, <2>4, Zenon
  <2> QED
    BY <1>8, <2>5 DEF got
<1> QED
  BY <1>7, <1>8

\* What is received is an object whose members hold what they can hold, whatever
\* the bytes are.
THEOREM ReceivedFits ==
  ASSUME NEW id \in Types, NEW bytes, bytes \in Seq(0..255), bytes # <<>>, At(bytes, 0) = id
  PROVE  LET got == MakeMessage(bytes)
         IN \/ got \in {Refused("unknown"), Refused("invalid_argument")}
            \/ got.outcome = "message" /\ got.type = id /\ IsObject(got)
<1> DEFINE layout == LayoutOf[id]
           members == layout.members
           got == Parse(layout, bytes)
<1>1. id \in DOMAIN LayoutOf
  BY TypesAssumption
<1>2. CASE id = Message24.id
  BY <1>1, <1>2, MakeMessageIs
<1>3. CASE id # Message24.id /\ ~Accepted(id, bytes)
  <2>1. MakeMessage(bytes) = got
    BY <1>1, <1>3, MakeMessageIs
  <2>2. got = Refused("invalid_argument")
    BY <1>1, <1>3, ParseIs
  <2> HIDE DEF got
  <2> QED
    BY <2>1, <2>2
<1>4. CASE id # Message24.id /\ Accepted(id, bytes)
  <2>1. MakeMessage(bytes) = got
    BY <1>1, <1>4, MakeMessageIs
  <2>2. /\ got = [outcome |-> "message", type |-> id, values |-> got.values]
        /\ got.values = [x \in NamesOf(layout) |-> got.values[x]]
        /\ \A j \in DOMAIN members :
             got.values[members[j].name] = FromDatagram(members[j], Read(bytes, ReadFrom[id][j]))
    BY <1>1, <1>4, ParseIs, Zenon
  <2> HIDE DEF got
  <2>3. got.outcome = "message" /\ got.type = id /\ DOMAIN got.values = NamesOf(layout)
    BY <2>2
  <2>4. AreBytes(id, bytes)
    <3> SUFFICES ASSUME NEW i \in Positions(id) PROVE At(bytes, i) \in 0..255
      BY DEF AreBytes
    <3>1. LayoutIsSound(id)
      BY <1>1, LayoutsAssumption
    <3>2. Len(bytes) = layout.size /\ layout.size \in 3..18
      BY <1>4, <3>1 DEF Accepted, SizeIsRight, LayoutIsSound
    <3> DEFINE k == i + 1
               byte == bytes[k]
    <3>3. k \in 1..Len(bytes)
      BY <3>2 DEF Positions
    <3>4. At(bytes, i) = byte
      BY DEF At
    <3> HIDE DEF k
    <3>5. byte \in 0..255
      BY <3>3, ElementOfSeq
    <3> HIDE DEF byte
    <3> QED
      BY <3>4, <3>5
  <2>5. ASSUME NEW j \in DOMAIN members
        PROVE  FromDatagram(members[j], Read(bytes, ReadFrom[id][j])) \in MayHold(members[j])
    <3> DEFINE n == Read(bytes, ReadFrom[id][j])
               room == Room[id][j]
               member == members[j]
    <3>1. room \in Nat \ {0} /\ n \in 0..(room - 1)
      BY <1>1, <2>4, NumberRead
    <3>2. Roomy(member, room)
      BY <1>1, LayoutsAssumption DEF LayoutIsSound
    <3>3. InRange(member, n)
      BY <1>4 DEF Accepted
    <3> HIDE DEF n, room, member
    <3>4. FromDatagram(member, n) \in MayHold(member)
      BY <3>1, <3>2, <3>3, ReadMayHold
    <3> QED
      BY <3>4 DEF n, member
  <2>6. \A member \in ToSet(members) : got.values[member.name] \in MayHold(member)
    BY <2>2, <2>5 DEF ToSet
  <2>7. IsMessage(got)
    BY <2>3, <2>6 DEF IsMessage
  <2>8. IsObject(got)
    BY <2>2, <2>3, <2>7 DEF IsObject
  <2> QED
    BY <2>1, <2>3, <2>8
<1> QED
  BY <1>2, <1>3, <1>4

-----------------------------------------------------------------------------
\* An object comes back.

\* What comes back of an object: the same, but for members that are written in
\* another form and values the datagram has no room for.
ComesBack(m, got) ==
  /\ got.outcome = "message" /\ got.type = m.type /\ IsObject(got)
  /\ \A member \in ToSet(LayoutOf[m.type].members) :
       LET sent == m.values[member.name]
           back == got.values[member.name]
       IN /\ IsMiswritten(m.type, member) \/ (Fits(member, sent) => Same(member, sent, back))
          /\ member.kind \in {"latitude", "longitude"} => back = Rounded(sent)

\* The value of the j-th member, what may be lost of it, and the numbers.
ValueIn(m, j) == m.values[LayoutOf[m.type].members[j].name]
MayBeLost(m) ==
  {j \in DOMAIN LayoutOf[m.type].members :
     LayoutOf[m.type].members[j].kind \in {"north", "east"} /\ ValueIn(m, j) % 60000 > 0}
NumberIn(m, lost, j) ==
  ToDatagram(LayoutOf[m.type].members[j], ValueIn(m, j), IF j \in lost THEN 1 ELSE 0)
NumbersIn(m, lost) == [j \in DOMAIN LayoutOf[m.type].members |-> NumberIn(m, lost, j)]
Encodable(m) == \A j \in DOMAIN LayoutOf[m.type].members :
                  Castable(LayoutOf[m.type].members[j], ValueIn(m, j))

\* There is a datagram if all values can be cast, and it is made of the numbers of
\* the values.
LEMMA DatagramIs ==
  ASSUME NEW m, IsMessage(m)
  PROVE  /\ GetData(m) = {} <=> ~Encodable(m)
         /\ \A bytes \in GetData(m) :
              \E lost \in SUBSET MayBeLost(m) : bytes = Written(m.type, NumbersIn(m, lost))
<1> DEFINE layout == LayoutOf[m.type]
           members == layout.members
           Summed(lost, k) == SumFunction([p \in WrittenTo[m.type][k] |->
                                             Share(NumberIn(m, lost, p.member), p)])
           Bytes(lost) == [i \in 1..layout.size |-> layout.constants[i - 1] + Summed(lost, i - 1)]
           S == SUBSET MayBeLost(m)
<1>1. m.type \in DOMAIN LayoutOf
  BY TypesAssumption DEF IsMessage
<1>2. LayoutIsSound(m.type)
  BY <1>1, LayoutsAssumption
<1>3. GetData(m) = IF Encodable(m) THEN {Bytes(lost) : lost \in S} ELSE {}
  BY DEF GetData, Encodable, ValueIn, MayBeLost, NumberIn
<1>4. ASSUME NEW lost \in S PROVE Bytes(lost) = Written(m.type, NumbersIn(m, lost))
  <2> DEFINE Other(k) == SumFunction([p \in WrittenTo[m.type][k] |->
                                        Share(NumbersIn(m, lost)[p.member], p)])
  <2>1. ASSUME NEW k \in 0..(layout.size - 1) PROVE Summed(lost, k) = Other(k)
    <3>1. ASSUME NEW p \in WrittenTo[m.type][k]
          PROVE  NumbersIn(m, lost)[p.member] = NumberIn(m, lost, p.member)
      <4>1. p.member \in DOMAIN members
        BY <1>2 DEF LayoutIsSound
      <4> QED
        BY <4>1 DEF NumbersIn
    <3>2. [p \in WrittenTo[m.type][k] |-> Share(NumberIn(m, lost, p.member), p)]
            = [p \in WrittenTo[m.type][k] |-> Share(NumbersIn(m, lost)[p.member], p)]
      BY <3>1, Zenon
    <3> QED
      BY <3>2, Zenon
  <2> HIDE DEF Summed, Other
  <2>2. ASSUME NEW i \in 1..layout.size PROVE Summed(lost, i - 1) = Other(i - 1)
    <3> DEFINE k == i - 1
    <3>1. k \in 0..(layout.size - 1)
      <4>1. layout.size \in 3..18
        BY <1>2 DEF LayoutIsSound
      <4> QED
        BY <4>1
    <3> HIDE DEF k
    <3>2. Summed(lost, k) = Other(k)
      BY <2>1, <3>1
    <3> QED
      BY <3>2, Zenon DEF k
  <2>3. Bytes(lost) = [i \in 1..layout.size |-> layout.constants[i - 1] + Other(i - 1)]
    BY <2>2, Zenon
  <2> QED
    BY <2>3, Zenon DEF Written, Other
<1> HIDE DEF Bytes, S
<1>5. {} \in S
  BY DEF S
<1>6. GetData(m) = {} <=> ~Encodable(m)
  <2>1. CASE Encodable(m)
    <3>1. Bytes({}) \in GetData(m)
      BY <1>3, <1>5, <2>1
    <3> QED
      BY <2>1, <3>1
  <2>2. CASE ~Encodable(m)
    BY <1>3, <2>2, Zenon
  <2> QED
    BY <2>1, <2>2
<1>7. ASSUME NEW bytes \in GetData(m)
      PROVE  \E lost \in S : bytes = Written(m.type, NumbersIn(m, lost))
  <2>1. Encodable(m)
    BY <1>6
  <2>2. PICK lost \in S : bytes = Bytes(lost)
    BY <1>3, <2>1
  <2> QED
    BY <1>4, <2>2
<1> QED
  BY <1>6, <1>7 DEF S

\* What get_data writes make_message reads.
LEMMA SentIsRead ==
  ASSUME NEW m, IsMessage(m), NEW bytes \in GetData(m)
  PROVE  /\ bytes \in Seq(0..255) /\ bytes # <<>> /\ At(bytes, 0) = m.type
         /\ m.type = Message24.id => MakeMessage(bytes) = Refused("unknown")
         /\ m.type # Message24.id => ComesBack(m, MakeMessage(bytes))
<1> DEFINE id == m.type
           members == LayoutOf[id].members
           V(j) == ValueIn(m, j)
           n(j) == Read(bytes, ReadFrom[id][j])
<1>1. id \in Types /\ id \in DOMAIN LayoutOf /\ LayoutIsSound(id)
  BY TypesAssumption, LayoutsAssumption DEF IsMessage
<1>2. PICK lost \in SUBSET MayBeLost(m) : bytes = Written(id, NumbersIn(m, lost))
  BY DatagramIs
<1> DEFINE l(j) == IF j \in lost THEN 1 ELSE 0
           number == NumbersIn(m, lost)
<1>3. ASSUME NEW j \in DOMAIN members
      PROVE  /\ Castable(members[j], V(j)) /\ V(j) \in MayHold(members[j])
             /\ Roomy(members[j], Room[id][j]) /\ l(j) \in 0..1
             /\ l(j) = 1 => members[j].kind \in {"north", "east"} /\ V(j) % 60000 > 0
             /\ number[j] \in Int
             /\ number[j] = ToDatagram(members[j], V(j), l(j))
  <2>1. V(j) \in MayHold(members[j])
    BY DEF IsMessage, ToSet, ValueIn
  <2>2. Roomy(members[j], Room[id][j])
    BY <1>1 DEF LayoutIsSound
  <2>3. Castable(members[j], V(j))
    <3>1. Encodable(m)
      BY DatagramIs
    <3> QED
      BY <3>1 DEF Encodable
  <2>4. l(j) \in 0..1
    OBVIOUS
  <2>5. l(j) = 1 => members[j].kind \in {"north", "east"} /\ V(j) % 60000 > 0
    <3> SUFFICES ASSUME l(j) = 1 PROVE j \in MayBeLost(m)
      BY DEF MayBeLost
    <3>1. j \in lost
      OBVIOUS
    <3> QED
      BY <3>1
  <2>6. number[j] = ToDatagram(members[j], V(j), l(j))
    BY DEF NumbersIn, NumberIn
  <2> HIDE DEF number, l, V
  <2>7. ToDatagram(members[j], V(j), l(j)) \in Int
    BY <2>1, <2>2, <2>4, NumberIsInteger
  <2> QED
    BY <2>1, <2>2, <2>3, <2>4, <2>5, <2>6, <2>7
<1> HIDE DEF id
<1>4. number \in [DOMAIN members -> Int] /\ bytes = Written(id, number)
  <2>1. number = [j \in DOMAIN members |-> number[j]]
    BY DEF NumbersIn, id
  <2>2. \A j \in DOMAIN members : number[j] \in Int
    BY <1>3
  <2>3. bytes = Written(id, number)
    BY <1>2
  <2> HIDE DEF number
  <2> QED
    BY <2>1, <2>2, <2>3
<1> HIDE DEF number, l
<1>5. /\ bytes \in Seq(0..255) /\ bytes # <<>> /\ At(bytes, 0) = id
      /\ AreBytes(id, bytes)
      /\ SizeIsRight(LayoutOf[id], bytes)
      /\ \A r \in LayoutOf[id].required : At(bytes, r[1]) = r[2]
      /\ Carries(id, bytes, number)
  <2>1. id \in DOMAIN LayoutOf /\ number \in [DOMAIN LayoutOf[id].members -> Int]
        /\ bytes = Written(id, number)
    BY <1>1, <1>4
  <2> QED
    BY <2>1, WrittenIsRead
<1>6. ASSUME NEW j \in DOMAIN members
      PROVE  /\ InRange(members[j], n(j))
             /\ \/ IsMiswritten(id, members[j])
                \/ Fits(members[j], V(j)) => Same(members[j], V(j), FromDatagram(members[j], n(j)))
             /\ members[j].kind \in {"latitude", "longitude"} =>
                  FromDatagram(members[j], n(j)) = Rounded(V(j))
  <2> DEFINE member == members[j]
             v == V(j)
             k == n(j)
             room == Room[id][j]
             one == l(j)
  <2>1. CASE Differs(id, j)
    <3>1. member.kind \in {"halves", "tenths", "plain"} /\ IsMiswritten(id, member)
      BY <2>1 DEF Differs
    <3> HIDE DEF member, v, k
    <3>2. InRange(member, k)
      BY <3>1 DEF InRange
    <3>3. member.kind \notin {"latitude", "longitude"}
      BY <3>1
    <3> QED
      BY <3>1, <3>2, <3>3, Zenon DEF member, v, k
  <2>2. CASE ~Differs(id, j)
    <3>1. k = number[j] % room
      BY <1>5, <2>2 DEF Carries
    <3>2. member.kind \notin {"halves", "tenths"}
      BY <1>1, <2>2 DEF LayoutIsSound, Differs
    <3>3. room \in Nat \ {0}
      BY <1>1, <1>5, NumberRead
    <3>4. /\ Castable(member, v) /\ v \in MayHold(member)
          /\ Roomy(member, room) /\ one \in 0..1
          /\ one = 1 => member.kind \in {"north", "east"} /\ v % 60000 > 0
          /\ number[j] = ToDatagram(member, v, one)
      <4> HIDE DEF V, id
      <4> QED
        BY <1>3
    <3>5. k = ToDatagram(member, v, one) % room
      <4> HIDE DEF member, v, k, room, one
      <4> QED
        BY <3>1, <3>4
    <3> HIDE DEF member, v, k, room, one
    <3>6. /\ InRange(member, k)
          /\ Fits(member, v) => Same(member, v, FromDatagram(member, k))
          /\ member.kind \in {"latitude", "longitude"} => FromDatagram(member, k) = Rounded(v)
      BY <3>2, <3>3, <3>4, <3>5, KindReadBack
    <3> QED
      BY <3>6, Zenon DEF member, v, k
  <2> QED
    BY <2>1, <2>2, Zenon
<1> HIDE DEF n, V
<1> DEFINE got == MakeMessage(bytes)
<1>7. ASSUME id = Message24.id PROVE got = Refused("unknown")
  BY <1>1, <1>5, <1>7, MakeMessageIs
<1>8. ASSUME id # Message24.id PROVE ComesBack(m, got)
  <2>1. Accepted(id, bytes)
    BY <1>5, <1>6, Zenon DEF Accepted, n
  <2>2. got = Parse(LayoutOf[id], bytes)
    BY <1>1, <1>5, <1>8, MakeMessageIs
  <2>3. /\ got = [outcome |-> "message", type |-> id, values |-> got.values]
        /\ \A j \in DOMAIN members : got.values[members[j].name] = FromDatagram(members[j], n(j))
    <3> HIDE DEF got
    <3> QED
      BY <1>1, <2>1, <2>2, ParseIs, Zenon DEF n
  <2>4. got \in {Refused("unknown"), Refused("invalid_argument")} \/ IsObject(got)
    BY <1>1, <1>5, ReceivedFits, Zenon
  <2> HIDE DEF got
  <2>5. got.outcome = "message" /\ got.type = id
    BY <2>3
  <2>6. IsObject(got)
    BY <2>4, <2>5 DEF Refused
  <2>7. ASSUME NEW member \in ToSet(members)
        PROVE  /\ \/ IsMiswritten(id, member)
                  \/ Fits(member, m.values[member.name]) =>
                       Same(member, m.values[member.name], got.values[member.name])
               /\ member.kind \in {"latitude", "longitude"} =>
                    got.values[member.name] = Rounded(m.values[member.name])
    <3>1. PICK j \in DOMAIN members : member = members[j]
      BY DEF ToSet
    <3>2. got.values[member.name] = FromDatagram(members[j], n(j)) /\ m.values[member.name] = V(j)
      BY <2>3, <3>1, Zenon DEF V, ValueIn, id
    <3> QED
      BY <1>6, <3>1, <3>2, Zenon
  <2> QED
    BY <2>5, <2>6, <2>7, Zenon DEF ComesBack, id
<1> QED
  BY <1>5, <1>7, <1>8 DEF id

-----------------------------------------------------------------------------
\* The inductive invariant.

MessageFits == message.outcome \in {"message", "foreign"} /\ IsObject(message)
CountersFit == sets \in 0..MaxSets /\ relays \in 0..MaxRelays

\* A datagram is bytes of the right type; an own one is made of the message, which
\* is on its way then.
DatagramFits ==
  /\ datagram \in Seq(0..255)
  /\ message.outcome = "foreign" => datagram # <<>> /\ At(datagram, 0) = message.type
  /\ message.outcome = "message" /\ datagram # <<>> =>
       datagram \in GetData(message) /\ origin # Nothing

\* What was received is what make_message makes of the datagram, or there is none.
ReceivedIs ==
  \/ received = Nothing
  \/ datagram # <<>> /\ received = MakeMessage(datagram)
  \/ /\ datagram = <<>> /\ received = Refused("range_error")
     /\ GetData(message) = {} /\ origin # Nothing

\* A coordinate is as it was first, once rounded or twice, and stays so then.
Settled(first) == {first, Rounded(first), Rounded(Rounded(first))}
OriginNear ==
  origin # Nothing =>
    /\ message.outcome = "message"
    /\ \A member \in Members : member.kind \in {"latitude", "longitude"} =>
         /\ origin.values[member.name] \in Int
         /\ message.values[member.name] \in Settled(origin.values[member.name])

MessagesIInv == MessageFits /\ CountersFit /\ DatagramFits /\ ReceivedIs /\ OriginNear

\* The fields of an object.
LEMMA ObjectFields ==
  ASSUME NEW what, NEW type, NEW values, NEW n,
         n = [outcome |-> what, type |-> type, values |-> values]
  PROVE  /\ n.outcome = what /\ n.type = type /\ n.values = values
         /\ n = [outcome |-> n.outcome, type |-> n.type, values |-> n.values]
  OBVIOUS

\* A fresh object.
LEMMA ConstructedFits ==
  ASSUME NEW type \in Types
  PROVE  IsObject(Constructed(type)) /\ Constructed(type).outcome = "message"
<1> DEFINE layout == LayoutOf[type]
           values == [x \in NamesOf(layout) |-> Default(x)]
           m == Constructed(type)
<1>1. m = [outcome |-> "message", type |-> type, values |-> values]
  BY DEF Constructed, MessageOf
<1>2. LayoutIsSound(type)
  BY TypesAssumption, LayoutsAssumption
<1>3. \A member \in ToSet(layout.members) : values[member.name] \in MayHold(member)
  <2> SUFFICES ASSUME NEW j \in DOMAIN layout.members
               PROVE  values[layout.members[j].name] \in MayHold(layout.members[j])
    BY DEF ToSet
  <2>1. layout.members[j].name \in NamesOf(layout)
    BY DEF NamesOf
  <2>2. Default(layout.members[j].name) \in MayHold(layout.members[j])
    BY <1>2 DEF LayoutIsSound
  <2> QED
    BY <2>1, <2>2
<1>4. values = [x \in NamesOf(layout) |-> values[x]] /\ DOMAIN values = NamesOf(layout)
  OBVIOUS
<1> HIDE DEF values, m
<1>5. /\ m.outcome = "message" /\ m.type = type /\ m.values = values
      /\ m = [outcome |-> m.outcome, type |-> m.type, values |-> m.values]
  BY <1>1
<1>6. IsMessage(m)
  BY <1>3, <1>4, <1>5 DEF IsMessage
<1> QED
  BY <1>4, <1>5, <1>6, Zenon DEF IsObject, m

\* An object with another value for a member.
LEMMA StoredFits ==
  ASSUME NEW m, IsObject(m), NEW member \in ToSet(LayoutOf[m.type].members),
         NEW v \in MayHold(member), NEW n, n = [m EXCEPT !.values[member.name] = v]
  PROVE  IsObject(n) /\ n.outcome = m.outcome /\ n.type = m.type
<1> DEFINE layout == LayoutOf[m.type]
           name == member.name
           values == [m.values EXCEPT ![name] = v]
<1>1. /\ m = [outcome |-> m.outcome, type |-> m.type, values |-> m.values]
      /\ m.values = [x \in NamesOf(layout) |-> m.values[x]]
      /\ IsMessage(m)
  BY DEF IsObject
<1>2. n = [outcome |-> m.outcome, type |-> m.type, values |-> values]
  BY <1>1
<1>3. values = [x \in NamesOf(layout) |-> IF x = name THEN v ELSE m.values[x]]
  BY <1>1
<1>4. LayoutIsSound(m.type)
  BY <1>1, TypesAssumption, LayoutsAssumption DEF IsMessage
<1>5. \A other \in ToSet(layout.members) : values[other.name] \in MayHold(other)
  <2> SUFFICES ASSUME NEW other \in ToSet(layout.members)
               PROVE  values[other.name] \in MayHold(other)
    OBVIOUS
  <2>1. PICK j \in DOMAIN layout.members : other = layout.members[j]
    BY DEF ToSet
  <2>2. PICK k \in DOMAIN layout.members : member = layout.members[k]
    BY DEF ToSet
  <2>3. other.name \in NamesOf(layout)
    BY <2>1 DEF NamesOf
  <2>4. values[other.name] = IF other.name = name THEN v ELSE m.values[other.name]
    BY <1>3, <2>3, Zenon
  <2>5. CASE other.name = name
    <3>1. other = member
      BY <1>4, <2>1, <2>2, <2>5 DEF LayoutIsSound
    <3> QED
      BY <2>4, <2>5, <3>1, Zenon
  <2>6. CASE other.name # name
    <3>1. m.values[other.name] \in MayHold(other)
      BY <1>1 DEF IsMessage
    <3> QED
      BY <2>4, <2>6, <3>1, Zenon
  <2> QED
    BY <2>5, <2>6
<1>6. values = [x \in NamesOf(layout) |-> values[x]] /\ DOMAIN values = NamesOf(layout)
  <2> HIDE DEF values
  <2> QED
    BY <1>3
<1> HIDE DEF values
<1>7. /\ n.outcome = m.outcome /\ n.type = m.type /\ n.values = values
      /\ n = [outcome |-> n.outcome, type |-> n.type, values |-> n.values]
  <2> DEFINE o == m.outcome
             t == m.type
  <2>1. n = [outcome |-> o, type |-> t, values |-> values]
    BY <1>2
  <2> HIDE DEF o, t
  <2>2. /\ n.outcome = o /\ n.type = t /\ n.values = values
        /\ n = [outcome |-> n.outcome, type |-> n.type, values |-> n.values]
    BY ONLY <2>1, ObjectFields
  <2> QED
    BY <2>2 DEF o, t
<1>8. IsMessage(n)
  BY <1>1, <1>5, <1>6, <1>7 DEF IsMessage
<1>9. n.values = [x \in NamesOf(LayoutOf[n.type]) |-> n.values[x]]
  BY <1>6, <1>7, Zenon
<1> QED
  BY <1>7, <1>8, <1>9, Zenon DEF IsObject

\* A coordinate is a number.
LEMMA CoordinateIsInteger ==
  ASSUME NEW m, IsMessage(m), NEW member \in ToSet(LayoutOf[m.type].members)
  PROVE  m.values[member.name] \in Int
<1>1. PICK j \in DOMAIN LayoutOf[m.type].members : member = LayoutOf[m.type].members[j]
  BY DEF ToSet
<1>2. Roomy(member, Room[m.type][j]) /\ m.values[member.name] \in MayHold(member)
  BY <1>1, TypesAssumption, LayoutsAssumption DEF IsMessage, LayoutIsSound
<1>3. 0 \in 0..1
  OBVIOUS
<1> QED
  BY <1>2, <1>3, NumberIsInteger

\* Rounding once more stays among the values that are near.
LEMMA SettledStays ==
  ASSUME NEW first \in Int, NEW v \in Settled(first)
  PROVE  /\ Rounded(v) \in Settled(first)
         /\ Absolute(first) - Absolute(Rounded(v)) \in 0..2
         /\ Rounded(v) < 0 => first < 0
         /\ Rounded(v) > 0 => first > 0
<1> DEFINE one == Rounded(first)
           two == Rounded(Rounded(first))
<1>1. Rounded(v) \in {one, two}
  BY RoundedFacts DEF Settled
<1>2. /\ Absolute(first) - Absolute(one) \in 0..1 /\ Absolute(first) - Absolute(two) \in 0..2
      /\ (one < 0 => first < 0) /\ (one > 0 => first > 0)
      /\ (two < 0 => first < 0) /\ (two > 0 => first > 0)
  BY RoundedFacts
<1>3. one \in Settled(first) /\ two \in Settled(first)
  BY DEF Settled
<1> HIDE DEF one, two
<1>4. Absolute(first) - Absolute(one) \in 0..2
  BY <1>2
<1> QED
  BY <1>1, <1>2, <1>3, <1>4

\* The first object on the way is near to itself.
LEMMA FirstIsNear ==
  ASSUME MessagesIInv, message.outcome = "message"
  PROVE  /\ First # Nothing
         /\ \A member \in Members : member.kind \in {"latitude", "longitude"} =>
              /\ First.values[member.name] \in Int
              /\ message.values[member.name] \in Settled(First.values[member.name])
<1>1. CASE origin = Nothing
  <2>1. First = message
    BY <1>1 DEF First
  <2>2. message # Nothing
    BY DEF Nothing
  <2>3. ASSUME NEW member \in Members
        PROVE  message.values[member.name] \in Int
    BY CoordinateIsInteger DEF MessagesIInv, MessageFits, IsObject, Members
  <2> QED
    BY <2>1, <2>2, <2>3 DEF Settled
<1>2. CASE origin # Nothing
  <2>1. First = origin
    BY <1>2 DEF First
  <2> QED
    BY <1>2, <2>1 DEF MessagesIInv, OriginNear
<1> QED
  BY <1>1, <1>2

\* A datagram is bytes of the type of the object.
LEMMA DatagramIsTyped ==
  ASSUME MessagesIInv, datagram # <<>>
  PROVE  message.type \in Types /\ datagram \in Seq(0..255) /\ At(datagram, 0) = message.type
<1>1. IsMessage(message) /\ message.outcome \in {"message", "foreign"}
  BY DEF MessagesIInv, MessageFits, IsObject
<1>2. CASE message.outcome = "message"
  BY <1>1, <1>2, SentIsRead DEF MessagesIInv, DatagramFits, IsMessage
<1>3. CASE message.outcome = "foreign"
  BY <1>1, <1>3 DEF MessagesIInv, DatagramFits, IsMessage
<1> QED
  BY <1>1, <1>2, <1>3

\* Before a datagram is made nothing is received but a refusal.
LEMMA NothingYet ==
  ASSUME MessagesIInv, datagram = <<>>
  PROVE  /\ message.outcome = "message"
         /\ origin = Nothing \/ GetData(message) # {} => received = Nothing
BY DEF MessagesIInv, MessageFits, DatagramFits, ReceivedIs

\* What was received as an object came of a datagram.
LEMMA ReceivedObject ==
  ASSUME MessagesIInv, received.outcome = "message"
  PROVE  /\ datagram # <<>> /\ received = MakeMessage(datagram)
         /\ received.type = message.type /\ IsObject(received)
<1>1. datagram # <<>> /\ received = MakeMessage(datagram)
  BY DEF MessagesIInv, ReceivedIs, Nothing, Refused
<1>2. message.type \in Types /\ datagram \in Seq(0..255) /\ At(datagram, 0) = message.type
  BY <1>1, DatagramIsTyped
<1>3. received \in {Refused("unknown"), Refused("invalid_argument")}
        \/ (received.outcome = "message" /\ received.type = message.type /\ IsObject(received))
  BY <1>1, <1>2, ReceivedFits, Zenon
<1> QED
  BY <1>1, <1>3 DEF Refused

\* An own object that is received is the one that was sent.
LEMMA OwnComesBack ==
  ASSUME MessagesIInv, received.outcome = "message", message.outcome = "message"
  PROVE  ComesBack(message, received)
<1>1. datagram \in GetData(message) /\ received = MakeMessage(datagram) /\ IsMessage(message)
  BY ReceivedObject DEF MessagesIInv, MessageFits, DatagramFits, IsObject
<1>2. received # Refused("unknown")
  BY DEF Refused
<1> QED
  BY <1>1, <1>2, SentIsRead

\* Coordinates of what is received are near to the first.
LEMMA ReceivedIsNear ==
  ASSUME MessagesIInv, received.outcome = "message", origin # Nothing,
         NEW member \in Members, member.kind \in {"latitude", "longitude"}
  PROVE  /\ message.outcome = "message"
         /\ origin.values[member.name] \in Int
         /\ message.values[member.name] \in Settled(origin.values[member.name])
         /\ received.values[member.name] = Rounded(message.values[member.name])
<1>1. /\ message.outcome = "message"
      /\ origin.values[member.name] \in Int
      /\ message.values[member.name] \in Settled(origin.values[member.name])
  BY DEF MessagesIInv, OriginNear
<1>2. ComesBack(message, received)
  BY <1>1, OwnComesBack
<1> QED
  BY <1>1, <1>2 DEF ComesBack, Members

\* A fresh object, nothing sent.
LEMMA InitHolds == MessagesInit => MessagesIInv
<1> SUFFICES ASSUME MessagesInit PROVE MessagesIInv
  OBVIOUS
<1>1. PICK type \in Types : message = Constructed(type)
  BY DEF MessagesInit
<1>2. MessageFits /\ message.outcome = "message"
  <2>1. IsObject(Constructed(type)) /\ Constructed(type).outcome = "message"
    BY ConstructedFits
  <2> QED
    BY <1>1, <2>1, Zenon DEF MessageFits
<1>3. CountersFit
  BY BoundsAssumption DEF MessagesInit, CountersFit
<1>4. DatagramFits
  BY <1>2 DEF MessagesInit, DatagramFits
<1> QED
  BY <1>2, <1>3, <1>4 DEF MessagesIInv, MessagesInit, ReceivedIs, OriginNear

\* A setter keeps an object, and nothing has been made of it yet.
LEMMA SetStep == MessagesIInv /\ Set => MessagesIInv'
<1> SUFFICES ASSUME MessagesIInv, Set PROVE MessagesIInv'
  OBVIOUS
<1>1. PICK member \in Members : \E v \in Values(member) :
        message' = [message EXCEPT !.values[member.name] = Stored(member, v)]
  BY DEF Set
<1>2. PICK v \in Values(member) :
        message' = [message EXCEPT !.values[member.name] = Stored(member, v)]
  BY <1>1
<1>3. /\ datagram = <<>> /\ datagram' = <<>> /\ origin = Nothing /\ origin' = Nothing
      /\ received' = received
  BY DEF Set
<1>4. message.outcome = "message" /\ received = Nothing
  BY <1>3, NothingYet
<1>5. IsObject(message) /\ message.type \in Types
  BY DEF MessagesIInv, MessageFits, IsObject, IsMessage
<1>6. Stored(member, v) \in MayHold(member)
  BY <1>5, ValuesAssumption DEF Members
<1>7. IsObject(message') /\ message'.outcome = "message"
  <2> DEFINE n == message'
             value == Stored(member, v)
  <2>1. n = [message EXCEPT !.values[member.name] = value]
    BY <1>2
  <2> HIDE DEF n, value
  <2>2. member \in ToSet(LayoutOf[message.type].members)
    BY DEF Members
  <2>3. value \in MayHold(member)
    BY <1>6 DEF value
  <2>4. IsObject(n) /\ n.outcome = message.outcome
    BY <1>5, <2>1, <2>2, <2>3, StoredFits
  <2> QED
    BY <1>4, <2>4 DEF n
<1>8. MessageFits'
  BY <1>7 DEF MessageFits
<1>9. CountersFit'
  BY BoundsAssumption DEF Set, MessagesIInv, CountersFit
<1>10. DatagramFits'
  BY <1>3, <1>7 DEF DatagramFits
<1>11. ReceivedIs' /\ OriginNear'
  BY <1>3, <1>4 DEF ReceivedIs, OriginNear
<1> QED
  BY <1>8, <1>9, <1>10, <1>11 DEF MessagesIInv

\* get_data makes bytes, or throws.
LEMMA EncodeStep == MessagesIInv /\ EncodeMessage => MessagesIInv'
<1> SUFFICES ASSUME MessagesIInv, EncodeMessage PROVE MessagesIInv'
  OBVIOUS
<1>1. /\ datagram = <<>> /\ datagram' \in GetData(message) /\ origin' = First
      /\ UNCHANGED <<message, sets, received, relays>>
  BY DEF EncodeMessage
<1>2. message.outcome = "message" /\ received = Nothing
  BY <1>1, NothingYet
<1>3. IsMessage(message)
  BY DEF MessagesIInv, MessageFits, IsObject
<1>4. datagram' \in Seq(0..255) /\ datagram' # <<>>
  BY <1>1, <1>3, SentIsRead
<1>5. First # Nothing
  BY <1>2, FirstIsNear
<1>6. MessageFits' /\ CountersFit'
  BY <1>1 DEF MessagesIInv, MessageFits, CountersFit
<1>7. DatagramFits'
  BY <1>1, <1>2, <1>4, <1>5 DEF DatagramFits
<1>8. ReceivedIs'
  BY <1>1, <1>2 DEF ReceivedIs
<1>9. OriginNear'
  BY <1>1, <1>2, FirstIsNear DEF OriginNear, Members
<1> QED
  BY <1>6, <1>7, <1>8, <1>9 DEF MessagesIInv

\* What throws makes no datagram; the object is the first on the way all the same.
LEMMA EncodeFailsStep == MessagesIInv /\ EncodeFails => MessagesIInv'
<1> SUFFICES ASSUME MessagesIInv, EncodeFails PROVE MessagesIInv'
  OBVIOUS
<1>1. /\ datagram = <<>> /\ GetData(message) = {} /\ origin' = First
      /\ received' = Refused("range_error")
      /\ UNCHANGED <<message, sets, datagram, relays>>
  BY DEF EncodeFails
<1>2. message.outcome = "message"
  BY <1>1, NothingYet
<1>3. First # Nothing
  BY <1>2, FirstIsNear
<1>4. MessageFits' /\ CountersFit'
  BY <1>1 DEF MessagesIInv, MessageFits, CountersFit
<1>5. DatagramFits'
  BY <1>1, <1>2 DEF DatagramFits
<1>6. ReceivedIs'
  BY <1>1, <1>3 DEF ReceivedIs
<1>7. OriginNear'
  BY <1>1, <1>2, FirstIsNear DEF OriginNear, Members
<1> QED
  BY <1>4, <1>5, <1>6, <1>7 DEF MessagesIInv

\* What another device sends is bytes of the type that is expected.
LEMMA ReceiveStep == MessagesIInv /\ Receive => MessagesIInv'
<1> SUFFICES ASSUME MessagesIInv, Receive PROVE MessagesIInv'
  OBVIOUS
<1>1. /\ datagram = <<>> /\ origin = Nothing /\ datagram' \in Foreign(message.type)
      /\ message' = [message EXCEPT !.outcome = "foreign"]
      /\ UNCHANGED <<sets, received, origin, relays>>
  BY DEF Receive
<1>2. received = Nothing
  BY <1>1, NothingYet
<1>3. IsObject(message) /\ message.type \in Types
  BY DEF MessagesIInv, MessageFits, IsObject, IsMessage
<1>4. /\ message'.outcome = "foreign" /\ message'.type = message.type
      /\ message'.values = message.values
      /\ message' = [outcome |-> message'.outcome, type |-> message'.type, values |-> message'.values]
  <2> DEFINE t == message.type
             w == message.values
             n == message'
  <2>1. n = [outcome |-> "foreign", type |-> t, values |-> w]
    BY <1>1, <1>3 DEF IsObject
  <2> HIDE DEF t, w, n
  <2>2. /\ n.outcome = "foreign" /\ n.type = t /\ n.values = w
        /\ n = [outcome |-> n.outcome, type |-> n.type, values |-> n.values]
    BY ONLY <2>1, ObjectFields
  <2> QED
    BY <2>2 DEF t, w, n
<1>5. IsObject(message')
  BY <1>3, <1>4 DEF IsObject, IsMessage
<1>6. datagram' \in Seq(0..255) /\ datagram' # <<>> /\ At(datagram', 0) = message.type
  BY <1>1, <1>3, ForeignAssumption
<1>7. MessageFits'
  BY <1>4, <1>5 DEF MessageFits
<1>8. CountersFit'
  BY <1>1 DEF MessagesIInv, CountersFit
<1>9. DatagramFits'
  BY <1>4, <1>6 DEF DatagramFits
<1>10. ReceivedIs' /\ OriginNear'
  BY <1>1, <1>2 DEF ReceivedIs, OriginNear
<1> QED
  BY <1>7, <1>8, <1>9, <1>10 DEF MessagesIInv

\* make_message changes neither the object nor the datagram.
LEMMA DecodeStep == MessagesIInv /\ Decode => MessagesIInv'
<1> SUFFICES ASSUME MessagesIInv, Decode PROVE MessagesIInv'
  OBVIOUS
<1>1. /\ datagram # <<>> /\ received' = MakeMessage(datagram)
      /\ UNCHANGED <<message, sets, datagram, origin, relays>>
  BY DEF Decode
<1>2. MessageFits' /\ CountersFit' /\ DatagramFits'
  BY <1>1 DEF MessagesIInv, MessageFits, CountersFit, DatagramFits
<1>3. ReceivedIs'
  BY <1>1 DEF ReceivedIs
<1>4. OriginNear'
  BY <1>1 DEF MessagesIInv, OriginNear, Members
<1> QED
  BY <1>2, <1>3, <1>4 DEF MessagesIInv

\* What was received is an object, and near to the first if that was an own one.
LEMMA RelayStep == MessagesIInv /\ Relay => MessagesIInv'
<1> SUFFICES ASSUME MessagesIInv, Relay PROVE MessagesIInv'
  OBVIOUS
<1>1. /\ received.outcome = "message" /\ relays < MaxRelays /\ relays' = relays + 1
      /\ message' = received /\ datagram' = <<>> /\ received' = Nothing
      /\ UNCHANGED <<sets, origin>>
  BY DEF Relay
<1>2. received.type = message.type /\ IsObject(received)
  BY <1>1, ReceivedObject
<1>3. MessageFits'
  BY <1>1, <1>2 DEF MessageFits
<1>4. CountersFit'
  BY <1>1, BoundsAssumption DEF MessagesIInv, CountersFit
<1>5. DatagramFits'
  BY <1>1 DEF DatagramFits
<1>6. ReceivedIs'
  BY <1>1 DEF ReceivedIs
<1>7. OriginNear'
  <2> SUFFICES ASSUME origin # Nothing,
                      NEW member \in Members, member.kind \in {"latitude", "longitude"}
               PROVE  /\ origin.values[member.name] \in Int
                      /\ received.values[member.name] \in Settled(origin.values[member.name])
    BY <1>1, <1>2, Zenon DEF OriginNear, Members
  <2> DEFINE first == origin.values[member.name]
             sent == message.values[member.name]
             got == received.values[member.name]
  <2>1. first \in Int /\ sent \in Settled(first) /\ got = Rounded(sent)
    BY <1>1, ReceivedIsNear
  <2> HIDE DEF first, sent, got
  <2>2. got \in Settled(first)
    BY <2>1, SettledStays
  <2> QED
    BY <2>1, <2>2 DEF first, got
<1> QED
  BY <1>3, <1>4, <1>5, <1>6, <1>7 DEF MessagesIInv

\* Every step keeps the invariant.
LEMMA StepHolds == MessagesIInv /\ [MessagesNext]_messageVars => MessagesIInv'
<1> SUFFICES ASSUME MessagesIInv, [MessagesNext]_messageVars PROVE MessagesIInv'
  OBVIOUS
<1>1. CASE Set
  BY <1>1, SetStep
<1>2. CASE EncodeMessage
  BY <1>2, EncodeStep
<1>3. CASE EncodeFails
  BY <1>3, EncodeFailsStep
<1>4. CASE Receive
  BY <1>4, ReceiveStep
<1>5. CASE Decode
  BY <1>5, DecodeStep
<1>6. CASE Relay
  BY <1>6, RelayStep
<1>7. CASE UNCHANGED messageVars
  BY <1>7 DEF messageVars, MessagesIInv, MessageFits, CountersFit, DatagramFits, ReceivedIs,
              OriginNear, Members
<1> QED
  BY <1>1, <1>2, <1>3, <1>4, <1>5, <1>6, <1>7 DEF MessagesNext

-----------------------------------------------------------------------------
\* What follows.

\* get_data throws if a member cannot be cast; those of message_24 can, none is an
\* angle.
LEMMA CastableMeans ==
  ASSUME NEW m, IsMessage(m)
  PROVE  /\ Encodable(m) <=> \A member \in ToSet(LayoutOf[m.type].members) :
                               Castable(member, m.values[member.name])
         /\ m.type = Message24.id => Encodable(m)
<1>1. Encodable(m) <=> \A member \in ToSet(LayoutOf[m.type].members) :
                         Castable(member, m.values[member.name])
  BY DEF Encodable, ToSet, ValueIn
<1>2. ASSUME m.type = Message24.id PROVE Encodable(m)
  <2>1. LayoutOf[m.type] = Message24
    BY <1>2, LayoutFacts, Zenon
  <2>2. \A j \in DOMAIN Message24.members : Message24.members[j].kind = "plain"
    BY DEF Message24, Datagram, Number, Member, ByteAt
  <2>3. \A j \in DOMAIN LayoutOf[m.type].members : LayoutOf[m.type].members[j].kind = "plain"
    BY <2>1, <2>2, Zenon
  <2> QED
    BY <2>3 DEF Encodable, Castable
<1> QED
  BY <1>1, <1>2

\* Types, from the invariant.
LEMMA InvariantImpliesTypes == MessagesIInv => MessagesTypeOK
<1> SUFFICES ASSUME MessagesIInv PROVE MessagesTypeOK
  OBVIOUS
<1>1. IsMessage(message)
  BY DEF MessagesIInv, MessageFits, IsObject
<1>2. sets \in 0..MaxSets /\ relays \in 0..MaxRelays
  BY DEF MessagesIInv, CountersFit
<1>3. \A i \in DOMAIN datagram : datagram[i] \in 0..255
  <2>1. datagram \in Seq(0..255)
    BY DEF MessagesIInv, DatagramFits
  <2>2. DOMAIN datagram = 1..Len(datagram)
    BY <2>1, LenProperties
  <2>3. ASSUME NEW i \in DOMAIN datagram PROVE datagram[i] \in 0..255
    BY <2>1, <2>2, ElementOfSeq
  <2> QED
    BY <2>3
<1>4. received.outcome \in {"nothing", "message", "invalid_argument", "unknown", "range_error"}
  <2>1. CASE datagram # <<>> /\ received = MakeMessage(datagram)
    <3>1. message.type \in Types /\ datagram \in Seq(0..255) /\ At(datagram, 0) = message.type
      BY <2>1, DatagramIsTyped
    <3>2. received \in {Refused("unknown"), Refused("invalid_argument")}
            \/ received.outcome = "message"
      BY <2>1, <3>1, ReceivedFits, Zenon
    <3> QED
      BY <3>2 DEF Refused
  <2>2. CASE received \in {Nothing, Refused("range_error")}
    BY <2>2 DEF Nothing, Refused
  <2> QED
    BY <2>1, <2>2 DEF MessagesIInv, ReceivedIs
<1>5. received.outcome = "message" => IsMessage(received)
  BY ReceivedObject DEF IsObject
<1> QED
  BY <1>1, <1>2, <1>3, <1>4, <1>5 DEF MessagesTypeOK

\* What is read, from the invariant.
LEMMA InvariantImpliesReadBack == MessagesIInv => ReadBack
<1> DEFINE cast == \A member \in Members : Castable(member, message.values[member.name])
<1> SUFFICES ASSUME MessagesIInv, message.outcome = "message", received # Nothing,
                    message.type # Message24.id, cast
             PROVE  AllSame(Members \ Miswritten)
  BY Zenon DEF ReadBack, Own
<1>1. IsMessage(message)
  BY DEF MessagesIInv, MessageFits, IsObject
<1>2. GetData(message) # {}
  BY <1>1, CastableMeans, DatagramIs DEF Members
<1>3. datagram \in GetData(message) /\ received = MakeMessage(datagram)
  BY <1>2 DEF MessagesIInv, DatagramFits, ReceivedIs
<1>4. ComesBack(message, received)
  BY <1>1, <1>3, SentIsRead
<1> QED
  BY <1>4 DEF ComesBack, AllSame, Miswritten, Members

\* Positions, from the invariant.
LEMMA InvariantImpliesNear == MessagesIInv => PositionNear
<1> SUFFICES ASSUME MessagesIInv, origin # Nothing, received.outcome = "message",
                    NEW member \in Members, member.kind \in {"latitude", "longitude"}
             PROVE  LET first == origin.values[member.name]
                        now == received.values[member.name]
                    IN /\ Absolute(first) - Absolute(now) \in 0..2
                       /\ now < 0 => first < 0
                       /\ now > 0 => first > 0
  BY DEF PositionNear
<1> DEFINE first == origin.values[member.name]
           sent == message.values[member.name]
           now == received.values[member.name]
<1>1. first \in Int /\ sent \in Settled(first) /\ now = Rounded(sent)
  BY ReceivedIsNear
<1> HIDE DEF first, sent, now
<1>2. /\ Absolute(first) - Absolute(now) \in 0..2
      /\ now < 0 => first < 0
      /\ now > 0 => first > 0
  BY <1>1, SettledStays
<1> QED
  BY <1>2 DEF first, now

\* The invariant holds throughout: what is on the way is made of what was sent.
THEOREM SeatalkMessagesInvariant == MessagesSpec => []MessagesIInv
<1>1. MessagesInit => MessagesIInv
  BY InitHolds
<1>2. MessagesIInv /\ [MessagesNext]_messageVars => MessagesIInv'
  BY StepHolds
<1> QED
  BY <1>1, <1>2, PTL DEF MessagesSpec

\* Objects hold what the types of their members and the checks of the setters and of
\* parse let them, datagrams are bytes, and a message is refused only as make_message
\* and get_data refuse one.
THEOREM SeatalkMessagesTypeOK == MessagesSpec => []MessagesTypeOK
<1>1. MessagesIInv => MessagesTypeOK
  BY InvariantImpliesTypes
<1> QED
  BY <1>1, SeatalkMessagesInvariant, PTL

\* What get_data writes make_message reads, of every message and every value, own or
\* sent on: but for members that are miswritten, message_24, which is not registered,
\* and angles message_58 cannot encode.
THEOREM SeatalkMessagesReadBack == MessagesSpec => []ReadBack
<1>1. MessagesIInv => ReadBack
  BY InvariantImpliesReadBack
<1> QED
  BY <1>1, SeatalkMessagesInvariant, PTL

\* A coordinate that is sent on however often stays within two seconds of the first
\* and in its hemisphere.
THEOREM PositionStaysNear == MessagesSpec => []PositionNear
<1>1. MessagesIInv => PositionNear
  BY InvariantImpliesNear
<1> QED
  BY <1>1, SeatalkMessagesInvariant, PTL

=============================================================================
