---------------------------- MODULE AisMessages -----------------------------
(***************************************************************************)
(* AIS messages on the way from one object to another: get_data() writes   *)
(* the fields into a bit set, encode_message() cuts it into payloads of    *)
(* armored characters, make_message() collects them and constructs an      *)
(* object, which may be encoded again.  Values are symbolic: bit j of the  *)
(* field f is <<f, j>>, so that a bit which ends up somewhere else is      *)
(* seen; Zero is a bit nobody has written.                                 *)
(***************************************************************************)
EXTENDS Integers, SequencesExt, AisLayouts

CONSTANTS
  Sources,      \* what bits may belong to
  Messages,     \* what the setters can make
  ShorterSizes  \* sizes to which other encoders may shorten a message

B == INSTANCE BitBlocks WITH BITS <- 8

VARIABLES
  message,   \* the object of the sender
  line,      \* payloads, none before the message is encoded
  whole,     \* nothing was left off
  received   \* what make_message made of them

vars == <<message, line, whole, received>>

Zero == <<"zero", 0>>
Bit == Sources \X Nat
Zeros(n) == [i \in 1..n |-> Zero]
Own(name, n) == [j \in 1..n |-> <<name, j>>]
Nonzero(value) == \E j \in DOMAIN value : value[j] # Zero

FieldsOf(type) == ToSet(Layout[type].fields)
NamesOf(type) == {f.name : f \in FieldsOf(type)}

\* 98MIDxxxx, as far as it matters.
Auxiliary(contents) == contents.mmsi = Own("mmsi of an auxiliary", 30)

\* Mutant of Written: part A has the identity of the mothership of an auxiliary.
WrittenMothership(contents, part) ==
  CASE part = "always" -> TRUE
    [] part = "addressed" -> Nonzero(contents.addressed)
    [] part = "broadcast" -> ~Nonzero(contents.addressed)
    [] part = "A" -> ~Nonzero(contents.part_number)
    [] part = "B" -> Nonzero(contents.part_number)
    [] part = "mothership" -> Auxiliary(contents)
    [] part = "dimension" -> Nonzero(contents.part_number) /\ ~Auxiliary(contents)
    [] OTHER -> Nonzero(contents[part])

\* Whether get_data writes the fields of a part.
Written(contents, part) ==
  CASE part = "always" -> TRUE
    [] part = "addressed" -> Nonzero(contents.addressed)
    [] part = "broadcast" -> ~Nonzero(contents.addressed)
    [] part = "A" -> ~Nonzero(contents.part_number)
    [] part = "B" -> Nonzero(contents.part_number)
    [] part = "mothership" -> Nonzero(contents.part_number) /\ Auxiliary(contents)
    [] part = "dimension" -> Nonzero(contents.part_number) /\ ~Auxiliary(contents)
    [] OTHER -> Nonzero(contents[part])

\* Where the calls of bits.set for a field begin: a text is written character
\* by character, everything else at once.
Starts(f) == {f.ofs + k * f.unit : k \in 0..(f.bits \div f.unit - 1)}

\* Those that reach a bit, also where they write only the rest of their last
\* block.
Reaching(f, p) == {s \in Starts(f) : p \in (s + 1)..B!WrittenEnd(s, f.unit)}

\* A bit set of some size after get_data has written its fields: the last call
\* that reaches a bit decides on it; the set grows as far as they reach.
AfterWrites(size, contents, fields) ==
  LET written == {i \in DOMAIN fields : Written(contents, fields[i].part)}
      Ends(f) == {B!WrittenEnd(s, f.unit) : s \in Starts(f)}
      Over(p) == {i \in written : Reaching(fields[i], p) # {}}
      BitOf(f, p) == IF p <= Max(Reaching(f, p)) + f.unit THEN contents[f.name][p - f.ofs] ELSE Zero
  IN [p \in 1..Max({size} \cup UNION {Ends(fields[i]) : i \in written}) |->
        IF Over(p) = {} THEN Zero ELSE BitOf(fields[Max(Over(p))], p)]

\* What follows the fields.  A text is padded to whole blocks, and left out if
\* there is no room for it.
TailData(type, tail) ==
  LET room == Layout[type].max - Layout[type].head
  IN IF Layout[type].tail = "text"
       THEN IF B!Up(Len(tail)) <= room THEN tail \o Zeros(B!Up(Len(tail)) - Len(tail)) ELSE <<>>
       ELSE tail

GetData(m) ==
  AfterWrites(Layout[m.type].head, m.contents, Layout[m.type].fields) \o TailData(m.type, m.tail)

-----------------------------------------------------------------------------
\* Characters in one payload, bits in a character.
PayloadSize == 56
Characters(bits) == (Len(bits) + 5) \div 6

\* Mutant of Payloads: a full payload is not begun anew.
PayloadsUncut(bits) ==
  LET n == Characters(bits)
  IN <<[bits |-> bits \o Zeros(6 * n - Len(bits)), pad |-> 6 * n - Len(bits)]>>

\* encode_message: the last character is filled up, and its payload says so.
Payloads(bits) ==
  LET n == Characters(bits)
      parts == (n + PayloadSize - 1) \div PayloadSize
      filled == bits \o Zeros(6 * n - Len(bits))
      End(i) == IF i = parts THEN 6 * n ELSE 6 * PayloadSize * i
  IN [i \in 1..parts |->
        [bits |-> SubSeq(filled, 6 * PayloadSize * (i - 1) + 1, End(i)),
         pad |-> IF i = parts THEN 6 * n - Len(bits) ELSE 0]]

\* Mutant of Collected: the padding is kept.
CollectedPadded(payloads) ==
  FlattenSeq([i \in DOMAIN payloads |-> payloads[i].bits])

\* collect: appends the characters, of the last one of each payload what is not
\* padding.
Collected(payloads) ==
  FlattenSeq([i \in DOMAIN payloads |->
                SubSeq(payloads[i].bits, 1, Len(payloads[i].bits) - payloads[i].pad)])

-----------------------------------------------------------------------------
\* Optional parts are read from messages of more than so many bits, whether or
\* not they have been written.
ReadAbove ==
  [mmsi_2 |-> 104, mmsi_3 |-> 136, mmsi_4 |-> 168,
   offset_number_2 |-> 100, offset_number_3 |-> 130, offset_number_4 |-> 160, dte |-> 422]

\* What a part that is not read keeps from the default constructor.
Unread(f) ==
  IF f.part \in {"broadcast", "dte"} THEN Own("default", f.bits) ELSE Zeros(f.bits)

\* Mutant of Accepts: the last eight bits may be missing.
AcceptsShorter(type, n) == n \in Layout[type].sizes \/ n + 8 \in Layout[type].sizes

Accepts(type, n) == n \in Layout[type].sizes

\* What follows the fields: of a text all whole characters, of a payload all.
TailOf(type, bits) ==
  LET rest == Len(bits) - Layout[type].head
  IN CASE Layout[type].tail = "text" ->
            SubSeq(bits, Layout[type].head + 1, Layout[type].head + 6 * (rest \div 6))
       [] Layout[type].tail = "payload" -> SubSeq(bits, Layout[type].head + 1, Len(bits))
       [] OTHER -> <<>>

Value(bits, f) == SubSeq(bits, f.ofs + 1, f.ofs + f.bits)
Inside(bits, f) == f.ofs + f.bits <= Len(bits)
Named(x, fields) == CHOOSE f \in fields : f.name = x

\* The fields that are always read; they decide which others are.
First(type) == {f \in FieldsOf(type) : f.part = "always"}
Decided(type, bits) ==
  [x \in {f.name : f \in First(type)} |-> Value(bits, Named(x, First(type)))]

IsRead(type, bits, f) ==
  IF f.part \in DOMAIN ReadAbove THEN Len(bits) > ReadAbove[f.part]
                                 ELSE Written(Decided(type, bits), f.part)

\* The constructor of the type, from bits.
Constructed(type, bits) ==
  LET Read(f) == IsRead(type, bits, f)
      invalidPart == type = "message_24" /\ Value(bits, Named("part_number", First(type)))[1] # Zero
  IN IF ~Accepts(type, Len(bits)) THEN [outcome |-> "invalid_argument"]
     ELSE IF \E f \in First(type) : ~Inside(bits, f) THEN [outcome |-> "out_of_range"]
     ELSE IF invalidPart THEN [outcome |-> "invalid_argument"]
     ELSE IF \E f \in FieldsOf(type) : Read(f) /\ ~Inside(bits, f) THEN [outcome |-> "out_of_range"]
     ELSE [outcome |-> "message",
           type |-> type,
           contents |-> [x \in NamesOf(type) |->
                           LET f == Named(x, FieldsOf(type))
                           IN IF Read(f) THEN Value(bits, f) ELSE Unread(f)],
           tail |-> TailOf(type, bits)]

-----------------------------------------------------------------------------
\* What the setters and the constructors can make.
WellFormed(m) ==
  /\ m.type \in DOMAIN Layout
  /\ \A f \in FieldsOf(m.type) : m.contents[f.name] \in [1..f.bits -> Bit]
  /\ m.type = "message_24" => m.contents.part_number[1] = Zero
  /\ m.tail \in Seq(Bit)
  /\ Len(m.tail) <= Layout[m.type].max - Layout[m.type].head
  /\ Layout[m.type].tail = "text" => Len(m.tail) % 6 = 0
  /\ Layout[m.type].tail = "none" => m.tail = <<>>

ASSUME SourcesAssumption == {"zero", "default"} \subseteq Sources
ASSUME MessagesAssumption == \A m \in Messages : WellFormed(m)
ASSUME ShorterSizesAssumption == ShorterSizes \subseteq Nat \ {0}

\* The tables of AisLayouts are as the code needs them.  Fields have bits, and
\* names of their own.
FieldsSound(type) ==
  LET fields == Layout[type].fields IN
  /\ DOMAIN fields = 1..Len(fields)
  /\ \A f \in FieldsOf(type) :
       /\ f.ofs \in Nat /\ f.bits \in Nat \ {0}
       /\ f.unit = f.bits \/ (f.unit = 6 /\ f.bits % 6 = 0)
  /\ \A f, g \in FieldsOf(type) : f.name = g.name => f = g

\* What get_data writes of the fields makes a size that is accepted, and nothing
\* is written over what follows.
SizesSound(type) ==
  LET l == Layout[type] IN
  /\ l.head \in Nat \ {0} /\ l.max \in Nat /\ l.head <= l.max
  /\ l.head..l.max \subseteq l.sizes /\ l.sizes \subseteq 1..l.max
  /\ \A f \in FieldsOf(type) : \A s \in Starts(f) :
       B!WrittenEnd(s, f.unit) <= IF l.tail = "none" THEN l.max ELSE l.head
  /\ l.tail \in {"none", "text", "payload"}
  /\ l.tail # "none" => l.sizes = l.head..l.max
  /\ l.tail = "text" => (l.max - l.head) % 8 = 0

\* Of two such parts only one is written.
Exclusive(p, q) ==
  {p, q} \in {{"A", "B"}, {"A", "dimension"}, {"A", "mothership"}, {"dimension", "mothership"},
              {"addressed", "broadcast"}}

\* The position of a broadcast message_22 overwrites what is behind it, and has
\* been written before.
Overwrites(type, g, f) ==
  /\ type = "message_22" /\ g.part = "broadcast"
  /\ f.name \in {"addressed", "band_a", "band_b", "zone_size"}

\* Fields do not overlap, and none is overwritten by a later one.
OrderSound(type) ==
  LET fields == Layout[type].fields IN
  \A i, j \in DOMAIN fields : i < j =>
    LET f == fields[i]
        g == fields[j]
    IN \/ f.ofs + f.bits <= g.ofs
       \/ Exclusive(f.part, g.part)
       \/ /\ g.ofs + g.bits <= f.ofs
          /\ \/ \A s \in Starts(g) : B!WrittenEnd(s, g.unit) <= f.ofs
             \/ Overwrites(type, g, f)

\* What is read is inside of every message with an accepted size, but for the
\* last fields of a short message_24; what decides about it is always read; what
\* is written behind an optional part makes the message long enough for it.
PartsSound(type) ==
  LET always(x) == \E g \in First(type) : g.name = x IN
  /\ type = "message_24" => always("part_number") /\ always("mmsi")
  /\ \A f \in FieldsOf(type) :
       IF f.part \in DOMAIN ReadAbove
         THEN /\ f.ofs + f.bits <= ReadAbove[f.part] + 1
              /\ f.part = "dte" => f.name = "dte"
              /\ \A g \in FieldsOf(type) :
                   /\ g.part \in {"always"} \cup DOMAIN ReadAbove
                   /\ g.ofs > f.ofs /\ g.part # f.part => g.ofs + g.bits > ReadAbove[f.part]
         ELSE /\ \/ f.part = "always"
                 \/ f.part \in {"addressed", "broadcast"} /\ always("addressed")
                 \/ f.part \in {"A", "B", "dimension", "mothership"} /\ type = "message_24"
              /\ \A n \in Layout[type].sizes :
                   \/ f.ofs + f.bits <= n
                   \/ /\ f.part \in {"dimension", "mothership"}
                      /\ n < Layout[type].head

ASSUME LayoutsAssumption ==
  \A type \in DOMAIN Layout :
    FieldsSound(type) /\ SizesSound(type) /\ OrderSound(type) /\ PartsSound(type)

-----------------------------------------------------------------------------
Nothing == [outcome |-> "nothing"]

Init ==
  /\ message \in Messages
  /\ line = <<>>
  /\ whole = TRUE
  /\ received = Nothing

Encode ==
  /\ line = <<>>
  /\ line' = Payloads(GetData(message))
  /\ UNCHANGED <<message, whole, received>>

\* Another encoder may leave off bits at the end.
Shorten(n) ==
  /\ line # <<>> /\ whole /\ received = Nothing
  /\ n < Len(Collected(line))
  /\ line' = Payloads(SubSeq(Collected(line), 1, n))
  /\ whole' = FALSE
  /\ UNCHANGED <<message, received>>

\* make_message
Decode ==
  /\ line # <<>> /\ received = Nothing
  /\ received' = Constructed(message.type, Collected(line))
  /\ UNCHANGED <<message, line, whole>>

\* What was received is sent on.
Relay ==
  /\ received.outcome = "message"
  /\ message' = [type |-> received.type, contents |-> received.contents, tail |-> received.tail]
  /\ message' # message
  /\ line' = <<>>
  /\ whole' = TRUE
  /\ received' = Nothing

Next == Encode \/ (\E n \in ShorterSizes : Shorten(n)) \/ Decode \/ Relay

Spec == Init /\ [][Next]_vars

-----------------------------------------------------------------------------
Arrived == received.outcome = "message"

\* Type correctness, also of what is sent on; payloads are full but for the last one, and only that one
\* is padded, by less than a character.
TypeOK ==
  /\ WellFormed(message)
  /\ \A i \in DOMAIN line :
       LET n == Len(line[i].bits) IN
       /\ n % 6 = 0 /\ n > 0
       /\ IF i = Len(line) THEN n <= 6 * PayloadSize /\ line[i].pad \in 0..5
                           ELSE n = 6 * PayloadSize /\ line[i].pad = 0
  /\ received.outcome \in {"nothing", "message", "invalid_argument", "out_of_range"}

\* A field that was written is read back.
ReadBack(f) ==
  Written(message.contents, f.part) => received.contents[f.name] = message.contents[f.name]

\* make_message accepts whatever encode_message has made, also of an object that
\* came from a shortened message, and reads every field that get_data writes as
\* it was, with two exceptions: the flags and the zone size of a broadcast
\* message_22 are overwritten by the position behind which they are, and of the
\* optional destinations or reservations the last one written may be lost, but
\* no other (message_22.cpp:get_data, message_07.cpp:read_data).
FieldsReadBack ==
  whole /\ received # Nothing =>
    /\ Arrived
    /\ \A f \in FieldsOf(message.type) :
         \/ ReadBack(f)
         \/ /\ message.type = "message_22" /\ ~Nonzero(message.contents.addressed)
            /\ f.name \in {"band_a", "band_b", "zone_size"}
         \/ /\ f.part \in DOMAIN ReadAbove
            /\ \A g \in FieldsOf(message.type) :
                 g.ofs > f.ofs /\ g.part # f.part => ~Written(message.contents, g.part)

\* A payload comes back as it was, a text with at most one @ at its end.
TailReadBack ==
  Arrived /\ whole =>
    /\ IsPrefix(message.tail, received.tail)
    /\ Layout[message.type].tail = "payload" => received.tail = message.tail
    /\ Len(received.tail) <= Len(message.tail) + 6
    /\ \A i \in (Len(message.tail) + 1)..Len(received.tail) : received.tail[i] = Zero

\* Of a message with bits left off every field that is read has the value it
\* was sent with, or that of a new object; nothing is made up of parts.
ShortenedNotMixed ==
  Arrived /\ ~whole =>
    /\ \A f \in FieldsOf(message.type) :
         \/ message.type = "message_22"
         \/ received.contents[f.name] \in {message.contents[f.name], Unread(f)}
    /\ \A i \in DOMAIN received.tail :
         received.tail[i] = (IF i \in DOMAIN message.tail THEN message.tail[i] ELSE Zero)

\* No field is read from behind the end of a message whose size was accepted,
\* except that a part B of message_24 without its spare bits does not reach to
\* its last field.
NeverReadsBehind ==
  received.outcome = "out_of_range" =>
    ~whole /\ message.type = "message_24" /\ Nonzero(message.contents.part_number)
=============================================================================
