# A TLA+ development of marnav

marnav is a C++17 library for data from navigational instruments: NMEA 0183
sentences, AIS messages inside them, the SeaTalk bus, a bit container, geodesy,
and readers that take bytes from a serial device. Two tools come with it,
`nmeatool` and `nmeasum`. This directory holds TLA+ modules of the parts of the
library that have state, or order, or a format to agree on, the TLC configurations
that check them, and TLAPS proofs of what matters most. Paths below are relative
to the root of the repository.

## 1. The system

| part | source | state | operations |
|---|---|---|---|
| serial device | `src/marnav-io/serial.cpp`, `include/marnav-io/serial.hpp` | a descriptor | `open`, `close`, `read`, `write` |
| SeaTalk reader | `src/marnav-io/seatalk_reader.cpp`, `default_seatalk_reader.cpp` | device, escape automaton, `index`, `remaining`, `data`, `collisions`; the default reader: the message and a flag | `read`, `close`, callback `process_message`, `read_message` |
| NMEA reader | `src/marnav-io/nmea_reader.cpp`, `default_nmea_reader.cpp` | device, the line so far; the default reader: the sentence and a flag | constructor (opens the device), `read`, `close`, callback `process_sentence`, `read_sentence` |
| sentence framing | `src/marnav/nmea/{nmea,detail,sentence,checksum,split,talker_id}.cpp` | none | `make_sentence`, `extract_id`, `to_string` |
| sentence classes | one file per sentence in `src/marnav/nmea/`, `io.cpp`, `io.hpp`, `string.cpp`, `time.cpp`, `date.cpp`, `convert.cpp` | the members of about a hundred classes | parsing constructor, setters, `append_data_to` |
| tag block | `src/marnav/nmea/tag_block.cpp` | a group, three numbers, three texts | constructor from a text, setters, `to_string` |
| bit container | `include/marnav/utils/bitset.hpp` | a vector of blocks and the number of bits | `append`, `set`, `get`, shifts, counting, logic |
| AIS messages | `src/marnav/ais/`, `include/marnav/ais/` | the fields of 22 messages | `make_message`, `encode_message`, setters |
| nmeatool | `src/nmeatool/nmeatool.cpp` | the collection of AIS fragments, the result | one step per line of input |
| SeaTalk messages | `src/marnav/seatalk/` | the fields of 30 messages | `parse`, `get_data`, registry |
| MMSI | `src/marnav/utils/{mmsi,mmsi_country}.cpp` | none | the classes of an identity, its parts, its country |
| units | `include/marnav/units/` | a number; of a quantity no unit is remembered | conversion, arithmetic of units and quantities, `get` |
| geodesy, mathematics | `src/marnav/geo`, `include/marnav/math` | none | pure functions of floating point numbers |
| nmeasum, examples, tests, `extern/` | | | |

How they interact. An application owns a reader and calls `read_message` or
`read_sentence` in a loop; each turn asks the device for one byte and runs the
automaton; a complete unit is handed to a virtual callback *in the middle of*
`read`, and the callback may throw through it. What the NMEA reader hands over is
a line of text for `make_sentence`, which looks up the class by its tag and lets
the parsing constructor of that class read the fields. AIS messages are cut into
payloads that VDM and VDO sentences carry; `nmeatool` collects such sentences
until the last one of a message is there and gives them to `make_message`, which
fills a bitset and reads the fields out of it. SeaTalk and NMEA meet in `STALK`,
a sentence that carries SeaTalk bytes.

What is hard in it:

* No thread and no timer: concurrency is between the library, the application,
  the serial driver and several talkers, and shows as the *order of bytes and
  lines*. Talkers cut each other off, lines are lost, a reader is switched on in
  the middle of a message.
* Exceptions are the error path everywhere, and most objects live on after one:
  what a callback or an error leaves behind matters to the next call.
* Everything is written and read by two pieces of code that have to agree: field
  order, optional parts, units, block boundaries, padding, checksums.
* Boundaries: sentinels inside a counter, buffers, blocks of eight bits.
* There is no persistence, hence no crash recovery to model.

What makes each part correct: the readers resynchronise, hand over whole units
only, and lose none that arrived whole; the collector never joins parts of two
messages; a damaged line is never taken for another sentence; what was written is
read back; a number means the same whatever units it has been through, and what
the letter beside it in a line says; a station is of one class; a set of bits
changes where it is told to and nowhere else.
`PROJECT.json` lists the places where this could go wrong, with their lines.

## 2. The modules

```
SeatalkFraming <- refined by - SeatalkReader <- SeatalkLine
SeatalkLayouts <- SeatalkMessages
SerialPort  +  NmeaReader <- NmeaSession
AisCollector <- AisLink
BitString <- refined by - Bitset            BitBlocks: used by Bitset and AisMessages
AisLayouts <- AisMessages
AisContents <- AisNumbers, Mmsi <- AisValues
NmeaSentence
NmeaFields <- NmeaSentencesAToM, NmeaSentencesNToZ <- NmeaSentences
NmeaSentences, NmeaTagBlock <- NmeaObjects
Units <- Quantities;  Quantities, NmeaSentences <- NmeaMeasures
```

**SeatalkReader** has the members of `seatalk_reader` as variables (`dev`, `state`,
`index`, `remaining`, `data`, `collisions`) and two that tell what the last call
did (`emitted`, `outcome`). One action is one call of a public member. `read` is
`ReadByte(c)` for a delivered byte (`process_seatalk`, `write_cmd`, `write_data`
and the callback included) and `ReadNothing` otherwise. The names of the C++
functions are kept. `collisions` wraps at `COLLISION_MODULUS`, the callback ends
in one of `CallbackOutcome`.

**SeatalkFraming** is the abstract specification: a datagram is a sequence that a
command starts and data extends until it has its length. `SeatalkReader` maps the
first `index` bytes of `data` to it. That an extra data character delivers the
last message again had to go into the abstraction, see section 4.

**SeatalkLine** puts the reader on a bus: talkers, a driver that quotes characters
as FF 00 v and may lose some, and the loop of `default_seatalk_reader::read_message`.

**SeatalkLayouts** is a table of the thirty SeaTalk messages: of each member the bits
that `parse` reads and the bits that `get_data` writes, taken from the two functions
separately. **SeatalkMessages** is the way of a message from the setters over
`get_data`, `make_message` and on to the next device, with datagrams of other devices.

**SerialPort** is the descriptor of `serial`; **NmeaReader** is `nmea_reader`;
**NmeaSession** composes them into a `default_nmea_reader` from its constructor
to its destructor, with an application that goes on after each exception. `Strict`
chooses a subclass whose callback throws on what is not a sentence.

**AisCollector** is `process()` of nmeatool with its collection of fragments;
**AisLink** adds the talkers that cut messages into fragments, lose some and
interleave; it remembers what of each message was lost (`missed`).

**Bitset** is the vector of blocks written out as bits; a call is a record, what it
returns is in `read`. The known faults of the block arithmetic are in the model as
they are in the code; a call that would touch memory behind the vector ends the
behaviour (`inside`). **BitString** is what the documentation of the same operations
says, on a plain sequence of bits; **BitBlocks** is the block arithmetic the bit
container and the messages share.

**AisLayouts** holds, for each AIS message and the two kinds of binary data, where
every field lies and on what it depends; **AisMessages** encodes a message, lets
another encoder leave off bits, decodes it and sends it on. A bit is symbolic, a
pair of the field and the position in it, so that a run decides for all values at
once where each bit goes. **AisContents**, **AisNumbers** and **AisValues** are the other
half: what setters and getters make of the values (special numbers, limits, scales,
angles and texts in the first, values that are passed on as they are in the second),
from application to application; here a number is a number and the way through the
bits is a remainder. **Mmsi** is what the library tells of the identities among them.

**NmeaSentence** writes and reads whole lines: tag block, start token, talker, tag,
fields, checksum, with any one character damaged in between.

**NmeaFields** says what reading and writing do to one field of each kind, and how
the sentences that carry lists (GSV, RTE, SFI, STALK, XDR) place their entries;
**NmeaSentencesAToM** and **NmeaSentencesNToZ** list the fields of all 93 sentence
classes: types, optional or not, units, what a setter takes, what is checked and
when; **NmeaSentences** finds them by their tags; **NmeaTagBlock** is the same for tag
blocks, whose fields have keys instead of places; **NmeaObjects** is the life of an
object of any of them.

**Units** has a row for each unit, the steps to its base unit and back and its ratio
taken from the two functions separately, and the arithmetic of a value. A value is
a sum of products of symbols (the numbers a program starts from, the literals of
the source), so that two numbers are equal only if they are for every input.
**Quantities** is a program that calculates; beside its value it keeps what that
means by the definitions of the SI. **NmeaMeasures** puts measured values into the
members of sentences, by the units the members are declared with, writes them, reads
them, and goes on calculating.

`MC*` modules give the constants values for TLC, `*Proofs` hold the theorems. `MCSeatalk`
is the instance of two modules, SeatalkReader and SeatalkMessages, which share nothing:
`half` says which of the two a behaviour moves, and one run goes through both.

Conventions. A definition whose comment begins with "Mutant of" is a plausible bug,
used nowhere: replacing the definition it names by it must make a run fail, which
shows that the property watches that definition. Every bound that only the check
needs is a constant whose comment says so.

## 3. The runs

| run | configuration | what it shows |
|---|---|---|
| `seatalk` | `Seatalk.cfg` | the reader: any bytes, errors and throwing callbacks in any order; the messages: thirty of them, values at every limit, own and foreign datagrams, sent on twice |
| `seatalk_line` | `SeatalkLine.cfg` | safety and liveness on a bus with collisions, a late start and one lost character |
| `nmea_session` | `NmeaSession.cfg` | the default reader from construction to destruction |
| `ais_link` | `AisLink.cfg` | three talkers, interleaved, losing fragments |
| `bitset` | `Bitset.cfg` | every sequence of calls on sets of up to six bits implements BitString |
| `nmea_sentence` | `NmeaSentence.cfg` | every small sentence, every single damaged character |
| `ais_messages` | `AisMessages.cfg` | all messages and optional parts, every shortening |
| `ais_values` | `AisValues.cfg` | every value at its limits, any two set together, sent on up to three times |
| `nmea_objects` | `NmeaObjects.cfg` | 93 classes and tag blocks, setters, own lines and foreign lines |
| `nmea_measures` | `NmeaMeasures.cfg` | a value of any unit, calculated with and sent in a sentence |
| `seatalk_documented` | `SeatalkDocumented.cfg` | ends in a counterexample: section 4 |
| `ais_values_documented` | `AisValuesDocumented.cfg` | ends in a counterexample: section 4 |

The properties, by run (the comment above each definition says it in full).

* `seatalk`, the reader: `CountersAgree` relates `index`, `remaining` and the attribute
  byte in every state, sentinels included; `EmittedWellFormed`; `CollisionMeansTruncation`,
  a step property; `ImplementsFraming`, the refinement. Bytes 0, 1, 3 and FF are
  enough: FF and 00 drive the escapes, 00, 01, 03 have even, odd and even parity
  and announce lengths 3, 4 and 6. The longest message explored is cut by
  `MaxIndex`, above which nothing distinguishes one position from the next before
  the sixteenth, which the proofs cover.
* `seatalk_line`: `DrainedAgrees` compares reader and bus whenever the driver is
  empty; `NothingForgotten`; `ReturnsNextIntact`; `IntactEventuallyReturned`. One
  lost character at any place, two datagrams in flight, and five bytes in the
  driver (a quoted character and a plain one of the next) let losses, cuts and
  completions overlap in every order.
* `seatalk`, the messages: `ReadBack` (what is written is read; nothing is claimed of the
  messages and members of section 4 of which it is not), `PositionNear` (a position that
  is sent on stays where it was). Two setters in a row are enough for two members that
  share a byte; two devices that send on are enough for rounding to settle.
  `seatalk_documented` checks `DocumentedReadBack`, the same without exceptions, of the
  messages whose encoding a document gives.
* `nmea_session`: `BufferIsLine`, `SentenceIsLine`, `NoDescriptorLeak`, `KeepsAccepting`. The
  buffer holds `MAX_LENGTH + 1` = 3 characters and lines go up to five, so each
  boundary of the length check is met from both sides.
* `ais_link`: `IntactMessageDumped` (a message nobody comes in between is dumped whole and
  alone); `DumpedMissesUnreceivedOnly` (whatever gets lost and comes in between: what is
  dumped with the last fragment of a message has, behind the first one it has, every
  fragment of that message that was received, and if it has the first and all were received
  it is the message); `OrderlyDumpedComplete` (nothing lost, one message at a time: whatever
  is dumped is one message). That fragments of one dump are consecutive, or of one message,
  does not hold of this code: see section 4. Two receivers share an identifier and a
  transponder has another one; three and two fragments are the fewest with a middle, and
  errors are irrelevant to the collection (`MaxErrors = 0` stops after the first).
* `bitset`: `TailZero` and `ImplementsString`. With two bits to a block and six to
  the vector every call starts and ends in the first, the middle or the last
  block and at or off a boundary; values of up to three bits span two blocks.
  `SoundCalls` in `MCBitset` are the calls of which the code does what its
  documentation says, whatever the size of a block: shifts only by nothing or by
  the whole set, copies of a range only from the beginning of a block. Section 4
  lists the others.
* `nmea_sentence`: `UndamagedReadBack`, `DamageDetected`, `AcceptedAgrees` (what
  `make_sentence` accepts `extract_id` names alike, and it can be written again).
  Fifteen characters of four bits, checksums of two digits to the base four: the
  exclusive or of a line and its two digits relate as eight bits and two
  hexadecimal digits do, and all tokens are among the characters.
* `ais_messages`: `FieldsReadBack`, `TailReadBack`, `ShortenedNotMixed`, `NeverReadsBehind`.
  The layouts have their true sizes, only texts and payloads are sampled, at the
  lengths around a padded character and a full payload.
* `ais_values`: `SentArrives` (what is set arrives as exactly as the message can say
  it, and nothing else changes), `RelayedSame` (nor does it when it is sent on).
  Values are taken at the limits of setters and of bits, one more and one less,
  around the numbers for "not available", at poles, date line and at fractions
  that rounding moves. What came from another device is sent on up to three times,
  so that a value which moves a step each time would leave the bound of two; each
  value the sender has set costs one. `StationTold`: the classes of an identity
  exclude each other, and its MID, manufacturer and number make it up again; it
  looks at the identities at the edges of every class, in each place of each message.
* `nmea_objects`: `OwnLineReadBack`, `PositionAgrees`, `NothingDropped`. Two setters in a
  row are what it takes for one to meet what another has left; a foreign line is
  all empty or all in order but for two neighbours, since a check relates
  neighbours at most (`Reach = 1`). Lists have two places: a hole in front of an
  entry, an entry behind the last place, an empty waypoint among others and a full list
  all occur; with three places the run passes as well. What reading may change of a line the
  library has written is stated value by value (`Losing`, `Left`, `Named`): of a time
  whose milliseconds a double does not carry one is lost, an empty waypoint and none are
  written alike, and a route loses its empty waypoints and keeps the order of the others.
  A foreign tag block has up to two fields of any keys, which is what it takes for two
  to have the same.
* `nmea_measures`: `QuantityMeans` (after any operations the value means what it should
  and has the dimension it should have), `LineMeans` (so does the number in a line,
  in the unit its letter stands for, whoever wrote it). The first operand has any of
  the 57 units; the second is of kilometers (a ratio), celsius (an offset),
  seconds or newton (other dimensions). Two operations, setters among them, are what
  it takes to go to another unit and come back, or to convert and then send.

The runs `seatalk` (one for each half), `bitset`, `ais_messages`, `ais_values` and `nmea_objects`
have a type invariant besides.

**Fairness.** Two specifications have some. `LineSpec`: the application calls
`read_message`, which loops over `read` as long as bytes are there, so
`WF(ReadMessage)`; no talker is obliged to anything. `SessionSpec`: a blocking read
on a port that keeps delivering, in the loop of `read_sentence`, so weak fairness
of receiving *some* character; which one is left open, and `KeepsAccepting` says
"if valid lines keep coming". The other properties are safety only.

**Deadlock** is checked for the SeaTalk line, with the reader in it. The others may stop: an
object is destroyed, a tool ends, a constructor has thrown, a message was read.

## 4. What was found

Two runs end in a counterexample, each of two faults that a document contradicts. TLC shows the
first it meets; the constant that is named shows the other.

* `seatalk_documented`: `message_58` (`message_58.cpp:46`) cannot be encoded for a position in
  the south or west with a fraction of a degree, for which `message_58.hpp:19` gives the
  sign bits: `get_data` casts a negative fraction to an unsigned number and throws
  (`Types = {88}`). `message_24` is listed as a message that is decoded and encoded
  (`README.md:197`), and the register names `message_23` in its place (`seatalk.cpp:61`):
  its own datagram is unknown (`Types = {36}`).
* `ais_values_documented` (`src/marnav/ais/binary_001_11.cpp`): `set_day` (`:364`) takes the
  31st for out of range, which the comment above it allows. `set_water_level` (`:435`)
  moves the zero by ten tenths of a meter, the getter by ten meters; a level of -0.1 m
  arrives as -9.1 m (`Wanted <- WantedButDays`). Three temperatures have the same fault.

Met while modelling, stated as the exceptions of properties, or outside them:

* SeaTalk reader: a stray data character after a complete message makes
  `process_message` run once more with that message (`seatalk_reader.cpp:94`; `Redeliver`
  in SeatalkFraming); it never opens its device, although an example says so; a byte
  lost inside a quoted character leaves it in the state ESCAPE, every ordinary
  character an error, until 00 or FF happens to arrive.
* SeaTalk messages: `message_10`, `message_11` and `message_25` write a member in another
  form than they read it (`Miswritten`).
* NMEA reader: the buffer is cleared after the callback (`nmea_reader.cpp:55`). A
  subclass whose callback throws, as `Strict = TRUE` has it, keeps the bad line in
  front of every later one; the default reader does not throw.
* nmeatool: a lost fragment in the middle of a message is not noticed
  (`nmeatool.cpp:2242`), the rest is decoded as the whole message, and so is a mixture of
  the fragments of two talkers with one identifier. `DumpedComplete` does not hold by
  itself, hence `DumpedMissesUnreceivedOnly` and `OrderlyDumpedComplete`.
* AIS messages: 7, 13 and 20 do not read their last entry back (a comparison with
  `>` where the size is equal); a text may come back with one `@` more; the position
  of a broadcast 22 is written after the flags and the zone size behind it and
  zeroes them (`message_22.cpp:71`); a part B of 160 bits throws `out_of_range`.
* AIS values (`Mistaken`): `set_vendor_id` of message 24 sets the call sign; the name of
  message 19 keeps the `@` it was filled up with; `get_altitude` of message 9 looks at
  the speed; `set_dest_mmsi` of
  message 10 assigns the sender; the ship type of message 23 has no setter. An identity of
  ten digits loses its upper bits, and may so become one of an auxiliary vessel: part B
  of message 24 then makes the mothership of the dimension (`MadeOfDimension`). A position
  that is not available comes out as 0 degrees, not as nothing.
* MMSI: of an identity with ten digits, which only a program can make, the last nine
  decide the class; of an aid to navigation nobody tells the MID.
* Units (`Disputed`): the quotient of two units multiplies by the ratio of the divisor
  (`basic_quantity_ops.hpp:61`); tesla and weber have each other's dimension, and henry
  lacks a length (`dimension.hpp:43`); the base unit of pressure is bar, so a product of a
  pressure is off by 10^5; degrees are added and multiplied as the numbers they are.
* Bit container: a value that crosses two blocks overwrites the rest of the second;
  `append_block` does not mask; `set_block` and `get_block` are right only
  for values that cross no block or meet the boundary; `|=` and `^=` with a shorter
  set, and a `set` far behind the end, read or write outside the vector.
* Sentence framing: with a tag block `to_string` writes a checksum that
  `make_sentence` refuses; a line that ends with the second tag block token throws
  `out_of_range`; with the checksum ignored, a line without one loses its last field;
  with it checked, a delimiter in the place of a first digit of zero is taken for one
  more, empty field (`detail.cpp:43`); `extract_id` takes all of a line for the address if a
  `,` stands in the place of the start token behind a tag block.
* Tag blocks: a delimiter in a text that a setter has taken ends the field, and the
  rest is read as another field or refused; a block without valid members is
  written as an empty text, which its constructor refuses.
* Sentence classes (`Unreadable`, `LossyTypes`): APA and APB check the old reference
  instead of the new one (`RELATIVE` is taken, and the line written is refused by
  every reader, the library's included); BOD, VDR and VPW read a unit into an
  uninitialised variable where their own `to_string` leaves it empty; a default
  ALM, DSC with a geographical area, XDR without transducers and a default
  `magnetic` write lines that cannot be read; GBS, GRS and GST write the wrong digits
  of a fraction of a second; durations lose their fraction, dates their century; a time
  may lose a millisecond when it is read (`time.cpp:22`); `add_waypoint_id` of RTE takes
  an empty waypoint, which the constructor leaves out
  (`rte.cpp:32`);
  GLC, LCD and GTD leave members without a value if fields are empty; R00 reads
  empty fields as waypoints without a name. Places left free between transducers
  close up; GSV drops a satellite that comes without its number; XDR accepts
  indices up to 39 for an array of ten (no call of the model uses one that the
  array does not have); WDC and WDR assign a distance before they throw because
  it is negative (`AssignsFirst` in NmeaMeasures).

## 5. What is proved

With TLAPS, for every value of the constants that satisfies the `ASSUME`s of the
modules.

**SeatalkProofs**, the reader. `CountersAgree` is the inductive invariant: nothing is
collected while `remaining` is 255, `index` is 1 while it is 254, and otherwise
`index + remaining` is the length that the attribute in `data[1]` announces. Without
the last part `TypeOK` is not inductive: it is what keeps `index` below 18, and
so below `MAX_MESSAGE_SIZE`. From it follow `ReaderTypeOK` (no write leaves the buffer),
`ReaderEmittedWellFormed`, `ReaderCollisions` and `ReaderImplementsFraming`, where each action is
mapped to a step of the abstract specification or to a stuttering one.

The same module, the line. For any alphabet and any bus, a queue of any length in the driver,
any number of characters lost as a whole, a late start, and a callback that returns:
`LineDrainedAgrees`, `LineNothingForgotten` and, as long as no character is lost,
`LineReturnsNextIntact`. While bytes are queued reader and bus
differ; the inductive invariant `LineInv` says that the bytes on the way lead the
reader, one `Step` after the other, from where it stands to where the bus stands
(`Caught`), and that it hands over on that way what is pending, in this order. A
queue that grows at one end and is read at the other changes such a way at its ends
only, so no induction over the queue is needed. A talker may not use FF as a command:
the reader takes a quoted FF for data (`TalkersAssumption`). `LineImplementsReader`
needs none of this, and carries over what is proved of the reader alone.

**NmeaSessionProofs.** For the default reader (`Strict = FALSE`), any alphabet, capacity and
bound of the lines. Two invariants: the descriptor is held exactly by a live reader
that has its device (`LiveReaderHasPort`, from which `NoDescriptorLeak`), and the buffer is
the beginning of the line (`BufferIsLine`), which needs that the callback never throws
and is false for a strict subclass. `SessionSentenceIsLine` is the step property.

**AisTransportProofs**, nmeatool. First the collector with arbitrary input: it stays typed, and
its size has a bound (`Bounded`: `CollectionBounded` and `DumpedBounded`; no fragment stands behind the
place its number gives it, so nothing larger than what the last one announces is
dumped, of one identifier). Then the link, for any number of talkers, identifiers and
fragments. `LinkInv` joins types, `IntactCollected` (the collection is the part already sent
of the message that arrives uninterrupted) and that at most one talker is in that
position: without the last one, a fragment of one talker could end another's message. From
it follow `LinkIntactMessageDumped` and `LinkOrderlyDumpedComplete`. For
`LinkDumpedMissesUnreceivedOnly` the invariant is `CollectionMissesUnreceivedOnly`, that what the
step claims of the dump holds of the collection up to what was sent: a fragment is appended
or starts a new collection, and neither leaves out one that was received behind one that
is there. `LinkImplementsCollector` carries what is proved of the collector over to the link.

The same module, the messages. For every message that `WellFormed` admits, with any values of
its fields, any tail that fits and any number of bits left off: `MessagesTypeOK`,
`MessagesFieldsReadBack`, `MessagesTailReadBack`, `MessagesShortenedNotMixed` and
`MessagesNeverReadsBehind`. What the theorems need of the layouts is one assumption,
`LayoutsAssumption`, about the tables of AisLayouts as they are: TLC evaluates it for
all of them (fields do not overlap but where parts exclude each other, what is
read lies inside of every accepted size, and so on), so the proofs need not go through
the tables. The bits are symbols (`Sources`), a fact about symbols holds for all
values. The invariant `IInv`: for a number n, the line is the payloads of the first n
bits of the message's data, and what was received is what the constructor makes of these.
`CollectedPayloads` says that collecting undoes cutting into payloads, at any length.

**AisValuesProofs.** For any messages of the table, any values applications set and
other devices send, and any number of calls and of times a message is sent on:
`ValuesTypeOK`, `SentDoesArrive`, `RelayedStaysSame`, `StationIsTold`. The invariant (`IInv`,
`ValuesInvariant`) says what every member may hold before and after it has travelled
(`VariablesFit`, `WantedFit`, `FirstFits`); that before the first transmission it is what
its setter stored (`AsSet`); that after it what arrived is the first object made from
bits, and is what was set; and from then on how far a member may be from the one
of that first object (`KeptSince`, which for an angle, a ceiling and all others is a
different relation each); the vessel a part B of message 24 is about stays the same
(`SameVessel`), since what is in its last bits depends on it. The proof goes by the kinds
of values, not by the messages: what a kind needs of a row of the table (widths, limits,
missing values, who writes it) is `ContentsAssumption`, with `PartBAssumption`,
`OffsetsAssumption` and `InputsAssumption`; TLC evaluates them for every row.

**SeatalkProofs**, the messages, which share only bytes with the reader. For every message
of the table, every value the setters take and any datagrams of other devices, sent on
any number of times: `SeatalkMessagesInvariant` and from it `SeatalkMessagesTypeOK`,
`SeatalkMessagesReadBack`, `PositionStaysNear`. What a layout has to fulfil is `LayoutIsSound`: the
pieces written to a byte lie one above the other and do not leave it; the pieces a
member is read from are all bits of a number, each once; a piece is read where
it is written; there is room for what a member of its kind may hold. TLC evaluates
it for all thirty layouts (`LayoutsAssumption`). From it `WrittenIsRead`: the rest of a byte,
divided by the weight of a piece, is what was written there (sums over sets of
pieces, by induction over their subsets), and the pieces of a number make it up again
as digits do. Then the kinds, each by arithmetic: two's complement, tenths, courses,
hemispheres, hundredths of a minute. `ReceivedFits` is the counterpart for foreign bytes.
The inductive invariant joins objects that hold what they can hold, a datagram that is
one of those made of the object, and `OriginNear`: a coordinate is as first, rounded
once, or rounded twice. Without the last part "within two seconds" is not inductive:
it is that a third rounding changes nothing which keeps it there.

**BitsetProofs.** For blocks of any size, any set of calls and any order of them:
`BitsetIInv` (whole blocks, enough for the bits, zeros behind the last one),
`BitsetTypeOK`, `BitsetTailZero`, with shifts, ranges and sets of sets included; and
`BitsetImplementsString` as long as only `Proper` calls are made: every such call does
to the bits what BitString says, and touches no other. A range that does not begin
with a block and the shifts are not among them, since the masks of `set_block` and
`get_block` are wrong for what crosses into the next block; `++` and `--` stay with
TLC, being documented as arithmetic, on numbers that for any size of block are sums of powers.

**NmeaSentenceProofs.** For any alphabet with any codes of any width, any talkers and
tags that do not run into each other, any texts and tag blocks the setters admit. The
inductive invariant `SentenceIInv` is small: what was sent is written from the object, the
line is that or differs by one character lost, added or replaced, what was read is
what `make_sentence` and `extract_id` make of the line. The rest is lemmas on the
operators, up to the three properties. `SentenceUndamagedReadBack`: the fields of a
joined text are the texts joined, and the digits are read as the number they
were written from. `SentenceAcceptedAgrees`: whatever is accepted is of the
form that writing makes. `SentenceDamageDetected` goes through the parts of a line. One
character changes the checksum, since codes differ and none is zero: this covers the
body. Damage before the body moves the place from which the line is read, to
one where the checksum covers one character more or less, or where the text
of the tag block would have to be an address, which `BlocksAssumption` excludes. That leaves the
end, where the `*` has to be in its place, and a delimiter for a first digit of zero is
the one exception, as the property says. The assumptions are `WidthAssumption` (two
digits hold the numbers of `WIDTH` bits), `CodeAssumption`, `DigitsAssumption`,
`AddressAssumption`, `BlocksAssumption`; TLC evaluates them for the instance.

**NmeaObjectsProofs.** For every sentence class and for tag blocks, any number of calls of
setters, any line of any texts and any distance of its odd fields: `ObjectsTypeOK`,
`PositionAlwaysAgrees`, `OwnLineIsReadBack`, `NothingIsDropped`. Of the four properties only
the type is nearly inductive. The invariant (`IInv`, `ObjectsInvariant`) says that an object
is `Sound` whatever has made it (values the member may hold, which the checks
let pass but for the few they refuse of the code's own, signs with their hemispheres,
values that make one member all there or none, appended entries without a gap);
that a line an object has written is still the line of that object, which
is sound as well; and that what was read, or refused, is an outcome of reading
the line that is remembered. The first is what makes the second useful: only of a sound
object is it true that reading undoes writing. Then by lemmas on the operators: lists of
entries close up without losing or exchanging any (`ClosedUpIs`, from ranks in a set of
numbers); what an empty field, a unit without a value or a missing partner leads
to (`ReadBackIs`, `KeptIs`); and of tag blocks, which a constructor reads field by field in
any order, that a text with a delimiter disturbs no other member and that the last field with a
key is kept (`BlockReadBack`, `LastKept`). What a class has to fulfil is `WellFormed`, over
its fields one by one: `LayoutsAssumption`. TLC evaluates it for all classes with the lists
as short as in the runs (`MaxEntries`); the theorems hold for lists of any length with
layouts that fulfil it. What is lost is in the theorem as it is in the property: a member
that comes back is the one written, or one of the few values `Losing` names, and then
it is one of `Left`; of a list that is appended to, reading gives what `Named` leaves, the entries
without the empty ones, closed up (`EntryRead`, `OwnMade`). `TextsAssumption` says that the texts of the model are strings, which
the provers are not told.

**RecursionFacts** has what these need of folds, recursive functions and sums. Theorems of
the library that take an operator cannot be instantiated by the provers, so induction
is stated with a set (the least number that is not in it, from `WFMin`), over
numbers and over sequences; a fold is characterised by the sequence of its
intermediate results.

Only model-checked: liveness (`IntactEventuallyReturned`, `KeepsAccepting`: fairness is
beyond the provers); the calls of `Bitset` that are not `Proper`, as far as they do what is
documented; and units (`Quantities`, `NmeaMeasures`):
the table of units is put together with `@@`, and a value is a sum of products of
symbols whose coefficients are sums over sets of pairs, so that equality of two values
after any operations would need the laws of polynomials by induction over terms.
TLC goes through the tables completely, with the values
at their limits.

## 6. What is left out, and what comes next

Not modelled: floating point (geodesy, mathematics, the precision of units, the
digits of numbers and angles), tables of names, the printing of nmeatool, termios
settings and `write` of the serial device, nmeasum (a main program of one step), the
examples, the vendored libraries. Left out of parts that are modelled: comparison
and rounding of units, comparison of bit sets and iterators outside them, the length
of texts in sentences, getters that hide an incomplete position, the direction of
angles in degrees, which have no unit in the library.

The plan, in this order:

1. the armored characters of a payload, and the comparison operators of the bit
   container;
2. the composition: SeaTalk or NMEA reader, `make_sentence`, collector, decoder, in one
   run from bytes to messages with abstract parts; STALK as the bridge from the
   SeaTalk reader to a line;
3. proofs: the calls of `Bitset` that are not `Proper` and documented all the same.
