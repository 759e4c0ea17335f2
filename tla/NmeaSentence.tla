---------------------------- MODULE NmeaSentence ----------------------------
(***************************************************************************)
(* marnav::nmea: a sentence object written to a line (to_string), the line *)
(* on its way, and the line read again (make_sentence, extract_id).        *)
(*                                                                         *)
(* A line is a sequence of characters, each with a code of WIDTH bits; a   *)
(* checksum is written as two digits in the base RADIX.  (The program has  *)
(* WIDTH = 8 and RADIX = 16.)  The fields stay text: what a sentence makes *)
(* of them is left out, except how many of them it accepts.                *)
(***************************************************************************)
EXTENDS Integers, FiniteSets, Sequences, SequencesExt

CONSTANTS
  WIDTH, RADIX,
  Code,           \* the bits of the code of each character
  Digits,         \* hex_digit: the characters of the digits, from zero on
  DigitValue,     \* what std::stoul takes each digit for, in either case
  Tags,           \* tags of the known sentences
  AisTags,        \* the ones whose start token is '!'
  FieldCount(_),  \* the numbers of fields the sentence of a tag accepts
  Talkers,        \* the ids of the known talkers
  TALKER_LENGTH, TAG_LENGTH,
  Texts,          \* what a field of a sentence object may hold
  Blocks          \* what its tag block may hold, <<>> for none

VARIABLES
  stage,    \* "object", "written", "damaged", "read"
  object,   \* the sentence object a line was written from
  sent,     \* the line as it was written
  line,     \* the line as it arrives
  handling, \* the checksum_handling it was read with
  got,      \* what make_sentence made of it
  id        \* what extract_id made of it

vars == <<stage, object, sent, line, handling, got, id>>

-----------------------------------------------------------------------------
Character == DOMAIN Code
Delimiters == {",", "*"}
Special == Delimiters \cup {"$", "!", "\\"}

\* The number with these bits, the most significant one first.
Number(bits) == FoldLeft(LAMBDA n, b : 2 * n + b, 0, bits)

\* Two digits hold the numbers of WIDTH bits.
ASSUME WidthAssumption ==
  /\ WIDTH \in Nat /\ RADIX \in Nat
  /\ RADIX * RADIX = Number([i \in 1..WIDTH |-> 1]) + 1

\* No character is zero, no two have the same code.
ASSUME CodeAssumption ==
  /\ Special \subseteq Character
  /\ \A c \in Character :
       /\ Code[c] \in [1..WIDTH -> {0, 1}]
       /\ \E i \in 1..WIDTH : Code[c][i] = 1
       /\ \A d \in Character \ {c} : Code[c] # Code[d]

\* How many characters of s have the bit i.
Having(s, i) == Cardinality({j \in DOMAIN s : Code[s[j]][i] = 1})

\* Mutant of Checksum: a bit is set if any character has it.
ChecksumOr(s) == Number([i \in 1..WIDTH |-> IF Having(s, i) > 0 THEN 1 ELSE 0])

\* The exclusive or of the codes: a bit is set if an odd number of them has it.
Checksum(s) == Number([i \in 1..WIDTH |-> Having(s, i) % 2])

ChecksumText(sum) == <<Digits[(sum \div RADIX) + 1], Digits[(sum % RADIX) + 1]>>

\* std::stoul of at most two characters, as uint8_t: white space or a sign is
\* taken before the first digit, what follows the last one is ignored.
Leading == {" ", "+", "-"}
DigitSet == DOMAIN DigitValue
Magnitude(t) == IF t[1] \in Leading THEN Tail(t) ELSE t
StoulAccepts(t) == t # <<>> /\ Magnitude(t) # <<>> /\ Head(Magnitude(t)) \in DigitSet
Stoul(t) ==
  LET m == Magnitude(t)
      n == IF Len(m) = 2 /\ m[2] \in DigitSet
             THEN DigitValue[m[1]] * RADIX + DigitValue[m[2]]
             ELSE DigitValue[m[1]]
  IN (IF t[1] = "-" THEN -n ELSE n) % (RADIX * RADIX)

ASSUME DigitsAssumption ==
  /\ DigitSet \subseteq Character \ (Special \cup Leading)
  /\ \A d \in DigitSet : DigitValue[d] \in 0..(RADIX - 1)
  /\ \A i \in 1..RADIX : Digits[i] \in DigitSet /\ DigitValue[Digits[i]] = i - 1

-----------------------------------------------------------------------------
StartToken(tag) == IF tag \in AisTags THEN "!" ELSE "$"

Joined(fields) == FlattenSeq([i \in 1..Len(fields) |-> <<",">> \o fields[i]])

\* What to_string writes between the start token and the end token.
Body(s) == s.talker \o s.tag \o Joined(s.fields)

\* to_string: the checksum is the one of all but the first character, so with a
\* tag block it also covers the rest of the block and the start token.
Written(s) ==
  LET block == IF s.block = <<>> THEN <<>> ELSE <<"\\">> \o s.block \o <<"\\">>
      text == block \o <<StartToken(s.tag)>> \o Body(s)
  IN text \o <<"*">> \o ChecksumText(Checksum(Tail(text)))

\* The same sentence as other programs write it: the checksum is the one of the
\* sentence without its tag block, as make_sentence expects it.
ForeignString(s) ==
  LET block == IF s.block = <<>> THEN <<>> ELSE <<"\\">> \o s.block \o <<"\\">>
  IN block \o <<StartToken(s.tag)>> \o Body(s) \o <<"*">> \o ChecksumText(Checksum(Body(s)))

-----------------------------------------------------------------------------
Find(s, chars, from) == SelectInSubSeq(s, from, Len(s), LAMBDA c : c \in chars)

\* Where the second tag block token is, 0 if the line begins with none.
BlockEnd(s) == IF s[1] = "\\" THEN Find(s, {"\\"}, 2) ELSE 0

\* Mutant of SearchPos: the start token behind a tag block is not skipped.
SearchPosAtStart(s) == IF BlockEnd(s) = 0 THEN 2 ELSE BlockEnd(s) + 1

\* search_pos: where the address begins.
SearchPos(s) == IF BlockEnd(s) = 0 THEN 2 ELSE BlockEnd(s) + 2

\* The fields with one more character: a delimiter begins another one.
Extended(fields, c) ==
  IF c \in Delimiters THEN Append(fields, <<>>)
  ELSE [fields EXCEPT ![Len(fields)] = Append(@, c)]

\* parse_fields: the text between the delimiters.
ParseFields(s, from) == FoldLeft(Extended, <<<<>>>>, SubSeq(s, from, Len(s)))

\* Mutant of EnsureChecksum: the size of the line is not checked.
EnsureChecksumLoose(s, expected, from) ==
  LET star == Find(s, {"*"}, from) IN
  IF star = 0 \/ Len(s) < star + 2 \/ ~StoulAccepts(expected) THEN "invalid_argument"
  ELSE IF Stoul(expected) # Checksum(SubSeq(s, from, star - 1)) THEN "checksum_error"
  ELSE "ok"

\* ensure_checksum: the line ends two characters after its first '*'.
EnsureChecksum(s, expected, from) ==
  LET star == Find(s, {"*"}, from) IN
  IF star = 0 \/ Len(s) # star + 2 \/ ~StoulAccepts(expected) THEN "invalid_argument"
  ELSE IF Stoul(expected) # Checksum(SubSeq(s, from, star - 1)) THEN "checksum_error"
  ELSE "ok"

\* parse_address: the talker and the tag of an address, none if it is refused.
\* A talker nobody knows is none.
Address(a) ==
  LET talker == SubSeq(a, 1, TALKER_LENGTH)
      tag == SubSeq(a, TALKER_LENGTH + 1, Len(a))
  IN IF a \in Tags THEN {[talker |-> <<>>, tag |-> a]}
     ELSE IF Len(a) = TALKER_LENGTH + TAG_LENGTH /\ tag \in Tags
       THEN {[talker |-> IF talker \in Talkers THEN talker ELSE <<>>, tag |-> tag]}
     ELSE {}

\* The talkers, tags and texts there are have no tokens and no delimiters in them;
\* a talker and a tag do not make another tag.
ASSUME AddressAssumption ==
  /\ TALKER_LENGTH \in {1, 2} /\ TAG_LENGTH \in Nat
  /\ \A tag \in Tags :
       /\ tag \in Seq(Character \ Special) /\ Len(tag) >= TALKER_LENGTH
       /\ FieldCount(tag) \subseteq Nat
  /\ \A talker \in Talkers :
       /\ talker \in Seq(Character \ Special) /\ Len(talker) = TALKER_LENGTH
       /\ \A tag \in Tags : Len(tag) = TAG_LENGTH => talker \o tag \notin Tags
  /\ \A text \in Texts : text \in Seq(Character \ (Delimiters \cup {"\\"}))

\* A tag block does not begin with a start token, and what might be taken for an
\* address in it is before its own '*' (tag_block.cpp:to_string).
ASSUME BlocksAssumption ==
  \A block \in Blocks :
    /\ block \in Seq(Character \ {"\\"})
    /\ block # <<>> => Head(block) \notin {"$", "!"}
    /\ \A i \in DOMAIN block : \A j \in i..Len(block) :
         Address(SubSeq(block, i, j)) # {} => \E k \in j..Len(block) : block[k] = "*"

Refused(how) == [how |-> how, sentence |-> <<>>]

\* What make_sentence returns or throws.  With a start position behind the end
\* of the line, substr throws out_of_range.
MakeSentence(s, chksum) ==
  IF s = <<>> \/ Head(s) \notin {"$", "!", "\\"} THEN Refused("invalid_argument")
  ELSE LET from == SearchPos(s)
           fields == ParseFields(s, from)
           address == Address(fields[1])
           data == SubSeq(fields, 2, Len(fields) - 1)
           checked == IF chksum = "check" THEN EnsureChecksum(s, Last(fields), from) ELSE "ok"
       IN IF from > Len(s) + 1 THEN Refused("out_of_range")
          ELSE IF Len(fields) < 2 THEN Refused("invalid_argument")
          ELSE IF checked # "ok" THEN Refused(checked)
          ELSE IF address = {} \/ \A a \in address : Len(data) \notin FieldCount(a.tag)
            THEN Refused("invalid_argument")
          ELSE LET a == CHOOSE x \in address : TRUE IN
               [how |-> "ok",
                sentence |->
                  [talker |-> a.talker, tag |-> a.tag, fields |-> data,
                   block |-> IF BlockEnd(s) = 0 THEN <<>> ELSE SubSeq(s, 2, BlockEnd(s) - 1)]]

\* Mutant of ExtractId: a vendor's tag is not looked for.
ExtractIdSuffix(s) ==
  LET comma == IF s = <<>> THEN 0 ELSE Find(s, {","}, 1)
  IN IF comma < 3 THEN {} ELSE {SubSeq(s, comma - TAG_LENGTH, comma - 1)} \cap Tags

\* What extract_id returns, as a set of at most one tag.  If a ',' stands for the
\* start token the length that substr gets is -1, all the rest.
ExtractId(s) ==
  IF s = <<>> \/ Head(s) \notin {"$", "!", "\\"} THEN {}
  ELSE LET token == IF BlockEnd(s) = 0 THEN 1 ELSE BlockEnd(s) + 1
           comma == Find(s, {","}, token)
           last == IF comma = token THEN Len(s) ELSE comma - 1
       IN IF comma = 0 THEN {} ELSE {a.tag : a \in Address(SubSeq(s, token + 1, last))}

-----------------------------------------------------------------------------
\* The objects a program may build: their tag decides how many fields, and those
\* of a vendor's tag have no talker.
Objects ==
  UNION {[talker : IF Len(t) = TAG_LENGTH THEN Talkers \cup {<<>>} ELSE {<<>>},
          tag : {t}, block : Blocks,
          fields : UNION {[1..n -> Texts] : n \in FieldCount(t)}] : t \in Tags}

Init ==
  /\ stage = "object"
  /\ object \in Objects
  /\ sent = <<>>
  /\ line = <<>>
  /\ handling = "check"
  /\ got = Refused("none")
  /\ id = {}

Write ==
  /\ stage = "object"
  /\ sent' \in {Written(object), ForeignString(object)}
  /\ line' = sent'
  /\ stage' = "written"
  /\ UNCHANGED <<object, handling, got, id>>

\* The line loses a character, gets one more, or has one replaced.
Damage ==
  /\ stage = "written"
  /\ \/ \E i \in 1..Len(line) : line' = RemoveAt(line, i)
     \/ \E i \in 1..(Len(line) + 1), c \in Character : line' = InsertAt(line, i, c)
     \/ \E i \in 1..Len(line) : \E c \in Character \ {line[i]} : line' = ReplaceAt(line, i, c)
  /\ stage' = "damaged"
  /\ UNCHANGED <<object, sent, handling, got, id>>

Read(chksum) ==
  /\ stage \in {"written", "damaged"}
  /\ stage' = "read"
  /\ handling' = chksum
  /\ got' = MakeSentence(line, chksum)
  /\ id' = ExtractId(line)
  /\ UNCHANGED <<object, sent, line>>

Next ==
  \/ Write
  \/ Damage
  \/ \E chksum \in {"check", "ignore"} : Read(chksum)

Spec == Init /\ [][Next]_vars

-----------------------------------------------------------------------------
\* Type correctness.
TypeOK ==
  /\ stage \in {"object", "written", "damaged", "read"}
  /\ object \in Objects
  /\ sent \in Seq(Character)
  /\ line \in Seq(Character)
  /\ handling \in {"check", "ignore"}
  /\ got.how \in {"none", "ok", "invalid_argument", "checksum_error", "out_of_range"}
  /\ id \subseteq Tags

Reads(s, t) == s.talker = t.talker /\ s.tag = t.tag /\ s.fields = t.fields

\* A line that arrives as its writer wrote it, by to_string without a tag block
\* or by another program with or without one, is read as the sentence written.
UndamagedReadBack ==
  (stage = "read" /\ line = ForeignString(object)) =>
    got.how = "ok" /\ Reads(got.sentence, object) /\ got.sentence.block = object.block

\* With the checksum checked, one character lost, added or replaced anywhere in
\* such a line (in the tag block, in a token, in the checksum itself) never makes
\* make_sentence return another sentence: the line is refused, or talker, tag and
\* fields are the ones written.  (Of a line that to_string wrote with a tag block
\* it is not true: the line is refused as it is, and may be accepted damaged.)
\* Except that a delimiter in the place of a first digit of zero ends one field
\* more, an empty one, the other digit being the checksum (detail.cpp:43).
OneFieldMore(s) == [s EXCEPT !.fields = Append(@, <<>>)]

DamageDetected ==
  (stage = "read" /\ handling = "check" /\ got.how = "ok" /\ sent = ForeignString(object))
    => \/ Reads(got.sentence, object)
       \/ /\ line \in {ReplaceAt(sent, Len(sent) - 1, d) : d \in Delimiters}
          /\ Reads(got.sentence, OneFieldMore(object))

\* Whatever line make_sentence accepts, damaged or with its checksum ignored:
\* extract_id finds the same identifier in it, if any, and written again without
\* its tag block, it is read as the same sentence (nmea.cpp:make_sentence,
\* extract_id, sentence.cpp:to_string).
AcceptedAgrees ==
  (stage = "read" /\ got.how = "ok") =>
    LET plain == [got.sentence EXCEPT !.block = <<>>]
    IN /\ id # {} => id = {plain.tag}
       /\ MakeSentence(Written(plain), "check") = [how |-> "ok", sentence |-> plain]
=============================================================================
