---------------------------- MODULE NmeaTagBlock ----------------------------
(***************************************************************************)
(* The contents of a tag block (tag_block.cpp): a group, three numbers and *)
(* three texts.  In a line a field is a key and a text; fields are not at  *)
(* fixed places, and only valid members are written.  "0" names any value  *)
(* that is not valid, "long" any text of more than 15 characters.          *)
(***************************************************************************)
EXTENDS NmeaFields, SequencesExt

\* in the order of to_string
Keys == <<"g", "n", "r", "c", "d", "s", "t">>
IndexOf(key) == SelectInSeq(Keys, LAMBDA other : other = key)
IsText(k) == k > 4

\* what extract_group, extract_int and std::stoll make of a text; a group lacks a
\* part, a number begins with a letter or is followed by one
GroupOf == [t \in {"1-2-3", "0", "1-2"} |-> IF t = "1-2" THEN Refuse ELSE t]
NumberOf == [t \in {"0", "1", "1x", "x"} |->
               CASE t = "x" -> Refuse [] t = "1x" -> "1" [] OTHER -> t]

\* extract_string and the setters of texts take 15 characters
Cut(t) == IF t = "long" THEN "15" ELSE t
TextOf == [t \in {"a", "b", "long", "15"} |-> Cut(t)]

Kept(k) == CASE k = 1 -> GroupOf [] IsText(k) -> TextOf [] OTHER -> NumberOf

Members ==
    LET member(S, v) == Args({}, Member(Type(S, {}), v))
        number == member({"0", "1"}, "0")
        text == member({"", "a", "b", "15", "a,s:b", "a*b"}, "")
    IN  <<member({"0", "1-2-3"}, "0"), number, number, number, text, text, text>>

\* nothing of it is written or read by the place of a field
TagBlock == Layout({}, Members)

\* what a setter makes of its argument
SetterArgs(k) ==
    CASE k = 1 -> {"0", "1-2-3"}
      [] IsText(k) -> {"", "a", "long", "a,s:b", "a*b"}
      [] OTHER -> {"0", "1"}

-----------------------------------------------------------------------------
Valid(k, v) == v # IF IsText(k) THEN "" ELSE "0"

\* A delimiter in a text ends its field, as a '*' does the fields.
FieldsOf(k, v) ==
    CASE v = "a,s:b" -> <<<<Keys[k], "a">>, <<"s", "b">>>>
      [] v = "a*b" -> <<<<Keys[k], "a">>, <<"*", "b">>>>
      [] OTHER -> <<<<Keys[k], v>>>>

\* to_string
WrittenBlock(o) ==
    FlattenSeq([k \in 1..7 |-> IF Valid(k, o[k]) THEN FieldsOf(k, o[k]) ELSE <<>>])

\* One field more; without a text it is skipped, whatever its key.  (A second '*'
\* has been refused before, with the checksum.)
ReadField(o, f) ==
    LET k == IndexOf(f[1])
        refused == f[1] = "*" \/ (f[2] # "" /\ (k = 0 \/ Kept(k)[f[2]] = Refuse))
    IN  IF o = NoObject \/ refused THEN NoObject
        ELSE IF f[2] = "" THEN o ELSE [o EXCEPT ![k] = Kept(k)[f[2]]]

\* the constructor; an empty text is refused
ReadBlock(fields) ==
    IF fields = <<>> THEN NoObject
    ELSE FoldLeft(ReadField, Initial(TagBlock), fields)
=============================================================================
