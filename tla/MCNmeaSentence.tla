--------------------------- MODULE MCNmeaSentence ---------------------------
(***************************************************************************)
(* Characters of four bits and digits of two; a talker is one character,   *)
(* a tag one, but for a vendor's.                                          *)
(***************************************************************************)
EXTENDS NmeaSentence

MCAlphabet == <<"$", "!", "\\", ",", "*", "0", "1", "2", "3", "-", "T", "M", "Q", "P", "x">>
MCCode ==
  LET number == [c \in ToSet(MCAlphabet) |-> CHOOSE n \in 1..15 : MCAlphabet[n] = c]
  IN [c \in ToSet(MCAlphabet) |-> [i \in 1..4 |-> (number[c] \div 2^(4 - i)) % 2]]
MCDigits == <<"0", "1", "2", "3">>
MCDigitValue ==
  [d \in ToSet(MCDigits) \cup {"x"} |-> IF d = "x" THEN 3 ELSE CHOOSE i \in 0..3 : MCDigits[i + 1] = d]
MCTags == {<<"M">>, <<"Q">>, <<"P", "M">>}
MCAisTags == {<<"Q">>}
MCFieldCount(tag) == IF tag = <<"Q">> THEN {1} ELSE 1..2
MCTalkers == {<<"T">>}
MCTexts == {<<>>, <<"x">>, <<"T">>}
MCBlocks == {<<>>, <<"x">>, <<"M", "*", "1">>}
=============================================================================
