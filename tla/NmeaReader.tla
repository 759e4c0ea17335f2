----------------------------- MODULE NmeaReader -----------------------------
(***************************************************************************)
(* marnav::io::nmea_reader: collects the printable characters of a line    *)
(* and hands them to process_sentence at its end.  One action is one call  *)
(* of a public member function.  Characters are printable ones (members of *)
(* Printable), "CR", "LF", and "invalid" for everything below 32 or above  *)
(* 126.  process_sentence may return or throw (CallbackOutcome).           *)
(***************************************************************************)
EXTENDS Naturals, Sequences

CONSTANTS
  Printable,       \* printable characters
  MAX_LENGTH,      \* nmea::sentence::max_length
  CallbackOutcome  \* how process_sentence may end

ASSUME LengthAssumption == MAX_LENGTH \in Nat
ASSUME PrintableAssumption == Printable \cap {"CR", "LF", "invalid"} = {}
ASSUME CallbackAssumption ==
  CallbackOutcome \subseteq {"true", "callback_error"} /\ "true" \in CallbackOutcome

VARIABLES
  dev,       \* dev_ holds a device
  sentence,  \* sentence_
  emitted,   \* sentences process_sentence got during the last call: none or one
  outcome    \* how the last call ended

vars == <<dev, sentence, emitted, outcome>>

Character == Printable \cup {"CR", "LF", "invalid"}
Outcomes == {"none", "true", "false", "callback_error", "length_error",
             "read_error", "device_invalid"}

Init ==
  /\ dev \in BOOLEAN
  /\ sentence = <<>>
  /\ emitted = <<>>
  /\ outcome = "none"

Ends(how, out) == outcome' = how /\ emitted' = out

\* Mutant of EndOfLine: the buffer is not cleared.
EndOfLineKeeps ==
  \E how \in CallbackOutcome :
    /\ Ends(how, <<sentence>>)
    /\ UNCHANGED sentence

\* The buffer is cleared after the callback, so not when the callback throws.
EndOfLine ==
  \E how \in CallbackOutcome :
    /\ Ends(how, <<sentence>>)
    /\ sentence' = IF how = "true" THEN <<>> ELSE sentence

\* Mutant of Collect: the check is one character late.
CollectLate(raw) ==
  IF Len(sentence) > MAX_LENGTH + 1
    THEN Ends("length_error", <<>>) /\ UNCHANGED sentence
    ELSE Ends("true", <<>>) /\ sentence' = Append(sentence, raw)

Collect(raw) ==
  IF Len(sentence) > MAX_LENGTH
    THEN Ends("length_error", <<>>) /\ UNCHANGED sentence
    ELSE Ends("true", <<>>) /\ sentence' = Append(sentence, raw)

ReadCharacter(raw) ==
  /\ dev
  /\ \/ raw \in {"CR", "invalid"} /\ Ends("true", <<>>) /\ UNCHANGED sentence
     \/ raw = "LF" /\ EndOfLine
     \/ raw \in Printable /\ Collect(raw)
  /\ UNCHANGED dev

\* read() when no character is delivered: end of file, an error of the device,
\* or no device at all.
ReadNothing(how) ==
  /\ \/ dev /\ how \in {"false", "read_error"}
     \/ ~dev /\ how = "device_invalid"
  /\ Ends(how, <<>>)
  /\ UNCHANGED <<dev, sentence>>

Close ==
  /\ dev' = FALSE
  /\ Ends("none", <<>>)
  /\ UNCHANGED sentence

Next ==
  \/ \E raw \in Character : ReadCharacter(raw)
  \/ \E how \in Outcomes : ReadNothing(how)
  \/ Close

Spec == Init /\ [][Next]_vars

-----------------------------------------------------------------------------
\* Type correctness; the buffer never exceeds the capacity reserved for it.
TypeOK ==
  /\ dev \in BOOLEAN
  /\ sentence \in Seq(Printable)
  /\ Len(sentence) <= MAX_LENGTH + 1
  /\ outcome \in Outcomes
  /\ emitted = <<>> \/ Len(emitted) = 1
=============================================================================
