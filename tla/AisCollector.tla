---------------------------- MODULE AisCollector ----------------------------
(***************************************************************************)
(* process() of nmeatool: reads lines, dumps NMEA sentences at once, and   *)
(* collects the fragments of an AIS message until the last one arrives.    *)
(* One action is one turn of its loop.                                     *)
(*                                                                         *)
(* Of a VDM or VDO sentence the collector looks at the identifier id, the *)
(* number n of fragments and the fragment number k.  msg is the message it *)
(* was cut from, which the sentence does not say.                          *)
(***************************************************************************)
EXTENDS Integers, Sequences

CONSTANTS
  Fragments  \* the VDM and VDO sentences that may arrive

ASSUME FragmentsAssumption ==
  \A f \in Fragments : f.id \in {"VDM", "VDO"} /\ f.n \in Nat /\ f.k \in Nat

VARIABLES
  sentences,  \* the collection
  result,     \* minus the number of errors
  dumped,     \* collection given to dump_ais in the last turn, <<>> if none
  running     \* the loop goes on

collectorVars == <<sentences, result, dumped, running>>

CollectorInit ==
  /\ sentences = <<>>
  /\ result = 0
  /\ dumped = <<>>
  /\ running = TRUE

\* A blank line, a comment, or a line that is no sentence.
IgnoreLine ==
  /\ running
  /\ dumped' = <<>>
  /\ UNCHANGED <<sentences, result, running>>

\* A '$' line: dump_nmea returns 0 or -1.
NmeaLine ==
  /\ running
  /\ \E r \in {0, -1} : result' = result + r
  /\ dumped' = <<>>
  /\ UNCHANGED <<sentences, running>>

\* A '$' line with a field that cannot be converted: dump_nmea catches only what
\* make_sentence throws for a malformed or unknown sentence.
MalformedFieldLine ==
  /\ running
  /\ running' = FALSE
  /\ dumped' = <<>>
  /\ UNCHANGED <<sentences, result>>

\* A '!' line that make_sentence refuses: nothing catches the exception.
InvalidAisLine ==
  /\ running
  /\ running' = FALSE
  /\ dumped' = <<>>
  /\ UNCHANGED <<sentences, result>>

\* A '!' line with a sentence that carries no AIS payload.
OtherAisLine ==
  /\ running
  /\ sentences' = <<>>
  /\ result' = result - 1
  /\ dumped' = <<>>
  /\ UNCHANGED running

\* Mutant of Kept: a repeated fragment number is not a discontinuation.
KeptRepeats(f) ==
  LET same == IF sentences # <<>> /\ sentences[Len(sentences)].id # f.id
                THEN <<>> ELSE sentences
  IN IF Len(same) > f.k THEN <<>> ELSE same

\* Mutant of Kept: the fragment number is taken for an index.
KeptEarly(f) ==
  LET same == IF sentences # <<>> /\ sentences[Len(sentences)].id # f.id
                THEN <<>> ELSE sentences
  IN IF Len(same) >= f.k - 1 THEN <<>> ELSE same

\* Mutant of Kept: on a discontinuation only the latest sentence is dropped.
KeptButLast(f) ==
  LET same == IF sentences # <<>> /\ sentences[Len(sentences)].id # f.id
                THEN <<>> ELSE sentences
  IN IF Len(same) >= f.k /\ same # <<>> THEN SubSeq(same, 1, Len(same) - 1) ELSE same

\* What stays in the collection when the fragment f arrives.
Kept(f) ==
  LET same == IF sentences # <<>> /\ sentences[Len(sentences)].id # f.id
                THEN <<>> ELSE sentences
  IN IF Len(same) >= f.k THEN <<>> ELSE same

\* A VDM or VDO sentence.  dump_ais returns 0 or -1 and catches everything.
Fragment(f) ==
  /\ running
  /\ LET collection == Append(Kept(f), f) IN
       IF f.k = f.n
         THEN /\ dumped' = collection
              /\ sentences' = <<>>
              /\ \E r \in {0, -1} : result' = result + r
         ELSE /\ dumped' = <<>>
              /\ sentences' = collection
              /\ UNCHANGED result
  /\ UNCHANGED running

\* End of input.
EndOfInput ==
  /\ running
  /\ running' = FALSE
  /\ dumped' = <<>>
  /\ UNCHANGED <<sentences, result>>

CollectorNext ==
  \/ IgnoreLine
  \/ NmeaLine
  \/ MalformedFieldLine
  \/ InvalidAisLine
  \/ OtherAisLine
  \/ \E f \in Fragments : Fragment(f)
  \/ EndOfInput

CollectorSpec == CollectorInit /\ [][CollectorNext]_collectorVars

-----------------------------------------------------------------------------
\* Type correctness; result never becomes positive.
CollectorTypeOK ==
  /\ sentences \in Seq(Fragments)
  /\ result \in Int /\ result <= 0
  /\ dumped \in Seq(Fragments)
  /\ running \in BOOLEAN

\* The place i is not behind the fragment number of the i-th sentence; a fragment
\* 0, which the protocol does not have, is taken for a first one.
WithinNumber(s, i) == i <= s[i].k \/ (i = 1 /\ s[i].k = 0)

\* How large the collection gets, whatever fragments arrive: it is of one
\* identifier, none of its sentences is the last of its message, and none
\* stands behind the place its number gives it.  So there are never more than
\* the last one's number; which numbers they have is not said.
CollectionBounded ==
  \A i \in 1..Len(sentences) :
    /\ sentences[i].id = sentences[Len(sentences)].id
    /\ WithinNumber(sentences, i)
    /\ sentences[i].k # sentences[i].n

\* What dump_ais gets is of one identifier, no more sentences than the last one
\* announces, and only that one is the last of its message.
DumpedBounded ==
  dumped # <<>> =>
    LET last == dumped[Len(dumped)] IN
    /\ last.k = last.n
    /\ Len(dumped) <= last.n \/ (Len(dumped) = 1 /\ last.n = 0)
    /\ \A i \in 1..Len(dumped) : dumped[i].id = last.id /\ WithinNumber(dumped, i)
    /\ \A i \in 1..(Len(dumped) - 1) : dumped[i].k # dumped[i].n
=============================================================================
