-------------------------- MODULE AisTransportProofs -------------------------
(***************************************************************************)
(* AIS messages on their way.  First AisCollector, for any set of          *)
(* fragments: with any numbers, any identifiers, and as many of them as    *)
(* one likes; and AisLink, for any number of talkers, with messages of any *)
(* number of fragments, lost or mixed in any way.                          *)
(*                                                                         *)
(* Then the invariants of AisMessages for all messages the setters can     *)
(* make and all lengths to which other encoders may shorten them: what     *)
(* get_data writes, bit by bit; encode_message and collect, which undo     *)
(* each other; what the constructors read of it.                           *)
(***************************************************************************)
EXTENDS AisLink, AisMessages, RecursionFacts

\* c is a collection of the identifier of its last sentence f, with no more
\* sentences than f says, none behind the place its number gives it, and none of
\* them but f the last of its message.
CollectedUpTo(c, f) ==
  /\ c \in Seq(Fragments)
  /\ c # <<>>
  /\ c[Len(c)] = f
  /\ Len(c) <= f.k \/ (Len(c) = 1 /\ f.k = 0)
  /\ \A i \in 1..Len(c) : c[i].id = f.id /\ WithinNumber(c, i)
  /\ \A i \in 1..(Len(c) - 1) : c[i].k # c[i].n

\* What process() leaves of a bounded collection when the fragment f arrives is,
\* with f appended, a collection up to f.
LEMMA KeptBounded ==
  ASSUME CollectorTypeOK, CollectionBounded, NEW f \in Fragments,
         NEW c, c = Append(Kept(f), f)
  PROVE  CollectedUpTo(c, f)
<1> USE FragmentsAssumption DEF CollectedUpTo
<1>1. CASE Kept(f) = <<>>
  <2>1. c = <<f>>
    BY <1>1
  <2>2. Len(c) = 1 /\ c[1] = f /\ c \in Seq(Fragments)
    BY <2>1
  <2>3. f.k >= 1 \/ f.k = 0
    OBVIOUS
  <2> QED
    BY <2>1, <2>2, <2>3 DEF WithinNumber
<1>2. CASE Kept(f) # <<>>
  <2>1. /\ Kept(f) = sentences
        /\ Len(sentences) < f.k
        /\ sentences[Len(sentences)].id = f.id
    BY <1>2 DEF Kept, CollectorTypeOK
  <2>2. /\ sentences \in Seq(Fragments)
        /\ Len(sentences) \in Nat
        /\ Len(sentences) # 0
    BY <1>2, <2>1 DEF CollectorTypeOK
  <2>3. /\ c \in Seq(Fragments)
        /\ Len(c) = Len(sentences) + 1
        /\ c[Len(c)] = f
        /\ \A i \in 1..Len(sentences) : c[i] = sentences[i]
    BY <2>1, <2>2
  <2>4. Len(c) <= f.k
    BY <2>1, <2>2, <2>3
  <2>5. ASSUME NEW i \in 1..Len(c) PROVE c[i].id = f.id /\ WithinNumber(c, i)
    <3>1. CASE i \in 1..Len(sentences)
      BY <2>1, <2>3, <3>1 DEF CollectionBounded, WithinNumber
    <3>2. CASE i = Len(c)
      BY <2>3, <2>4, <3>2 DEF WithinNumber
    <3> QED
      BY <2>2, <2>3, <3>1, <3>2
  <2>6. ASSUME NEW i \in 1..(Len(c) - 1) PROVE c[i].k # c[i].n
    BY <2>2, <2>3 DEF CollectionBounded
  <2> QED
    BY <2>2, <2>3, <2>4, <2>5, <2>6
<1> QED
  BY <1>1, <1>2

\* Type correctness.
THEOREM TypeCorrect == CollectorSpec => []CollectorTypeOK
<1>1. CollectorInit => CollectorTypeOK
  BY DEF CollectorInit, CollectorTypeOK
<1>2. CollectorTypeOK /\ [CollectorNext]_collectorVars => CollectorTypeOK'
  <2> SUFFICES ASSUME CollectorTypeOK, [CollectorNext]_collectorVars PROVE CollectorTypeOK'
    OBVIOUS
  <2> USE DEF CollectorTypeOK
  <2>0. <<>> \in Seq(Fragments)
    OBVIOUS
  <2>1. CASE IgnoreLine
    BY <2>0, <2>1 DEF IgnoreLine
  <2>2. CASE NmeaLine
    BY <2>0, <2>2 DEF NmeaLine
  <2>3. CASE MalformedFieldLine
    BY <2>0, <2>3 DEF MalformedFieldLine
  <2>4. CASE InvalidAisLine
    BY <2>0, <2>4 DEF InvalidAisLine
  <2>5. CASE OtherAisLine
    BY <2>0, <2>5 DEF OtherAisLine
  <2>6. ASSUME NEW f \in Fragments, Fragment(f) PROVE CollectorTypeOK'
    <3>1. Kept(f) \in Seq(Fragments)
      BY DEF Kept
    <3>2. Append(Kept(f), f) \in Seq(Fragments)
      BY <3>1
    <3>3. running' = running
      BY <2>6 DEF Fragment
    <3>4. CASE f.k = f.n
      <4>1. /\ dumped' = Append(Kept(f), f)
            /\ sentences' = <<>>
            /\ \E r \in {0, -1} : result' = result + r
        BY <2>6, <3>4 DEF Fragment
      <4> QED
        BY <2>0, <3>2, <3>3, <4>1
    <3>5. CASE f.k # f.n
      <4>1. /\ dumped' = <<>>
            /\ sentences' = Append(Kept(f), f)
            /\ result' = result
        BY <2>6, <3>5 DEF Fragment
      <4> QED
        BY <2>0, <3>2, <3>3, <4>1
    <3> QED
      BY <3>4, <3>5
  <2>7. CASE EndOfInput
    BY <2>0, <2>7 DEF EndOfInput
  <2>8. CASE UNCHANGED collectorVars
    BY <2>8 DEF collectorVars
  <2> QED
    BY <2>1, <2>2, <2>3, <2>4, <2>5, <2>6, <2>7, <2>8 DEF CollectorNext
<1> QED
  BY <1>1, <1>2, PTL DEF CollectorSpec

\* A step keeps the bounds of the collection and of what it dumps.
LEMMA StepBounded ==
  ASSUME CollectorTypeOK, CollectionBounded, DumpedBounded, [CollectorNext]_collectorVars
  PROVE  CollectionBounded' /\ DumpedBounded'
<1>1. CASE dumped' = <<>> /\ sentences' = sentences
  BY <1>1 DEF CollectionBounded, WithinNumber, DumpedBounded
<1>2. CASE dumped' = <<>> /\ sentences' = <<>>
  BY <1>2 DEF CollectionBounded, DumpedBounded
<1>3. ASSUME NEW f \in Fragments, Fragment(f)
      PROVE  CollectionBounded' /\ DumpedBounded'
  <2>0. PICK c : c = Append(Kept(f), f)
    OBVIOUS
  <2>1. CollectedUpTo(c, f)
    BY <2>0, KeptBounded
  <2> USE DEF CollectedUpTo
  <2>2. CASE f.k = f.n
    <3>1. dumped' = c /\ sentences' = <<>>
      BY <1>3, <2>0, <2>2 DEF Fragment
    <3>2. DumpedBounded'
      BY <2>1, <2>2, <3>1 DEF DumpedBounded, WithinNumber
    <3> QED
      BY <3>1, <3>2 DEF CollectionBounded
  <2>3. CASE f.k # f.n
    <3>1. dumped' = <<>> /\ sentences' = c
      BY <1>3, <2>0, <2>3 DEF Fragment
    <3>2. ASSUME NEW i \in 1..Len(c) PROVE c[i].k # c[i].n
      BY <2>1, <2>3
    <3>3. CollectionBounded'
      BY <2>1, <3>1, <3>2 DEF CollectionBounded, WithinNumber
    <3> QED
      BY <3>1, <3>3 DEF DumpedBounded
  <2> QED
    BY <2>2, <2>3
<1>4. CASE UNCHANGED collectorVars
  BY <1>4 DEF collectorVars, CollectionBounded, WithinNumber, DumpedBounded
<1> QED
  BY <1>1, <1>2, <1>3, <1>4
  DEF CollectorNext, IgnoreLine, NmeaLine, MalformedFieldLine, InvalidAisLine, OtherAisLine, EndOfInput

\* Whatever fragments arrive, in whatever order: the collection of process() and
\* what dump_ais gets are of one identifier, never hold more sentences than the
\* number of their last one, and no last fragment but at the end.  Which numbers
\* the sentences have, and that none is missing, is not claimed.
THEOREM Bounded == CollectorSpec => [](CollectionBounded /\ DumpedBounded)
<1>1. CollectorInit => CollectionBounded /\ DumpedBounded
  BY DEF CollectorInit, CollectionBounded, DumpedBounded
<1>2. CollectorTypeOK /\ CollectionBounded /\ DumpedBounded /\ [CollectorNext]_collectorVars
        => CollectionBounded' /\ DumpedBounded'
  BY StepBounded
<1> QED
  BY <1>1, <1>2, TypeCorrect, PTL DEF CollectorSpec

-----------------------------------------------------------------------------

\* The types of what the talkers keep: nobody sends more than its message has.
LinkTypeOK ==
  /\ length \in [Talkers -> Nat]
  /\ sent \in [Talkers -> Nat]
  /\ number \in [Talkers -> {0, 1}]
  /\ clean \in [Talkers -> BOOLEAN]
  /\ \A t \in Talkers : sent[t] <= length[t] /\ length[t] <= MaxFragments[t]
  /\ missed \in [Talkers -> SUBSET Nat]
  /\ \A t \in Talkers : missed[t] \subseteq 1..sent[t]

\* As long as the line was orderly one message comes at a time, intact.
OneIntact ==
  orderly => \A t \in Talkers : ~Idle(t) => clean[t] /\ \A u \in Talkers \ {t} : Idle(u)

LinkInv == LinkTypeOK /\ IntactCollected /\ OneIntact

-----------------------------------------------------------------------------
\* The talkers' variables stay typed.
LEMMA LinkTyped == LinkSpec => []LinkTypeOK
<1>1. LinkInit => LinkTypeOK
  BY LinkAssumption DEF LinkInit, LinkTypeOK
<1>2. LinkTypeOK /\ [LinkNext]_allVars => LinkTypeOK'
  <2> SUFFICES ASSUME LinkTypeOK, [LinkNext]_allVars PROVE LinkTypeOK'
    OBVIOUS
  <2> USE DEF LinkTypeOK
  <2>1. ASSUME NEW t \in Talkers, NEW n \in 1..MaxFragments[t], Begin(t, n)
        PROVE  LinkTypeOK'
    BY <2>1, LinkAssumption DEF Begin
  <2>2. ASSUME NEW t \in Talkers, ~Idle(t), sent' = [sent EXCEPT ![t] = @ + 1],
               UNCHANGED <<length, number>>, clean' \in [Talkers -> BOOLEAN],
               NEW lost \in SUBSET {sent[t] + 1},
               missed' = [missed EXCEPT ![t] = @ \cup lost]
        PROVE  LinkTypeOK'
    <3>0. sent[t] \in Nat /\ length[t] \in Nat /\ sent[t] <= length[t] /\ sent[t] # length[t]
      BY <2>2 DEF Idle
    <3>1. sent[t] + 1 <= length[t] /\ sent[t] + 1 \in Nat
      BY <3>0
    <3>2. \A u \in Talkers : sent'[u] = IF u = t THEN sent[t] + 1 ELSE sent[u]
      BY <2>2
    <3>3. missed[t] \cup lost \subseteq 1..(sent[t] + 1)
      <4>1. missed[t] \subseteq 1..sent[t]
        OBVIOUS
      <4>2. 1..sent[t] \subseteq 1..(sent[t] + 1) /\ sent[t] + 1 \in 1..(sent[t] + 1)
        BY <3>0
      <4>3. lost \subseteq {sent[t] + 1}
        OBVIOUS
      <4> QED
        BY <4>1, <4>2, <4>3
    <3>4. \A u \in Talkers : missed'[u] = IF u = t THEN missed[t] \cup lost ELSE missed[u]
      BY <2>2
    <3>5. missed' \in [Talkers -> SUBSET Nat] /\ \A u \in Talkers : missed'[u] \subseteq 1..sent'[u]
      BY <2>2, <3>0, <3>2, <3>3, <3>4
    <3>6. sent' \in [Talkers -> Nat] /\ \A u \in Talkers : sent'[u] <= length[u] /\ length[u] <= MaxFragments[u]
      BY <2>2, <3>1, <3>2
    <3> QED
      BY <2>2, <3>5, <3>6
  <2>3. CASE UNCHANGED <<length, sent, number, missed>> /\ clean' \in [Talkers -> BOOLEAN]
    BY <2>3
  <2>4. ASSUME NEW t \in Talkers, Deliver(t) PROVE LinkTypeOK'
    <3>1. /\ clean' \in [Talkers -> BOOLEAN]
          /\ missed' = [missed EXCEPT ![t] = @ \cup {}]
          /\ ~Idle(t) /\ sent' = [sent EXCEPT ![t] = @ + 1] /\ UNCHANGED <<length, number>>
      BY <2>4 DEF Deliver
    <3> QED
      BY <2>2, <3>1
  <2>5. ASSUME NEW t \in Talkers, Lose(t) PROVE LinkTypeOK'
    <3>1. /\ clean' \in [Talkers -> BOOLEAN]
          /\ missed' = [missed EXCEPT ![t] = @ \cup {sent[t] + 1}]
          /\ ~Idle(t) /\ sent' = [sent EXCEPT ![t] = @ + 1] /\ UNCHANGED <<length, number>>
      BY <2>5 DEF Lose
    <3> QED
      BY <2>2, <3>1
  <2>6. CASE Disturb
    <3>1. clean' \in [Talkers -> BOOLEAN]
      BY <2>6 DEF Disturb
    <3> QED
      BY <2>3, <2>6, <3>1 DEF Disturb
  <2>7. CASE UNCHANGED linkVars
    BY <2>3, <2>7 DEF linkVars
  <2> QED
    BY <2>1, <2>4, <2>5, <2>6, <2>7 DEF LinkNext, OtherLine, allVars
<1> QED
  BY <1>1, <1>2, PTL DEF LinkSpec

\* The next fragment of a talker is one the collector may get.
LEMMA NextIsFragment ==
  ASSUME LinkTypeOK, NEW t \in Talkers, ~Idle(t)
  PROVE  /\ FragmentOf(t, length[t], sent[t] + 1, number[t]) \in Fragments
         /\ \A i \in 1..sent[t] : FragmentOf(t, length[t], i, number[t]) \in Fragments
<1>0. /\ sent[t] \in Nat /\ length[t] \in Nat /\ MaxFragments[t] \in Nat
      /\ sent[t] <= length[t] /\ length[t] <= MaxFragments[t] /\ sent[t] # length[t]
      /\ number[t] \in {0, 1}
  BY LinkAssumption DEF LinkTypeOK, Idle
<1>1. /\ length[t] \in 1..MaxFragments[t]
      /\ sent[t] + 1 \in 1..length[t]
      /\ \A i \in 1..sent[t] : i \in 1..length[t]
      /\ number[t] \in {0, 1}
  BY <1>0
<1> QED
  BY <1>1, LinkAssumption DEF FragmentOf

\* If the collection is the beginning of the talker's message, or the message
\* has not begun, the collector appends its next fragment to nothing else.
LEMMA CollectsNext ==
  ASSUME LinkTypeOK, NEW t \in Talkers, ~Idle(t),
         sent[t] > 0 => sentences = SentOf(t, sent[t]),
         NEW f, f = FragmentOf(t, length[t], sent[t] + 1, number[t])
  PROVE  Append(Kept(f), f) = SentOf(t, sent[t] + 1)
<1>1. /\ f.k = sent[t] + 1
      /\ f.id = Identifier[t]
      /\ sent[t] \in Nat
      /\ f \in Fragments
  BY NextIsFragment DEF FragmentOf, LinkTypeOK
<1>2. CASE sent[t] = 0
  <2>1. Kept(f) = <<>>
    BY <1>1, <1>2 DEF Kept
  <2>2. Append(<<>>, f) = <<f>>
    OBVIOUS
  <2>3. SentOf(t, 1) = <<f>>
    BY <1>1, <1>2 DEF SentOf
  <2> QED
    BY <1>2, <2>1, <2>2, <2>3, sent[t] + 1 = 1
<1>3. CASE sent[t] > 0
  <2>1. sentences = SentOf(t, sent[t])
    BY <1>3
  <2>2. SentOf(t, sent[t]) \in Seq(Fragments) /\ Len(SentOf(t, sent[t])) = sent[t]
    BY <1>1, NextIsFragment DEF SentOf
  <2>3. sentences # <<>> /\ sentences[Len(sentences)].id = f.id
    BY <1>1, <1>3, <2>1, <2>2 DEF SentOf, FragmentOf
  <2>4. Kept(f) = SentOf(t, sent[t])
    BY <1>1, <2>1, <2>2, <2>3 DEF Kept
  <2>5. Append(SentOf(t, sent[t]), f) = SentOf(t, sent[t] + 1)
    BY <1>1, <2>2 DEF SentOf
  <2> QED
    BY <2>4, <2>5
<1> QED
  BY <1>1, <1>2, <1>3

\* What Deliver does to the collector, by whether the fragment is the last.
LEMMA DeliverCollects ==
  ASSUME LinkTypeOK, NEW t \in Talkers, Deliver(t), clean[t], IntactCollected
  PROVE  IF sent[t] + 1 = length[t]
           THEN dumped' = SentOf(t, length[t])
           ELSE sentences' = SentOf(t, sent[t] + 1) /\ dumped' = <<>>
<1>1. PICK f : f = FragmentOf(t, length[t], sent[t] + 1, number[t])
  OBVIOUS
<1>2. ~Idle(t) /\ Fragment(f)
  BY <1>1 DEF Deliver
<1>3. Append(Kept(f), f) = SentOf(t, sent[t] + 1)
  BY <1>1, <1>2, CollectsNext DEF IntactCollected
<1>4. f.k = sent[t] + 1 /\ f.n = length[t]
  BY <1>1 DEF FragmentOf
<1>5. CASE f.k = f.n
  <2>1. dumped' = Append(Kept(f), f)
    BY <1>2, <1>5 DEF Fragment
  <2> QED
    BY <1>3, <1>4, <1>5, <2>1
<1>6. CASE f.k # f.n
  <2>1. dumped' = <<>> /\ sentences' = Append(Kept(f), f)
    BY <1>2, <1>6 DEF Fragment
  <2> QED
    BY <1>3, <1>4, <1>6, <2>1
<1> QED
  BY <1>5, <1>6

\* While a message arrives intact the collection stays its beginning.
LEMMA StepIntact ==
  ASSUME LinkTypeOK, IntactCollected, [LinkNext]_allVars
  PROVE  IntactCollected'
<1>1. ASSUME NEW t \in Talkers, NEW n \in 1..MaxFragments[t], Begin(t, n)
      PROVE  IntactCollected'
  <2>1. sentences' = sentences /\ sent'[t] = 0
    BY <1>1 DEF Begin, collectorVars, LinkTypeOK
  <2>2. ASSUME NEW u \in Talkers, u # t
        PROVE  /\ sent'[u] = sent[u] /\ length'[u] = length[u]
               /\ number'[u] = number[u] /\ clean'[u] = clean[u]
    BY <1>1, <2>2 DEF Begin, LinkTypeOK
  <2> QED
    BY <1>1, <2>1, <2>2 DEF IntactCollected, Idle, SentOf, Begin
<1>2. ASSUME NEW t \in Talkers, Deliver(t)
      PROVE  IntactCollected'
  <2>1. /\ sent' = [sent EXCEPT ![t] = @ + 1]
        /\ clean' = [u \in Talkers |-> clean[u] /\ (u = t \/ Idle(u) \/ sent[u] = 0)]
        /\ length' = length /\ number' = number
    BY <1>2 DEF Deliver
  <2>2. ASSUME NEW u \in Talkers, clean'[u], ~Idle(u)', sent'[u] > 0
        PROVE  sentences' = SentOf(u, sent[u])'
    <3>1. clean[u] /\ (u = t \/ Idle(u) \/ sent[u] = 0)
      BY <2>1, <2>2
    <3>2. u = t
      BY <2>1, <2>2, <3>1 DEF Idle, LinkTypeOK
    <3>3. sent'[t] = sent[t] + 1 /\ sent[t] + 1 # length[t]
      BY <2>1, <2>2, <3>2 DEF Idle, LinkTypeOK
    <3>4. sentences' = SentOf(t, sent[t] + 1)
      BY <1>2, <3>1, <3>2, <3>3, DeliverCollects
    <3> QED
      BY <2>1, <3>2, <3>3, <3>4 DEF SentOf
  <2> QED
    BY <2>2 DEF IntactCollected
<1>3. ASSUME NEW t \in Talkers, Lose(t)
      PROVE  IntactCollected'
  <2>1. /\ sentences' = sentences /\ length' = length /\ number' = number
        /\ sent' = [sent EXCEPT ![t] = @ + 1]
        /\ clean' = [clean EXCEPT ![t] = FALSE]
    BY <1>3 DEF Lose, collectorVars
  <2>2. ~clean'[t] /\ \A u \in Talkers \ {t} : clean'[u] = clean[u] /\ sent'[u] = sent[u]
    BY <2>1 DEF LinkTypeOK
  <2> QED
    BY <2>1, <2>2 DEF IntactCollected, Idle, SentOf
<1>4. CASE OtherLine
  <2>1. sentences' = sentences /\ UNCHANGED linkVars
    BY <1>4 DEF OtherLine, IgnoreLine, NmeaLine, MalformedFieldLine, InvalidAisLine, EndOfInput
  <2> QED
    BY <2>1 DEF IntactCollected, Idle, SentOf, linkVars
<1>5. CASE Disturb
  <2>1. ASSUME NEW t \in Talkers, clean'[t] PROVE ~(sent'[t] > 0)
    <3>1. clean' = [u \in Talkers |-> clean[u] /\ sent[u] = 0] /\ sent' = sent
      BY <1>5 DEF Disturb
    <3>2. sent[t] = 0
      BY <2>1, <3>1
    <3> QED
      BY <3>1, <3>2
  <2> QED
    BY <2>1 DEF IntactCollected
<1>6. CASE UNCHANGED allVars
  BY <1>6 DEF allVars, collectorVars, linkVars, IntactCollected, Idle, SentOf
<1> QED
  BY <1>1, <1>2, <1>3, <1>4, <1>5, <1>6 DEF LinkNext

\* As long as the line stays orderly one intact message comes at a time.
LEMMA StepOneIntact ==
  ASSUME LinkTypeOK, OneIntact, [LinkNext]_allVars
  PROVE  OneIntact'
<1> SUFFICES ASSUME orderly', NEW t \in Talkers, ~Idle(t)'
             PROVE  clean'[t] /\ \A u \in Talkers \ {t} : Idle(u)'
  BY DEF OneIntact
<1>1. ASSUME NEW b \in Talkers, NEW n \in 1..MaxFragments[b], Begin(b, n)
      PROVE  clean'[t] /\ \A u \in Talkers \ {t} : Idle(u)'
  <2>1. \A u \in Talkers : Idle(u)
    BY <1>1 DEF Begin
  <2>2. \A u \in Talkers \ {b} : Idle(u)'
    BY <1>1, <2>1 DEF Begin, Idle, LinkTypeOK
  <2>3. clean'[b]
    BY <1>1 DEF Begin, LinkTypeOK
  <2> QED
    BY <2>2, <2>3
<1>2. ASSUME NEW d \in Talkers, Deliver(d)
      PROVE  clean'[t] /\ \A u \in Talkers \ {t} : Idle(u)'
  <2>1. /\ sent' = [sent EXCEPT ![d] = @ + 1]
        /\ clean' = [u \in Talkers |-> clean[u] /\ (u = d \/ Idle(u) \/ sent[u] = 0)]
        /\ length' = length /\ orderly' = orderly /\ ~Idle(d)
    BY <1>2 DEF Deliver
  <2>2. clean[d] /\ \A u \in Talkers \ {d} : Idle(u)
    BY <2>1 DEF OneIntact
  <2>3. \A u \in Talkers \ {d} : Idle(u)'
    BY <2>1, <2>2 DEF Idle, LinkTypeOK
  <2>4. clean'[d]
    BY <2>1, <2>2
  <2> QED
    BY <2>3, <2>4
<1>3. CASE Disturb
  <2>1. /\ \A u \in Talkers : Idle(u) \/ sent[u] = 0
        /\ clean' = [u \in Talkers |-> clean[u] /\ sent[u] = 0]
        /\ orderly /\ length' = length /\ sent' = sent
    BY <1>3 DEF Disturb
  <2>2. ~Idle(t) /\ \A u \in Talkers \ {t} : Idle(u)' = Idle(u)
    BY <2>1 DEF Idle
  <2>3. clean[t] /\ sent[t] = 0 /\ \A u \in Talkers \ {t} : Idle(u)
    BY <2>1, <2>2 DEF OneIntact
  <2> QED
    BY <2>1, <2>2, <2>3
<1>4. ASSUME NEW l \in Talkers, Lose(l) PROVE FALSE
  BY <1>4 DEF Lose
<1>5. CASE UNCHANGED <<length, sent, clean, orderly>>
  BY <1>5 DEF OneIntact, Idle
<1> QED
  BY <1>1, <1>2, <1>3, <1>4, <1>5 DEF LinkNext, OtherLine, linkVars, allVars

\* The three parts of the invariant hold of every behaviour of the link.
LEMMA LinkInvariant == LinkSpec => []LinkInv
<1>1. LinkInit => IntactCollected /\ OneIntact
  BY DEF LinkInit, IntactCollected, OneIntact
<1>2. LinkInv /\ [LinkNext]_allVars => (IntactCollected /\ OneIntact)'
  BY StepIntact, StepOneIntact DEF LinkInv
<1> QED
  BY <1>1, <1>2, LinkTyped, PTL DEF LinkSpec, LinkInv

-----------------------------------------------------------------------------
\* While the fragments of a message arrive one after the other, what process()
\* has collected is the beginning of that message and nothing else, whatever was
\* lost, interrupted or mixed up before.
THEOREM LinkIntactCollected == LinkSpec => []IntactCollected
BY LinkInvariant, PTL DEF LinkInv

\* A message whose fragments arrive one after the other is given to dump_ais
\* when the last one does: all of it and nothing else.
THEOREM LinkIntactMessageDumped == LinkSpec => IntactMessageDumped
<1>1. ASSUME LinkInv, [LinkNext]_allVars, NEW t \in Talkers,
             clean[t], ~Idle(t), sent'[t] = length[t], clean'[t]
      PROVE  dumped' = SentOf(t, length[t])
  <2>1. sent'[t] # sent[t] /\ sent[t] < length[t]
    BY <1>1 DEF LinkInv, LinkTypeOK, Idle
  <2>2. ASSUME NEW b \in Talkers, NEW n \in 1..MaxFragments[b], Begin(b, n) PROVE FALSE
    <3>1. sent' = [sent EXCEPT ![b] = 0]
      BY <2>2 DEF Begin
    <3> QED
      BY <1>1, <2>1, <3>1 DEF LinkInv, LinkTypeOK
  <2>3. ASSUME NEW l \in Talkers, Lose(l) PROVE FALSE
    <3>1. sent' = [sent EXCEPT ![l] = @ + 1] /\ clean' = [clean EXCEPT ![l] = FALSE]
      BY <2>3 DEF Lose
    <3> QED
      BY <1>1, <2>1, <3>1 DEF LinkInv, LinkTypeOK
  <2>4. ASSUME NEW d \in Talkers, Deliver(d) PROVE dumped' = SentOf(t, length[t])
    <3>1. sent' = [sent EXCEPT ![d] = @ + 1]
      BY <2>4 DEF Deliver
    <3>2. d = t /\ sent[t] + 1 = length[t]
      BY <1>1, <2>1, <3>1 DEF LinkInv, LinkTypeOK
    <3> QED
      BY <1>1, <2>4, <3>2, DeliverCollects DEF LinkInv
  <2> QED
    BY <1>1, <2>1, <2>2, <2>3, <2>4
    DEF LinkNext, OtherLine, Disturb, linkVars, allVars
<1>2. LinkInv /\ [LinkNext]_allVars =>
        [\A t \in Talkers :
           clean[t] /\ ~Idle(t) /\ sent'[t] = length[t] /\ clean'[t] =>
             dumped' = SentOf(t, length[t])]_allVars
  BY <1>1
<1> QED
  BY <1>2, LinkInvariant, PTL DEF LinkSpec, IntactMessageDumped

\* As long as nothing is lost and one message comes at a time, everything that
\* dump_ais gets is one complete message.
THEOREM LinkOrderlyDumpedComplete == LinkSpec => []OrderlyDumpedComplete
<1>1. LinkInit => OrderlyDumpedComplete
  BY DEF LinkInit, CollectorInit, OrderlyDumpedComplete, DumpedComplete
<1>2. LinkInv /\ OrderlyDumpedComplete /\ [LinkNext]_allVars => OrderlyDumpedComplete'
  <2> SUFFICES ASSUME LinkInv, OrderlyDumpedComplete, [LinkNext]_allVars, orderly'
               PROVE  DumpedComplete'
    BY DEF OrderlyDumpedComplete
  <2>1. CASE dumped' = dumped /\ orderly
    BY <2>1 DEF OrderlyDumpedComplete, DumpedComplete
  <2>2. CASE dumped' = <<>>
    BY <2>2 DEF DumpedComplete
  <2>3. ASSUME NEW t \in Talkers, Deliver(t) PROVE DumpedComplete'
    <3>1. ~Idle(t) /\ orderly
      BY <2>3 DEF Deliver
    <3>2. clean[t] /\ length[t] \in Nat /\ length[t] > 0
      BY <3>1 DEF LinkInv, OneIntact, LinkTypeOK, Idle
    <3>3. dumped' = SentOf(t, length[t]) \/ dumped' = <<>>
      BY <2>3, <3>2, DeliverCollects DEF LinkInv
    <3> QED
      BY <2>2, <3>2, <3>3 DEF SentOf, FragmentOf, DumpedComplete
  <2>4. ASSUME NEW l \in Talkers, Lose(l) PROVE FALSE
    BY <2>4 DEF Lose
  <2>5. ASSUME NEW b \in Talkers, NEW n \in 1..MaxFragments[b], Begin(b, n)
        PROVE  dumped' = dumped /\ orderly
    BY <2>5 DEF Begin, collectorVars
  <2>6. CASE OtherLine \/ Disturb
    <3>1. dumped' = <<>>
      BY <2>6 DEF OtherLine, Disturb, IgnoreLine, NmeaLine, MalformedFieldLine,
                  InvalidAisLine, EndOfInput, OtherAisLine
    <3> QED
      BY <2>2, <3>1
  <2>7. CASE UNCHANGED allVars
    BY <2>1, <2>7 DEF allVars, collectorVars, linkVars
  <2> QED
    BY <2>1, <2>3, <2>4, <2>5, <2>6, <2>7 DEF LinkNext
<1> QED
  BY <1>1, <1>2, LinkInvariant, PTL DEF LinkSpec

\* Whatever comes along the link, the collector takes no step of another kind
\* than its own: what is proved of AisCollector holds here.
THEOREM LinkImplementsCollector == LinkSpec => CollectorSpec
<1>1. LinkInit => CollectorInit
  BY DEF LinkInit
<1>2. LinkTypeOK /\ [LinkNext]_allVars => [CollectorNext]_collectorVars
  <2> SUFFICES ASSUME LinkTypeOK, [LinkNext]_allVars PROVE [CollectorNext]_collectorVars
    OBVIOUS
  <2>1. ASSUME NEW t \in Talkers, Deliver(t) PROVE CollectorNext
    <3>1. ~Idle(t) /\ Fragment(FragmentOf(t, length[t], sent[t] + 1, number[t]))
      BY <2>1 DEF Deliver
    <3> QED
      BY <3>1, NextIsFragment DEF CollectorNext
  <2>2. ASSUME NEW t \in Talkers, NEW n \in 1..MaxFragments[t], Begin(t, n) PROVE UNCHANGED collectorVars
    BY <2>2 DEF Begin
  <2>3. ASSUME NEW t \in Talkers, Lose(t) PROVE UNCHANGED collectorVars
    BY <2>3 DEF Lose
  <2>4. CASE OtherLine \/ Disturb
    BY <2>4 DEF OtherLine, Disturb, CollectorNext
  <2>5. CASE UNCHANGED allVars
    BY <2>5 DEF allVars
  <2> QED
    BY <2>1, <2>2, <2>3, <2>4, <2>5 DEF LinkNext
<1> QED
  BY <1>1, <1>2, LinkTyped, PTL DEF LinkSpec, CollectorSpec


-----------------------------------------------------------------------------
\* c is the collection, of at most n sentences, with f behind it.
Extended(c, f, n) ==
  /\ Len(sentences) \in Nat /\ Len(sentences) > 0 /\ Len(sentences) <= n
  /\ Len(c) = Len(sentences) + 1
  /\ c[Len(sentences) + 1] = f
  /\ \A i \in 1..Len(sentences) : c[i] = sentences[i]

\* What process() makes of the next fragment f of the talker t: f alone, or the
\* collection with f behind it.
LEMMA AppendsNext ==
  ASSUME LinkTypeOK, CollectorTypeOK, NEW t \in Talkers, ~Idle(t),
         NEW f, f = FragmentOf(t, length[t], sent[t] + 1, number[t]),
         NEW c, c = Append(Kept(f), f)
  PROVE  c = <<f>> \/ Extended(c, f, sent[t])
<1>1. f.k = sent[t] + 1 /\ sent[t] \in Nat /\ f \in Fragments
  BY NextIsFragment DEF FragmentOf, LinkTypeOK
<1>2. CASE Kept(f) = <<>>
  <2>1. Append(<<>>, f) = <<f>>
    BY <1>1
  <2>2. c = <<f>>
    BY <1>2, <2>1
  <2> QED
    BY <2>2
<1>3. CASE Kept(f) # <<>>
  <2>1. Kept(f) = sentences /\ ~(Len(sentences) >= f.k) /\ sentences # <<>>
    BY <1>3 DEF Kept
  <2>2. sentences \in Seq(Fragments) /\ Len(sentences) \in Nat /\ Len(sentences) > 0
    BY <2>1 DEF CollectorTypeOK
  <2>3. /\ Len(c) = Len(sentences) + 1
        /\ c[Len(sentences) + 1] = f
        /\ \A i \in 1..Len(sentences) : c[i] = sentences[i]
    BY <2>1, <2>2
  <2>4. Len(sentences) <= sent[t]
    BY <1>1, <2>1, <2>2
  <2> QED
    BY <2>2, <2>3, <2>4 DEF Extended
<1> QED
  BY <1>2, <1>3

\* A collection of one sentence.
LEMMA Alone ==
  ASSUME NEW f, NEW c, c = <<f>>
  PROVE  Len(c) = 1 /\ DOMAIN c = {1} /\ c[1] = f
OBVIOUS

\* What the next collection misses of the message of u, if nothing is lost of it.
LEMMA MissesSame ==
  ASSUME NEW u \in Talkers, NEW c, NEW n, MissesUnreceivedOnly(c, u, n),
         sentences' = c, sent'[u] = n,
         length'[u] = length[u], number'[u] = number[u], missed'[u] = missed[u]
  PROVE  MissesUnreceivedOnly(sentences, u, sent[u])'
BY DEF MissesUnreceivedOnly, FragmentOf

\* With f the collection misses, of the message f is of, what it missed before.
LEMMA MissesAfterNext ==
  ASSUME LinkTypeOK, CollectorTypeOK, CollectionMissesUnreceivedOnly,
         NEW t \in Talkers, ~Idle(t),
         NEW f, f = FragmentOf(t, length[t], sent[t] + 1, number[t]),
         NEW c, c = Append(Kept(f), f)
  PROVE  MissesUnreceivedOnly(c, t, sent[t] + 1)
<1>1. /\ f.k = sent[t] + 1 /\ sent[t] \in Nat
      /\ f = FragmentOf(t, length[t], f.k, number[t])
  BY DEF FragmentOf, LinkTypeOK
<1>2. CASE c = <<f>>
  <2>1. Len(c) = 1 /\ DOMAIN c = {1} /\ c[1] = f
    BY <1>2, Alone
  <2>2. (c[1].k + 1)..(sent[t] + 1) = {}
    <3>1. c[1].k = sent[t] + 1
      BY <1>1, <2>1
    <3> QED
      BY <1>1, <3>1
  <2> QED
    BY <2>1, <2>2 DEF MissesUnreceivedOnly
<1>3. CASE Extended(c, f, sent[t])
  <2> USE DEF Extended
  <2>0. DOMAIN c = 1..Len(c) /\ DOMAIN sentences = 1..Len(sentences)
    <3>1. sentences \in Seq(Fragments) /\ f \in Fragments
      BY NextIsFragment DEF CollectorTypeOK
    <3>2. Kept(f) \in Seq(Fragments)
      BY <3>1 DEF Kept
    <3> QED
      BY <3>1, <3>2
  <2>1. ASSUME NEW i \in DOMAIN c, NEW k \in (c[i].k + 1)..(sent[t] + 1),
               c[i].msg = <<t, number[t]>>
        PROVE  \/ k \in missed[t]
               \/ \E j \in (i + 1)..Len(c) : c[j] = FragmentOf(t, length[t], k, number[t])
    <3>1. CASE i = Len(sentences) + 1
      BY <1>1, <1>3, <2>1, <3>1
    <3>2. CASE i \in 1..Len(sentences) /\ k = sent[t] + 1
      <4>1. Len(c) \in (i + 1)..Len(c) /\ c[Len(c)] = FragmentOf(t, length[t], k, number[t])
        BY <1>1, <1>3, <3>2
      <4> QED
        BY <4>1
    <3>3. CASE i \in 1..Len(sentences) /\ k # sent[t] + 1
      <4>1. c[i] = sentences[i] /\ k \in (sentences[i].k + 1)..sent[t]
        <5>1. c[i] = sentences[i]
          BY <1>3, <3>3
        <5>2. sentences[i].k \in Nat
          BY <3>3, FragmentsAssumption DEF CollectorTypeOK
        <5> QED
          BY <1>1, <2>1, <3>3, <5>1, <5>2
      <4>2. \/ k \in missed[t]
            \/ \E j \in (i + 1)..Len(sentences) :
                 sentences[j] = FragmentOf(t, length[t], k, number[t])
        BY <2>0, <2>1, <3>3, <4>1 DEF CollectionMissesUnreceivedOnly, MissesUnreceivedOnly
      <4>3. \A j \in (i + 1)..Len(sentences) : j \in (i + 1)..Len(c) /\ c[j] = sentences[j]
        BY <1>3, <3>3
      <4> QED
        BY <4>2, <4>3
    <3> QED
      BY <1>3, <2>0, <2>1, <3>1, <3>2, <3>3
  <2> QED
    BY <2>1 DEF MissesUnreceivedOnly
<1> QED
  BY <1>2, <1>3, AppendsNext

\* If it starts with the first fragment of the message and none was lost, it is
\* with f the message as far as it was sent.
LEMMA WholeAfterNext ==
  ASSUME LinkTypeOK, CollectorTypeOK, CollectionMissesUnreceivedOnly,
         NEW t \in Talkers, ~Idle(t),
         NEW f, f = FragmentOf(t, length[t], sent[t] + 1, number[t]),
         NEW c, c = Append(Kept(f), f),
         missed[t] = {}, c[1] = FragmentOf(t, length[t], 1, number[t])
  PROVE  /\ Len(c) = sent[t] + 1
         /\ \A k \in 1..(sent[t] + 1) : c[k] = FragmentOf(t, length[t], k, number[t])
<1>1. f.k = sent[t] + 1 /\ sent[t] \in Nat
  BY DEF FragmentOf, LinkTypeOK
<1>2. CASE c = <<f>>
  <2>1. Len(c) = 1 /\ c[1] = f
    BY <1>2
  <2>2. f.k = 1
    BY <2>1 DEF FragmentOf
  <2>3. sent[t] = 0
    BY <1>1, <2>2
  <2> QED
    BY <2>1, <2>3
<1>3. CASE Extended(c, f, sent[t])
  <2> USE DEF Extended
  <2>1. sentences[1] = FragmentOf(t, length[t], 1, number[t]) /\ sentences # <<>> /\ sent[t] > 0
    BY <1>1, <1>3
  <2>2. /\ Len(sentences) >= sent[t]
        /\ \A k \in 1..sent[t] : sentences[k] = FragmentOf(t, length[t], k, number[t])
    BY <2>1 DEF CollectionMissesUnreceivedOnly
  <2>3. Len(sentences) = sent[t]
    BY <1>1, <1>3, <2>2
  <2>4. ASSUME NEW k \in 1..(sent[t] + 1) PROVE c[k] = FragmentOf(t, length[t], k, number[t])
    <3>0. k = sent[t] + 1 \/ k \in 1..sent[t]
      BY <1>1
    <3>1. CASE k = sent[t] + 1
      BY <1>1, <1>3, <2>3, <3>1
    <3>2. CASE k \in 1..sent[t]
      BY <1>3, <2>2, <2>3, <3>2
    <3> QED
      BY <3>0, <3>1, <3>2
  <2> QED
    BY <1>3, <2>3, <2>4
<1> QED
  BY <1>2, <1>3, AppendsNext

\* If c starts with the first fragment of u's message and none was lost, it is
\* that message up to the fragment n.
StartsWhole(c, u, n) ==
  (missed[u] = {} /\ n > 0 /\ c[1] = FragmentOf(u, length[u], 1, number[u])) =>
    /\ Len(c) >= n
    /\ \A k \in 1..n : c[k] = FragmentOf(u, length[u], k, number[u])

\* Of another talker u nothing changes: f is not of its message.
LEMMA OthersAfterNext ==
  ASSUME LinkTypeOK, CollectorTypeOK, CollectionMissesUnreceivedOnly,
         NEW t \in Talkers, ~Idle(t), NEW u \in Talkers, u # t,
         NEW f, f = FragmentOf(t, length[t], sent[t] + 1, number[t]),
         NEW c, c = Append(Kept(f), f)
  PROVE  MissesUnreceivedOnly(c, u, sent[u]) /\ StartsWhole(c, u, sent[u])
<1>1. /\ f.msg # <<u, number[u]>>
      /\ f # FragmentOf(u, length[u], 1, number[u])
      /\ sent[u] \in Nat
  BY DEF FragmentOf, LinkTypeOK
<1>2. CASE c = <<f>>
  <2>1. Len(c) = 1 /\ DOMAIN c = {1} /\ c[1] = f
    BY <1>2, Alone
  <2> QED
    BY <1>1, <2>1 DEF MissesUnreceivedOnly, StartsWhole
<1>3. CASE Extended(c, f, sent[t])
  <2> USE DEF Extended
  <2>0. DOMAIN c = 1..Len(c) /\ DOMAIN sentences = 1..Len(sentences)
    <3>1. sentences \in Seq(Fragments) /\ f \in Fragments
      BY NextIsFragment DEF CollectorTypeOK
    <3>2. Kept(f) \in Seq(Fragments)
      BY <3>1 DEF Kept
    <3> QED
      BY <3>1, <3>2
  <2>1. ASSUME NEW i \in DOMAIN c, NEW k \in (c[i].k + 1)..sent[u],
               c[i].msg = <<u, number[u]>>
        PROVE  \/ k \in missed[u]
               \/ \E j \in (i + 1)..Len(c) : c[j] = FragmentOf(u, length[u], k, number[u])
    <3>1. i # Len(sentences) + 1
      BY <1>1, <1>3, <2>1
    <3>2. i \in 1..Len(sentences)
      BY <1>3, <2>0, <3>1
    <3>3. c[i] = sentences[i]
      BY <1>3, <3>2
    <3>4. \/ k \in missed[u]
          \/ \E j \in (i + 1)..Len(sentences) :
               sentences[j] = FragmentOf(u, length[u], k, number[u])
      BY <2>0, <2>1, <3>2, <3>3 DEF CollectionMissesUnreceivedOnly, MissesUnreceivedOnly
    <3>5. \A j \in (i + 1)..Len(sentences) : j \in (i + 1)..Len(c) /\ c[j] = sentences[j]
      BY <1>3, <3>2
    <3> QED
      BY <3>4, <3>5
  <2>2. ASSUME missed[u] = {}, sent[u] > 0, c[1] = FragmentOf(u, length[u], 1, number[u])
        PROVE  /\ Len(c) >= sent[u]
               /\ \A k \in 1..sent[u] : c[k] = FragmentOf(u, length[u], k, number[u])
    <3>1. sentences[1] = FragmentOf(u, length[u], 1, number[u]) /\ sentences # <<>>
      BY <1>3, <2>2
    <3>2. /\ Len(sentences) >= sent[u]
          /\ \A k \in 1..sent[u] : sentences[k] = FragmentOf(u, length[u], k, number[u])
      BY <2>2, <3>1 DEF CollectionMissesUnreceivedOnly
    <3> QED
      BY <1>1, <1>3, <3>2
  <2>3. MissesUnreceivedOnly(c, u, sent[u])
    BY <2>1 DEF MissesUnreceivedOnly
  <2> QED
    BY <2>2, <2>3 DEF StartsWhole
<1> QED
  BY <1>2, <1>3, AppendsNext

\* Every step keeps what the collection misses to what was not received.
LEMMA StepMisses ==
  ASSUME LinkTypeOK, CollectorTypeOK, CollectionMissesUnreceivedOnly, [LinkNext]_allVars
  PROVE  CollectionMissesUnreceivedOnly'
<1>1. ASSUME NEW b \in Talkers, NEW n \in 1..MaxFragments[b], Begin(b, n)
      PROVE  CollectionMissesUnreceivedOnly'
  <2>1. sentences' = sentences /\ sent'[b] = 0
    BY <1>1 DEF Begin, collectorVars, LinkTypeOK
  <2>2. ASSUME NEW u \in Talkers, u # b
        PROVE  /\ sent'[u] = sent[u] /\ length'[u] = length[u]
               /\ number'[u] = number[u] /\ missed'[u] = missed[u]
    BY <1>1, <2>2 DEF Begin, LinkTypeOK
  <2>3. \A i \in DOMAIN sentences : (sentences[i].k + 1)..0 = {}
    <3>1. \A i \in DOMAIN sentences : sentences[i].k \in Nat
      BY FragmentsAssumption DEF CollectorTypeOK
    <3> QED
      BY <3>1
  <2>4. MissesUnreceivedOnly(sentences, b, sent[b])'
    BY <2>1, <2>3 DEF MissesUnreceivedOnly
  <2>5. ASSUME NEW u \in Talkers, u # b PROVE MissesUnreceivedOnly(sentences, u, sent[u])'
    BY <2>1, <2>2, <2>5, MissesSame DEF CollectionMissesUnreceivedOnly
  <2>6. ASSUME NEW u \in Talkers, missed'[u] = {}, sent'[u] > 0, sentences' # <<>>,
               sentences'[1] = FragmentOf(u, length'[u], 1, number'[u])
        PROVE  /\ Len(sentences') >= sent'[u]
               /\ \A k \in 1..sent'[u] : sentences'[k] = FragmentOf(u, length'[u], k, number'[u])
    <3>1. u # b
      BY <2>1, <2>6
    <3> QED
      BY <2>1, <2>2, <2>6, <3>1 DEF CollectionMissesUnreceivedOnly
  <2> QED
    BY <2>4, <2>5, <2>6 DEF CollectionMissesUnreceivedOnly, FragmentOf
<1>2. ASSUME NEW t \in Talkers, Deliver(t)
      PROVE  CollectionMissesUnreceivedOnly'
  <2>1. PICK f : f = FragmentOf(t, length[t], sent[t] + 1, number[t])
    OBVIOUS
  <2>2. PICK c : c = Append(Kept(f), f)
    OBVIOUS
  <2>3. /\ ~Idle(t) /\ UNCHANGED <<length, number, missed>>
        /\ sent' = [sent EXCEPT ![t] = @ + 1]
        /\ sentences' = <<>> \/ sentences' = c
    BY <1>2, <2>1, <2>2 DEF Deliver, Fragment
  <2>4. sent'[t] = sent[t] + 1 /\ \A u \in Talkers \ {t} : sent'[u] = sent[u]
    BY <2>3 DEF LinkTypeOK
  <2>5. CASE sentences' = <<>>
    BY <2>5 DEF CollectionMissesUnreceivedOnly, MissesUnreceivedOnly
  <2>6. CASE sentences' = c
    <3>1. MissesUnreceivedOnly(c, t, sent[t] + 1)
      BY <2>1, <2>2, <2>3, MissesAfterNext
    <3>2. (missed[t] = {} /\ c[1] = FragmentOf(t, length[t], 1, number[t])) =>
            /\ Len(c) >= sent[t] + 1
            /\ \A k \in 1..(sent[t] + 1) : c[k] = FragmentOf(t, length[t], k, number[t])
      <4>1. sent[t] + 1 >= sent[t] + 1
        BY DEF LinkTypeOK
      <4> QED
        BY <2>1, <2>2, <2>3, <4>1, WholeAfterNext
    <3>3. ASSUME NEW u \in Talkers \ {t}
          PROVE  MissesUnreceivedOnly(c, u, sent[u]) /\ StartsWhole(c, u, sent[u])
      <4>1. u \in Talkers /\ u # t
        OBVIOUS
      <4> QED
        BY <2>1, <2>2, <2>3, <4>1, OthersAfterNext
    <3>4. ASSUME NEW u \in Talkers PROVE MissesUnreceivedOnly(sentences, u, sent[u])'
      <4>1. CASE u = t
        BY <2>3, <2>4, <2>6, <3>1, <4>1, MissesSame
      <4>2. CASE u # t
        BY <2>3, <2>4, <2>6, <3>3, <4>2, MissesSame
      <4> QED
        BY <4>1, <4>2
    <3>5. ASSUME NEW u \in Talkers, missed'[u] = {}, sent'[u] > 0, sentences' # <<>>,
                 sentences'[1] = FragmentOf(u, length'[u], 1, number'[u])
          PROVE  /\ Len(sentences') >= sent'[u]
                 /\ \A k \in 1..sent'[u] : sentences'[k] = FragmentOf(u, length'[u], k, number'[u])
      <4>1. CASE u = t
        BY <2>3, <2>4, <2>6, <3>2, <3>5, <4>1
      <4>2. CASE u # t
        BY <2>3, <2>4, <2>6, <3>3, <3>5, <4>2 DEF StartsWhole
      <4> QED
        BY <4>1, <4>2
    <3> QED
      BY <3>4, <3>5 DEF CollectionMissesUnreceivedOnly, FragmentOf
  <2> QED
    BY <2>3, <2>5, <2>6
<1>3. ASSUME NEW l \in Talkers, Lose(l)
      PROVE  CollectionMissesUnreceivedOnly'
  <2>1. /\ sentences' = sentences /\ length' = length /\ number' = number
        /\ sent' = [sent EXCEPT ![l] = @ + 1]
        /\ missed' = [missed EXCEPT ![l] = @ \cup {sent[l] + 1}]
    BY <1>3 DEF Lose, collectorVars
  <2>2. /\ sent'[l] = sent[l] + 1 /\ missed'[l] = missed[l] \cup {sent[l] + 1}
        /\ \A u \in Talkers \ {l} : sent'[u] = sent[u] /\ missed'[u] = missed[u]
    BY <2>1 DEF LinkTypeOK
  <2>3. ASSUME NEW i \in DOMAIN sentences, NEW k \in (sentences[i].k + 1)..(sent[l] + 1),
               k # sent[l] + 1
        PROVE  k \in (sentences[i].k + 1)..sent[l]
    <3>1. sentences[i].k \in Nat /\ sent[l] \in Nat
      BY FragmentsAssumption DEF CollectorTypeOK, LinkTypeOK
    <3> QED
      BY <2>3, <3>1
  <2>4. ASSUME NEW i \in DOMAIN sentences, NEW k \in (sentences[i].k + 1)..(sent[l] + 1),
               sentences[i].msg = <<l, number[l]>>
        PROVE  \/ k \in missed'[l]
               \/ \E j \in (i + 1)..Len(sentences) :
                    sentences[j] = FragmentOf(l, length[l], k, number[l])
    <3>1. CASE k = sent[l] + 1
      BY <2>2, <3>1
    <3>2. CASE k # sent[l] + 1
      <4>1. k \in (sentences[i].k + 1)..sent[l]
        BY <2>3, <3>2
      <4> QED
        BY <2>2, <2>4, <4>1 DEF CollectionMissesUnreceivedOnly, MissesUnreceivedOnly
    <3> QED
      BY <3>1, <3>2
  <2>5. MissesUnreceivedOnly(sentences, l, sent[l])'
    BY <2>1, <2>2, <2>4 DEF MissesUnreceivedOnly, FragmentOf
  <2>6. ASSUME NEW u \in Talkers, u # l PROVE MissesUnreceivedOnly(sentences, u, sent[u])'
    BY <2>1, <2>2, <2>6, MissesSame DEF CollectionMissesUnreceivedOnly
  <2>7. ASSUME NEW u \in Talkers, missed'[u] = {}, sent'[u] > 0, sentences' # <<>>,
               sentences'[1] = FragmentOf(u, length'[u], 1, number'[u])
        PROVE  /\ Len(sentences') >= sent'[u]
               /\ \A k \in 1..sent'[u] : sentences'[k] = FragmentOf(u, length'[u], k, number'[u])
    <3>1. u # l
      BY <2>2, <2>7
    <3> QED
      BY <2>1, <2>2, <2>7, <3>1 DEF CollectionMissesUnreceivedOnly
  <2> QED
    BY <2>5, <2>6, <2>7 DEF CollectionMissesUnreceivedOnly, FragmentOf
<1>4. CASE Disturb
  <2>1. sentences' = <<>>
    BY <1>4 DEF Disturb, OtherAisLine
  <2> QED
    BY <2>1 DEF CollectionMissesUnreceivedOnly, MissesUnreceivedOnly
<1>5. CASE sentences' = sentences /\ UNCHANGED linkVars
  BY <1>5 DEF CollectionMissesUnreceivedOnly, MissesUnreceivedOnly, FragmentOf, linkVars
<1> QED
  BY <1>1, <1>2, <1>3, <1>4, <1>5
  DEF LinkNext, OtherLine, IgnoreLine, NmeaLine, MalformedFieldLine, InvalidAisLine, EndOfInput,
      allVars, collectorVars

\* The collector's variables stay typed on the link.
LEMMA LinkCollectorTyped == LinkSpec => []CollectorTypeOK
  BY LinkImplementsCollector, TypeCorrect, PTL

\* The collection misses nothing that was received.
LEMMA LinkCollectionMisses == LinkSpec => []CollectionMissesUnreceivedOnly
<1>1. LinkInit => CollectionMissesUnreceivedOnly
  BY DEF LinkInit, CollectorInit, CollectionMissesUnreceivedOnly, MissesUnreceivedOnly
<1>2. LinkTypeOK /\ CollectorTypeOK /\ CollectionMissesUnreceivedOnly /\ [LinkNext]_allVars
        => CollectionMissesUnreceivedOnly'
  BY StepMisses
<1> QED
  BY <1>1, <1>2, LinkTyped, LinkCollectorTyped, PTL DEF LinkSpec

\* Whatever is lost, and however the messages of several talkers interleave: what
\* dump_ais gets with the last fragment of a message lacks, behind the first one
\* it has of it, no fragment that process() has received; and if it starts with
\* the message's first and none was lost, it is the message and nothing else.
THEOREM LinkDumpedMissesUnreceivedOnly == LinkSpec => DumpedMissesUnreceivedOnly
<1>1. ASSUME LinkTypeOK, CollectorTypeOK, CollectionMissesUnreceivedOnly, [LinkNext]_allVars,
             NEW t \in Talkers, LastReceived(t)
      PROVE  /\ MissesUnreceivedOnly(dumped', t, length[t])
             /\ (missed[t] = {} /\ dumped'[1] = FragmentOf(t, length[t], 1, number[t]))
                  => dumped' = SentOf(t, length[t])
  <2>1. /\ ~Idle(t) /\ sent'[t] = length[t] /\ length' = length /\ missed' = missed
        /\ sent[t] \in Nat /\ length[t] \in Nat /\ sent[t] < length[t] /\ sent'[t] # sent[t]
    BY <1>1 DEF LastReceived, LinkTypeOK, Idle
  <2>2. ASSUME NEW b \in Talkers, NEW n \in 1..MaxFragments[b], Begin(b, n) PROVE FALSE
    <3>1. sent' = [sent EXCEPT ![b] = 0]
      BY <2>2 DEF Begin
    <3> QED
      BY <1>1, <2>1, <3>1 DEF LinkTypeOK
  <2>3. ASSUME NEW l \in Talkers, Lose(l) PROVE FALSE
    <3>1. missed' = [missed EXCEPT ![l] = @ \cup {sent[l] + 1}]
      BY <2>3 DEF Lose
    <3>2. sent[l] + 1 \in missed[l]
      BY <1>1, <2>1, <3>1 DEF LinkTypeOK
    <3>3. missed[l] \subseteq 1..sent[l] /\ sent[l] \in Nat
      BY <1>1 DEF LinkTypeOK
    <3>4. sent[l] + 1 \notin 1..sent[l]
      BY <3>3
    <3> QED
      BY <3>2, <3>3, <3>4
  <2>4. ASSUME NEW d \in Talkers, Deliver(d)
        PROVE  /\ MissesUnreceivedOnly(dumped', t, length[t])
               /\ (missed[t] = {} /\ dumped'[1] = FragmentOf(t, length[t], 1, number[t]))
                    => dumped' = SentOf(t, length[t])
    <3>1. sent' = [sent EXCEPT ![d] = @ + 1]
      BY <2>4 DEF Deliver
    <3>2. d = t /\ sent[t] + 1 = length[t]
      BY <1>1, <2>1, <3>1 DEF LinkTypeOK
    <3>3. PICK f : f = FragmentOf(t, length[t], sent[t] + 1, number[t])
      OBVIOUS
    <3>4. PICK c : c = Append(Kept(f), f)
      OBVIOUS
    <3>5. f.k = f.n
      BY <3>2, <3>3 DEF FragmentOf
    <3>6. dumped' = c
      BY <2>4, <3>2, <3>3, <3>4, <3>5 DEF Deliver, Fragment
    <3>7. MissesUnreceivedOnly(c, t, sent[t] + 1)
      BY <1>1, <2>1, <3>3, <3>4, MissesAfterNext
    <3>8. ASSUME missed[t] = {}, c[1] = FragmentOf(t, length[t], 1, number[t])
          PROVE  c = SentOf(t, length[t])
      <4>1. /\ Len(c) = sent[t] + 1
            /\ \A k \in 1..(sent[t] + 1) : c[k] = FragmentOf(t, length[t], k, number[t])
        BY <1>1, <2>1, <3>3, <3>4, <3>8, WholeAfterNext
      <4>2. c \in Seq(Fragments)
        <5>1. f \in Fragments /\ Kept(f) \in Seq(Fragments)
          BY <1>1, <2>1, <3>3, NextIsFragment DEF Kept, CollectorTypeOK
        <5> QED
          BY <3>4, <5>1
      <4>3. c = [i \in 1..Len(c) |-> c[i]]
        BY <4>2
      <4> QED
        BY <3>2, <4>1, <4>3 DEF SentOf
    <3> QED
      BY <3>2, <3>6, <3>7, <3>8
  <2>5. CASE sent' = sent
    BY <2>1, <2>5
  <2>6. (\E b \in Talkers : \E n \in 1..MaxFragments[b] : Begin(b, n))
          \/ (\E d \in Talkers : Deliver(d)) \/ (\E l \in Talkers : Lose(l)) \/ sent' = sent
    BY <1>1 DEF LinkNext, OtherLine, Disturb, linkVars, allVars
  <2> QED
    BY <2>2, <2>3, <2>4, <2>5, <2>6
<1>2. LinkTypeOK /\ CollectorTypeOK /\ CollectionMissesUnreceivedOnly /\ [LinkNext]_allVars =>
        [\A t \in Talkers : LastReceived(t) =>
           /\ MissesUnreceivedOnly(dumped', t, length[t])
           /\ (missed[t] = {} /\ dumped'[1] = FragmentOf(t, length[t], 1, number[t]))
                => dumped' = SentOf(t, length[t])]_allVars
  BY <1>1
<1> QED
  BY <1>2, LinkTyped, LinkCollectorTyped, LinkCollectionMisses, PTL
  DEF LinkSpec, DumpedMissesUnreceivedOnly

-----------------------------------------------------------------------------
\* The calls for a field begin inside of it, one where its last unit begins; for
\* every bit of the field there is a call that writes it, and those after that
\* one begin behind the bit.
LEMMA StartsOf ==
  ASSUME NEW f, f.ofs \in Nat, f.bits \in Nat \ {0},
         f.unit = f.bits \/ (f.unit = 6 /\ f.bits % 6 = 0)
  PROVE  /\ f.unit \in Nat \ {0}
         /\ Starts(f) \subseteq Nat
         /\ \A s \in Starts(f) : f.ofs <= s /\ s + f.unit <= f.ofs + f.bits
         /\ f.ofs + f.bits - f.unit \in Starts(f)
         /\ \A p \in (f.ofs + 1)..(f.ofs + f.bits) :
              \E s \in Starts(f) : /\ s < p /\ p <= s + f.unit
                                   /\ \A r \in Starts(f) : r < p => r <= s
<1> DEFINE o == f.ofs
           b == f.bits
           u == f.unit
<1>1. o \in Nat /\ b \in Nat \ {0} /\ (u = b \/ (u = 6 /\ b % 6 = 0))
  OBVIOUS
<1>2. Starts(f) = {o + k * u : k \in 0..(b \div u - 1)}
  BY DEF Starts
<1> HIDE DEF o, b, u
<1> SUFFICES /\ u \in Nat \ {0}
             /\ Starts(f) \subseteq Nat
             /\ \A s \in Starts(f) : o <= s /\ s + u <= o + b
             /\ o + b - u \in Starts(f)
             /\ \A p \in (o + 1)..(o + b) :
                  \E s \in Starts(f) : /\ s < p /\ p <= s + u
                                       /\ \A r \in Starts(f) : r < p => r <= s
  BY DEF o, b, u
<1>3. CASE u = b
  <2>1. b \div b = 1
    BY <1>1
  <2>2. Starts(f) = {o}
    <3>1. 0..(b \div u - 1) = {0}
      BY <1>3, <2>1
    <3>2. \A k \in {0} : o + k * u = o
      BY <1>1, <1>3
    <3> QED
      BY <1>2, <3>1, <3>2
  <2> QED
    BY <1>1, <1>3, <2>2
<1>4. CASE u = 6 /\ b % 6 = 0
  <2> DEFINE n == b \div 6
  <2>1. n \in Nat \ {0} /\ b = 6 * n
    BY <1>1, <1>4
  <2> HIDE DEF n
  <2>2. Starts(f) = {o + k * 6 : k \in 0..(n - 1)}
    BY <1>2, <1>4 DEF n
  <2>3. \A s \in Starts(f) : s \in Nat /\ o <= s /\ s + u <= o + b
    BY <1>1, <1>4, <2>1, <2>2
  <2>4. o + b - u \in Starts(f)
    <3>1. n - 1 \in 0..(n - 1) /\ o + b - u = o + (n - 1) * 6
      BY <1>1, <1>4, <2>1
    <3> QED
      BY <2>2, <3>1
  <2>5. ASSUME NEW p \in (o + 1)..(o + b)
        PROVE  \E s \in Starts(f) : /\ s < p /\ p <= s + u
                                    /\ \A r \in Starts(f) : r < p => r <= s
    <3> DEFINE k == (p - o - 1) \div 6
    <3>1. k \in 0..(n - 1) /\ o + k * 6 < p /\ p <= o + k * 6 + 6
      BY <1>1, <2>1
    <3>2. ASSUME NEW j \in 0..(n - 1), o + j * 6 < p PROVE o + j * 6 <= o + k * 6
      BY <1>1, <2>1, <3>1, <3>2
    <3> HIDE DEF k
    <3>3. o + k * 6 \in Starts(f)
      BY <2>2, <3>1
    <3> QED
      BY <1>4, <2>2, <3>1, <3>2, <3>3
  <2> QED
    BY <1>4, <2>3, <2>4, <2>5
<1> QED
  BY <1>1, <1>3, <1>4

\* A value is written at least as far as it is long.
LEMMA WrittenEndBounds ==
  ASSUME NEW s \in Nat, NEW u \in Nat
  PROVE  /\ B!WrittenEnd(s, u) \in Nat
         /\ s + u <= B!WrittenEnd(s, u)
  BY DEF B!WrittenEnd, B!BlockEnd, B!Up, B!BlockStart

-----------------------------------------------------------------------------
\* The parts a message has, from the assumptions on the layouts.
LEMMA FieldFacts ==
  ASSUME NEW type \in DOMAIN Layout, NEW f \in FieldsOf(type)
  PROVE  /\ f.ofs \in Nat /\ f.bits \in Nat \ {0}
         /\ f.unit = f.bits \/ (f.unit = 6 /\ f.bits % 6 = 0)
         /\ \A s \in Starts(f) :
              B!WrittenEnd(s, f.unit) <= IF Layout[type].tail = "none"
                                         THEN Layout[type].max ELSE Layout[type].head
  BY LayoutsAssumption DEF FieldsSound, SizesSound

\* The fields of a layout are those in its sequence.
LEMMA FieldAt ==
  ASSUME NEW type \in DOMAIN Layout
  PROVE  /\ DOMAIN Layout[type].fields = 1..Len(Layout[type].fields)
         /\ \A i \in DOMAIN Layout[type].fields : Layout[type].fields[i] \in FieldsOf(type)
         /\ \A f \in FieldsOf(type) : \E i \in DOMAIN Layout[type].fields : f = Layout[type].fields[i]
  BY LayoutsAssumption DEF FieldsSound, FieldsOf, ToSet

\* What the assumptions say about the sizes a message may have.
LEMMA SizeFacts ==
  ASSUME NEW type \in DOMAIN Layout
  PROVE  LET l == Layout[type] IN
         /\ l.head \in Nat \ {0} /\ l.max \in Nat /\ l.head <= l.max
         /\ l.head..l.max \subseteq l.sizes /\ l.sizes \subseteq 1..l.max
         /\ l.tail \in {"none", "text", "payload"}
         /\ l.tail # "none" => l.sizes = l.head..l.max
         /\ l.tail = "text" => (l.max - l.head) % 8 = 0
  BY LayoutsAssumption DEF SizesSound

-----------------------------------------------------------------------------
\* What get_data writes, in parts.
Fields(m) == Layout[m.type].fields
WrittenAt(m) == {i \in DOMAIN Fields(m) : Written(m.contents, Fields(m)[i].part)}
EndsAt(m, i) == {B!WrittenEnd(s, Fields(m)[i].unit) : s \in Starts(Fields(m)[i])}
Over(m, p) == {i \in WrittenAt(m) : Reaching(Fields(m)[i], p) # {}}
BodySize(m) == Max({Layout[m.type].head} \cup UNION {EndsAt(m, i) : i \in WrittenAt(m)})
BodyBit(m, i, p) ==
  LET f == Fields(m)[i]
  IN IF p <= Max(Reaching(f, p)) + f.unit THEN m.contents[f.name][p - f.ofs] ELSE Zero
Body(m) ==
  [p \in 1..BodySize(m) |-> IF Over(m, p) = {} THEN Zero ELSE BodyBit(m, Max(Over(m, p)), p)]

\* get_data: the set with the fields, and what follows them.
LEMMA GetDataIs ==
  ASSUME NEW m
  PROVE  GetData(m) = Body(m) \o TailData(m.type, m.tail)
  BY DEF GetData, AfterWrites, Body, BodySize, BodyBit, Over, EndsAt, WrittenAt, Fields

\* The set has at least the head, at most the room before the tail, and all
\* that is written.
LEMMA BodySizeFacts ==
  ASSUME NEW m, m.type \in DOMAIN Layout
  PROVE  /\ BodySize(m) \in Layout[m.type].head..Layout[m.type].max
         /\ Layout[m.type].tail # "none" => BodySize(m) = Layout[m.type].head
         /\ \A i \in WrittenAt(m) : Fields(m)[i].ofs + Fields(m)[i].bits <= BodySize(m)
<1> DEFINE l == Layout[m.type]
           Ends == {l.head} \cup UNION {EndsAt(m, i) : i \in WrittenAt(m)}
           top == IF l.tail = "none" THEN l.max ELSE l.head
<1>1. l.head \in Nat /\ top \in Nat /\ l.head <= top /\ top <= l.max /\ l.max \in Nat
  BY SizeFacts
<1>2. \A i \in WrittenAt(m) : Fields(m)[i] \in FieldsOf(m.type)
  BY FieldAt DEF WrittenAt, Fields
<1>3. ASSUME NEW i \in WrittenAt(m)
      PROVE  /\ EndsAt(m, i) \subseteq Nat
             /\ \A e \in EndsAt(m, i) : e <= top
             /\ \E e \in EndsAt(m, i) : Fields(m)[i].ofs + Fields(m)[i].bits <= e
  <2> DEFINE f == Fields(m)[i]
  <2>1. f \in FieldsOf(m.type)
    BY <1>2
  <2> HIDE DEF f
  <2>2. /\ f.ofs \in Nat /\ f.bits \in Nat \ {0} /\ (f.unit = f.bits \/ (f.unit = 6 /\ f.bits % 6 = 0))
        /\ \A s \in Starts(f) : B!WrittenEnd(s, f.unit) <= top
    BY <2>1, FieldFacts
  <2>3. /\ f.unit \in Nat /\ Starts(f) \subseteq Nat
        /\ f.ofs + f.bits - f.unit \in Starts(f)
    BY <2>2, StartsOf
  <2>4. \A s \in Starts(f) : B!WrittenEnd(s, f.unit) \in Nat /\ s + f.unit <= B!WrittenEnd(s, f.unit)
    BY <2>3, WrittenEndBounds
  <2>5. EndsAt(m, i) = {B!WrittenEnd(s, f.unit) : s \in Starts(f)}
    BY DEF EndsAt, f
  <2> DEFINE last == f.ofs + f.bits - f.unit
  <2>6. last + f.unit = f.ofs + f.bits
    BY <2>2, <2>3
  <2> HIDE DEF last, top
  <2>7. last \in Starts(f)
    BY <2>3 DEF last
  <2>8. f.ofs + f.bits <= B!WrittenEnd(last, f.unit)
    BY <2>4, <2>6, <2>7
  <2>9. \E e \in EndsAt(m, i) : f.ofs + f.bits <= e
    BY <2>5, <2>7, <2>8
  <2>10. EndsAt(m, i) \subseteq Nat /\ \A e \in EndsAt(m, i) : e <= top
    BY <2>2, <2>4, <2>5
  <2> QED
    BY <2>9, <2>10 DEF f
<1> HIDE DEF top, l
<1>4. Ends \subseteq Nat /\ l.head \in Ends /\ \A e \in Ends : e <= top
  BY <1>1, <1>3
<1>5. BodySize(m) = Max(Ends)
  BY DEF BodySize, l
<1> HIDE DEF Ends
<1>6. Max(Ends) \in Ends /\ \A e \in Ends : e <= Max(Ends)
  BY <1>1, <1>4, MaxOf
<1>7. BodySize(m) \in l.head..top
  <2>1. BodySize(m) \in Ends /\ \A e \in Ends : e <= BodySize(m)
    BY <1>5, <1>6
  <2>2. BodySize(m) \in Nat /\ l.head <= BodySize(m) /\ BodySize(m) <= top
    BY <1>4, <2>1
  <2> QED
    BY <1>1, <2>2
<1>8. ASSUME NEW i \in WrittenAt(m)
      PROVE  Fields(m)[i].ofs + Fields(m)[i].bits <= BodySize(m)
  <2>1. PICK e \in EndsAt(m, i) : Fields(m)[i].ofs + Fields(m)[i].bits <= e
    BY <1>3
  <2>2. e \in Ends /\ e \in Nat
    BY <1>4, <2>1 DEF Ends
  <2>3. e <= BodySize(m) /\ BodySize(m) \in Nat
    BY <1>1, <1>5, <1>6, <1>7, <2>2
  <2>4. Fields(m)[i].ofs \in Nat /\ Fields(m)[i].bits \in Nat
    BY <1>2, FieldFacts
  <2> QED
    BY <2>1, <2>2, <2>3, <2>4
<1> QED
  BY <1>1, <1>7, <1>8 DEF top, l

\* Which bit of a field is at some place of the set.
LEMMA ReachingFacts ==
  ASSUME NEW type \in DOMAIN Layout, NEW f \in FieldsOf(type), NEW p \in Nat
  PROVE  /\ Reaching(f, p) # {} => f.ofs < p
         /\ \A s \in Reaching(f, p) : s \in Starts(f) /\ s < p
         /\ Reaching(f, p) # {} => Max(Reaching(f, p)) \in Reaching(f, p)
         /\ p \in (f.ofs + 1)..(f.ofs + f.bits) =>
              Reaching(f, p) # {} /\ p <= Max(Reaching(f, p)) + f.unit
         /\ p > f.ofs + f.bits /\ Reaching(f, p) # {} => ~(p <= Max(Reaching(f, p)) + f.unit)
<1>1. f.ofs \in Nat /\ f.bits \in Nat \ {0} /\ (f.unit = f.bits \/ (f.unit = 6 /\ f.bits % 6 = 0))
  BY FieldFacts
<1>2. /\ f.unit \in Nat \ {0}
      /\ Starts(f) \subseteq Nat
      /\ \A s \in Starts(f) : f.ofs <= s /\ s + f.unit <= f.ofs + f.bits
      /\ \A q \in (f.ofs + 1)..(f.ofs + f.bits) :
           \E s \in Starts(f) : /\ s < q /\ q <= s + f.unit
                                /\ \A r \in Starts(f) : r < q => r <= s
  BY <1>1, StartsOf
<1>3. \A s \in Starts(f) : B!WrittenEnd(s, f.unit) \in Nat /\ s + f.unit <= B!WrittenEnd(s, f.unit)
  BY <1>2, WrittenEndBounds
<1>4. \A s : s \in Reaching(f, p) <=> s \in Starts(f) /\ p \in (s + 1)..B!WrittenEnd(s, f.unit)
  BY DEF Reaching
<1>5. \A s \in Reaching(f, p) : s \in Starts(f) /\ s \in Nat /\ s < p /\ f.ofs <= s
  BY <1>1, <1>2, <1>3, <1>4
<1>6. Reaching(f, p) # {} =>
        Max(Reaching(f, p)) \in Reaching(f, p) /\ \A s \in Reaching(f, p) : s <= Max(Reaching(f, p))
  <2> SUFFICES ASSUME Reaching(f, p) # {}
               PROVE  Max(Reaching(f, p)) \in Reaching(f, p) /\ \A s \in Reaching(f, p) : s <= Max(Reaching(f, p))
    OBVIOUS
  <2>1. Reaching(f, p) \in SUBSET Nat /\ \A s \in Reaching(f, p) : s <= p
    BY <1>5
  <2> QED
    BY <2>1, MaxOf
<1>7. ASSUME p \in (f.ofs + 1)..(f.ofs + f.bits)
      PROVE  Reaching(f, p) # {} /\ p <= Max(Reaching(f, p)) + f.unit
  <2>1. PICK s \in Starts(f) : /\ s < p /\ p <= s + f.unit
                               /\ \A r \in Starts(f) : r < p => r <= s
    BY <1>2, <1>7
  <2>2. s \in Reaching(f, p)
    BY <1>2, <1>3, <1>4, <2>1
  <2>3. Max(Reaching(f, p)) \in Nat /\ s <= Max(Reaching(f, p))
    BY <1>5, <1>6, <2>2
  <2>4. s \in Nat /\ f.unit \in Nat
    BY <1>2, <2>1
  <2> QED
    BY <2>1, <2>2, <2>3, <2>4
<1>8. ASSUME p > f.ofs + f.bits, Reaching(f, p) # {}
      PROVE  ~(p <= Max(Reaching(f, p)) + f.unit)
  <2>1. Max(Reaching(f, p)) \in Starts(f) /\ Max(Reaching(f, p)) \in Nat
    BY <1>5, <1>6, <1>8
  <2>2. Max(Reaching(f, p)) + f.unit <= f.ofs + f.bits
    BY <1>2, <2>1
  <2> QED
    BY <1>1, <1>2, <1>8, <2>1, <2>2
<1>9. Reaching(f, p) # {} => f.ofs < p
  BY <1>1, <1>5
<1> QED
  BY <1>5, <1>6, <1>7, <1>8, <1>9

\* The calls for a field begin and end at natural numbers.
LEMMA StartsNat ==
  ASSUME NEW type \in DOMAIN Layout, NEW f \in FieldsOf(type), NEW s \in Starts(f)
  PROVE  s \in Nat /\ B!WrittenEnd(s, f.unit) \in Nat
<1>1. f.ofs \in Nat /\ f.bits \in Nat \ {0} /\ (f.unit = f.bits \/ (f.unit = 6 /\ f.bits % 6 = 0))
  BY FieldFacts
<1>2. f.unit \in Nat /\ Starts(f) \subseteq Nat
  BY <1>1, StartsOf
<1> QED
  BY <1>2, WrittenEndBounds

\* Fields are counted by natural numbers.
LEMMA LenNat ==
  ASSUME NEW type \in DOMAIN Layout, NEW i \in DOMAIN Layout[type].fields
  PROVE  i \in Nat /\ i <= Len(Layout[type].fields) /\ Len(Layout[type].fields) \in Nat
  BY LayoutsAssumption DEF FieldsSound

\* Of the fields that reach a bit there is a last one.
LEMMA OverMax ==
  ASSUME NEW m, m.type \in DOMAIN Layout, NEW p \in Nat, Over(m, p) # {}
  PROVE  Max(Over(m, p)) \in Over(m, p) /\ \A i \in Over(m, p) : i <= Max(Over(m, p))
<1>1. \A i \in Over(m, p) : i \in Nat /\ i <= Len(Fields(m)) /\ Len(Fields(m)) \in Nat
  BY LenNat DEF Over, WrittenAt, Fields
<1>2. Len(Fields(m)) \in Nat
  BY <1>1
<1> QED
  BY <1>1, <1>2, MaxOf

\* Of exclusive parts one at most is written.
LEMMA ExclusiveParts ==
  ASSUME NEW contents, NEW p, NEW q, Exclusive(p, q)
  PROVE  ~(Written(contents, p) /\ Written(contents, q))
<1>1. \/ {p, q} = {"A", "B"} \/ {p, q} = {"A", "dimension"} \/ {p, q} = {"A", "mothership"}
      \/ {p, q} = {"dimension", "mothership"} \/ {p, q} = {"addressed", "broadcast"}
  BY DEF Exclusive
<1>2. /\ Written(contents, "A") <=> ~Nonzero(contents.part_number)
      /\ Written(contents, "B") <=> Nonzero(contents.part_number)
      /\ Written(contents, "mothership") <=> Nonzero(contents.part_number) /\ Auxiliary(contents)
      /\ Written(contents, "dimension") <=> Nonzero(contents.part_number) /\ ~Auxiliary(contents)
      /\ Written(contents, "addressed") <=> Nonzero(contents.addressed)
      /\ Written(contents, "broadcast") <=> ~Nonzero(contents.addressed)
  BY DEF Written, Nonzero, Auxiliary
<1> QED
  BY <1>1, <1>2, Zenon

\* Bits of the set that no field has.
LEMMA UnwrittenBit ==
  ASSUME NEW m, m.type \in DOMAIN Layout, NEW p \in 1..BodySize(m),
         \A i \in WrittenAt(m) : ~(p \in (Fields(m)[i].ofs + 1)..(Fields(m)[i].ofs + Fields(m)[i].bits))
  PROVE  Body(m)[p] = Zero
<1>1. Body(m)[p] = IF Over(m, p) = {} THEN Zero ELSE BodyBit(m, Max(Over(m, p)), p)
  BY DEF Body
<1>2. CASE Over(m, p) = {}
  BY <1>1, <1>2
<1>3. CASE Over(m, p) # {}
  <2>1. p \in Nat
    BY SizeFacts, BodySizeFacts
  <2>2. PICK k : k = Max(Over(m, p)) /\ k \in Over(m, p)
    BY <1>3, OverMax, <2>1
  <2> DEFINE f == Fields(m)[k]
  <2>3. k \in WrittenAt(m) /\ Reaching(f, p) # {} /\ f \in FieldsOf(m.type)
    BY <2>2, FieldAt DEF Over, WrittenAt, Fields
  <2> HIDE DEF f
  <2>4. f.ofs < p /\ f.ofs \in Nat /\ f.bits \in Nat
    BY <2>1, <2>3, ReachingFacts, FieldFacts
  <2>5. p > f.ofs + f.bits
    <3>1. ~(p \in (f.ofs + 1)..(f.ofs + f.bits))
      BY <2>3 DEF f
    <3> QED
      BY <2>1, <2>4, <3>1
  <2>6. ~(p <= Max(Reaching(f, p)) + f.unit)
    BY <2>1, <2>3, <2>5, ReachingFacts
  <2>7. BodyBit(m, k, p) = Zero
    BY <2>6 DEF BodyBit, f
  <2> QED
    BY <1>1, <1>3, <2>2, <2>7
<1> QED
  BY <1>2, <1>3

\* Bits of a field that is written: as they are, or lost to a later field.
LEMMA WrittenBit ==
  ASSUME NEW m, WellFormed(m), NEW i \in WrittenAt(m),
         NEW p \in (Fields(m)[i].ofs + 1)..(Fields(m)[i].ofs + Fields(m)[i].bits)
  PROVE  \/ Body(m)[p] = m.contents[Fields(m)[i].name][p - Fields(m)[i].ofs]
         \/ /\ Body(m)[p] = Zero
            /\ \E j \in WrittenAt(m) : Overwrites(m.type, Fields(m)[j], Fields(m)[i])
<1> DEFINE f == Fields(m)[i]
<1>1. m.type \in DOMAIN Layout
  BY DEF WellFormed
<1>2. f \in FieldsOf(m.type) /\ i \in DOMAIN Fields(m)
  BY <1>1, FieldAt DEF WrittenAt, Fields
<1>3. p \in (f.ofs + 1)..(f.ofs + f.bits)
  OBVIOUS
<1>4. f.ofs + f.bits <= BodySize(m) /\ BodySize(m) \in Nat
  BY <1>1, BodySizeFacts, SizeFacts
<1> HIDE DEF f
<1>5. f.ofs \in Nat /\ f.bits \in Nat
  BY <1>1, <1>2, FieldFacts
<1>6. p \in Nat /\ p \in 1..BodySize(m)
  BY <1>3, <1>4, <1>5
<1>7. Reaching(f, p) # {} /\ p <= Max(Reaching(f, p)) + f.unit
  BY <1>1, <1>2, <1>3, <1>6, ReachingFacts
<1>8. i \in Over(m, p)
  BY <1>7 DEF Over, f
<1>9. PICK j : j = Max(Over(m, p)) /\ j \in Over(m, p) /\ i <= j
  BY <1>1, <1>6, <1>8, OverMax
<1>10. Body(m)[p] = BodyBit(m, j, p)
  BY <1>6, <1>8, <1>9 DEF Body
<1>11. CASE j = i
  BY <1>7, <1>10, <1>11 DEF BodyBit, f
<1>12. CASE j # i
  <2> DEFINE g == Fields(m)[j]
  <2>1. j \in WrittenAt(m) /\ j \in DOMAIN Fields(m) /\ Reaching(g, p) # {} /\ g \in FieldsOf(m.type)
    BY <1>1, <1>9, FieldAt DEF Over, WrittenAt, Fields
  <2>2. i < j
    <3>1. i \in Nat /\ j \in Nat
      BY <1>1, <1>2, <2>1, FieldAt, LenNat DEF Fields
    <3> QED
      BY <1>9, <1>12, <3>1
  <2>3. \/ f.ofs + f.bits <= g.ofs
        \/ Exclusive(f.part, g.part)
        \/ /\ g.ofs + g.bits <= f.ofs
           /\ \/ \A s \in Starts(g) : B!WrittenEnd(s, g.unit) <= f.ofs
              \/ Overwrites(m.type, g, f)
    BY <1>1, <1>2, <2>1, <2>2, LayoutsAssumption DEF OrderSound, Fields, f
  <2>4. Written(m.contents, f.part) /\ Written(m.contents, g.part)
    BY <2>1 DEF WrittenAt, f
  <2> HIDE DEF g
  <2>5. g.ofs < p /\ g.ofs \in Nat /\ g.bits \in Nat
    BY <1>1, <1>6, <2>1, ReachingFacts, FieldFacts
  <2>6. ~(f.ofs + f.bits <= g.ofs)
    BY <1>3, <1>5, <2>5
  <2>7. ~Exclusive(f.part, g.part)
    BY <2>4, ExclusiveParts
  <2>8. g.ofs + g.bits < p
    BY <1>3, <1>5, <2>3, <2>5, <2>6, <2>7
  <2>9. BodyBit(m, j, p) = Zero
    <3>1. ~(p <= Max(Reaching(g, p)) + g.unit)
      BY <1>1, <1>6, <2>1, <2>5, <2>8, ReachingFacts
    <3> QED
      BY <3>1 DEF BodyBit, g
  <2>10. ~ \A s \in Starts(g) : B!WrittenEnd(s, g.unit) <= f.ofs
    <3>1. PICK s \in Starts(g) : p \in (s + 1)..B!WrittenEnd(s, g.unit)
      BY <2>1 DEF Reaching
    <3>2. s \in Nat /\ B!WrittenEnd(s, g.unit) \in Nat
      BY <1>1, <2>1, StartsNat
    <3> QED
      BY <1>3, <1>5, <1>6, <3>1, <3>2
  <2>11. Overwrites(m.type, g, f)
    BY <2>3, <2>6, <2>7, <2>10
  <2> QED
    BY <1>10, <2>1, <2>9, <2>11 DEF f, g
<1> QED
  BY <1>11, <1>12

\* A bit nobody has written is a bit.
LEMMA ZeroIsBit == Zero \in Bit
  BY SourcesAssumption DEF Zero, Bit

\* The set with the fields is a sequence of bits.
LEMMA BodyIsBits ==
  ASSUME NEW m, WellFormed(m)
  PROVE  Body(m) \in Seq(Bit) /\ Len(Body(m)) = BodySize(m) /\ BodySize(m) \in Nat
<1>1. m.type \in DOMAIN Layout
  BY DEF WellFormed
<1>2. BodySize(m) \in Nat
  BY <1>1, BodySizeFacts, SizeFacts
<1>3. ASSUME NEW p \in 1..BodySize(m) PROVE Body(m)[p] \in Bit
  <2>1. CASE \E i \in WrittenAt(m) : p \in (Fields(m)[i].ofs + 1)..(Fields(m)[i].ofs + Fields(m)[i].bits)
    <3>1. PICK i \in WrittenAt(m) : p \in (Fields(m)[i].ofs + 1)..(Fields(m)[i].ofs + Fields(m)[i].bits)
      BY <2>1
    <3> DEFINE f == Fields(m)[i]
    <3>2. f \in FieldsOf(m.type)
      BY <1>1, FieldAt DEF WrittenAt, Fields
    <3>3. Body(m)[p] = m.contents[f.name][p - f.ofs] \/ Body(m)[p] = Zero
      BY <3>1, WrittenBit
    <3> HIDE DEF f
    <3>4. f.ofs \in Nat /\ f.bits \in Nat
      BY <1>1, <3>2, FieldFacts
    <3>5. p - f.ofs \in 1..f.bits
      BY <1>2, <3>1, <3>4 DEF f
    <3>6. m.contents[f.name] \in [1..f.bits -> Bit]
      BY <3>2 DEF WellFormed
    <3> QED
      BY <3>3, <3>5, <3>6, ZeroIsBit
  <2>2. CASE ~ \E i \in WrittenAt(m) : p \in (Fields(m)[i].ofs + 1)..(Fields(m)[i].ofs + Fields(m)[i].bits)
    BY <1>1, <2>2, UnwrittenBit, ZeroIsBit
  <2> QED
    BY <2>1, <2>2
<1>4. Body(m) = [p \in 1..BodySize(m) |-> Body(m)[p]]
  BY DEF Body
<1>5. Body(m) \in [1..BodySize(m) -> Bit]
  BY <1>3, <1>4
<1> QED
  BY <1>2, <1>5, LenProperties

\* Zeros, and a sequence with zeros behind it.
LEMMA ZerosFacts ==
  ASSUME NEW n \in Nat
  PROVE  Zeros(n) \in Seq(Bit) /\ Len(Zeros(n)) = n /\ \A i \in 1..n : Zeros(n)[i] = Zero
<1>1. Zeros(n) \in [1..n -> Bit]
  BY ZeroIsBit DEF Zeros
<1> QED
  BY <1>1 DEF Zeros

\* A sequence with zeros behind it.
LEMMA Filled ==
  ASSUME NEW s \in Seq(Bit), NEW n \in Nat
  PROVE  /\ s \o Zeros(n) \in Seq(Bit)
         /\ Len(s \o Zeros(n)) = Len(s) + n
         /\ \A i \in 1..(Len(s) + n) : (s \o Zeros(n))[i] = IF i <= Len(s) THEN s[i] ELSE Zero
<1>1. Zeros(n) \in Seq(Bit) /\ Len(Zeros(n)) = n /\ Len(s) \in Nat
  BY ZerosFacts, LenProperties
<1>2. /\ s \o Zeros(n) \in Seq(Bit)
      /\ Len(s \o Zeros(n)) = Len(s) + n
      /\ \A i \in 1..(Len(s) + n) : (s \o Zeros(n))[i] = IF i <= Len(s) THEN s[i] ELSE Zeros(n)[i - Len(s)]
  BY <1>1, ConcatProperties
<1>3. \A i \in 1..(Len(s) + n) : ~(i <= Len(s)) => i - Len(s) \in 1..n
  BY <1>1
<1> QED
  BY <1>2, <1>3, ZerosFacts

\* How much there is behind the head, and what.
LEMMA TailFacts ==
  ASSUME NEW m, WellFormed(m)
  PROVE  LET l == Layout[m.type]
             t == TailData(m.type, m.tail)
         IN /\ t \in Seq(Bit) /\ Len(t) \in Nat /\ l.head + Len(t) <= l.max
            /\ l.tail = "none" => t = << >>
            /\ l.tail = "payload" => t = m.tail
            /\ Len(m.tail) <= Len(t) /\ Len(t) <= Len(m.tail) + 7
            /\ \A k \in 1..Len(t) : t[k] = IF k <= Len(m.tail) THEN m.tail[k] ELSE Zero
<1> DEFINE l == Layout[m.type]
           t == TailData(m.type, m.tail)
           n == Len(m.tail)
           up == B!Up(n)
<1>1. l.head \in Nat /\ l.max \in Nat /\ l.head <= l.max
  BY SizeFacts DEF WellFormed
<1>2. m.tail \in Seq(Bit) /\ n \in Nat /\ n <= l.max - l.head
  BY LenProperties DEF WellFormed
<1>3. CASE l.tail = "text"
  <2>1. (l.max - l.head) % 8 = 0
    BY <1>3, SizeFacts DEF WellFormed
  <2>2. up \in Nat /\ n <= up /\ up <= n + 7 /\ up <= l.max - l.head
    <3> HIDE DEF n, l
    <3> QED
      BY <1>1, <1>2, <2>1 DEF B!Up, B!BlockStart
  <2>3. t = m.tail \o Zeros(up - n)
    BY <1>3, <2>2 DEF TailData
  <2>4. up - n \in Nat /\ n + (up - n) = up
    BY <1>2, <2>2
  <2> HIDE DEF up, n, t
  <2>5. /\ m.tail \o Zeros(up - n) \in Seq(Bit)
        /\ Len(m.tail \o Zeros(up - n)) = Len(m.tail) + (up - n)
        /\ \A i \in 1..(Len(m.tail) + (up - n)) :
             (m.tail \o Zeros(up - n))[i] = IF i <= Len(m.tail) THEN m.tail[i] ELSE Zero
    BY <1>2, <2>4, Filled
  <2>6. t \in Seq(Bit) /\ Len(t) = up /\ \A k \in 1..up : t[k] = IF k <= n THEN m.tail[k] ELSE Zero
    BY <2>3, <2>4, <2>5 DEF n
  <2>7. l.head + Len(t) <= l.max /\ Len(t) \in Nat
    BY <1>1, <2>2, <2>6
  <2> HIDE DEF l
  <2>8. n <= Len(t) /\ Len(t) <= n + 7
    BY <2>2, <2>6
  <2> QED
    BY <1>3, <2>6, <2>7, <2>8 DEF t, l, n
<1>4. CASE l.tail # "text"
  <2>1. t = m.tail
    BY <1>4 DEF TailData
  <2>2. l.tail = "none" => m.tail = << >>
    BY DEF WellFormed
  <2> HIDE DEF t, n, l
  <2>3. Len(t) = n /\ l.head + n <= l.max /\ n <= n + 7
    BY <1>1, <1>2, <2>1 DEF n
  <2> QED
    BY <1>2, <2>1, <2>2, <2>3 DEF t, n, l
<1> QED
  BY <1>3, <1>4

\* The data of a message: the set with the fields, and what follows.
LEMMA DataFacts ==
  ASSUME NEW m, WellFormed(m)
  PROVE  LET l == Layout[m.type]
             data == GetData(m)
         IN /\ data \in Seq(Bit) /\ Len(data) \in Nat
            /\ Len(data) \in l.sizes /\ l.head <= BodySize(m) /\ BodySize(m) <= Len(data)
            /\ BodySize(m) \in Nat
            /\ \A p \in 1..BodySize(m) : data[p] = Body(m)[p]
            /\ l.tail = "none" => Len(data) = BodySize(m)
            /\ l.tail = "payload" => Len(data) = l.head + Len(m.tail)
            /\ l.tail # "none" =>
                 /\ BodySize(m) = l.head
                 /\ l.head + Len(m.tail) <= Len(data) /\ Len(data) <= l.head + Len(m.tail) + 7
                 /\ \A k \in 1..(Len(data) - l.head) :
                      data[l.head + k] = IF k <= Len(m.tail) THEN m.tail[k] ELSE Zero
<1> DEFINE l == Layout[m.type]
           t == TailData(m.type, m.tail)
           data == GetData(m)
<1>1. m.type \in DOMAIN Layout
  BY DEF WellFormed
<1>2. /\ l.head \in Nat \ {0} /\ l.max \in Nat /\ l.head <= l.max
      /\ l.head..l.max \subseteq l.sizes
  BY <1>1, SizeFacts
<1>3. /\ t \in Seq(Bit) /\ Len(t) \in Nat /\ l.head + Len(t) <= l.max
      /\ l.tail = "none" => t = << >>
      /\ l.tail = "payload" => t = m.tail
      /\ Len(m.tail) <= Len(t) /\ Len(t) <= Len(m.tail) + 7
      /\ \A k \in 1..Len(t) : t[k] = IF k <= Len(m.tail) THEN m.tail[k] ELSE Zero
  BY TailFacts
<1>4. /\ BodySize(m) \in l.head..l.max
      /\ l.tail # "none" => BodySize(m) = l.head
  BY <1>1, BodySizeFacts
<1>5. Body(m) \in Seq(Bit) /\ Len(Body(m)) = BodySize(m) /\ BodySize(m) \in Nat
  BY BodyIsBits
<1>6. data = Body(m) \o t
  BY GetDataIs
<1>7. Len(m.tail) \in Nat
  BY LenProperties DEF WellFormed
<1> HIDE DEF l, t, data
<1>8. /\ data \in Seq(Bit) /\ Len(data) = BodySize(m) + Len(t)
      /\ \A i \in 1..(BodySize(m) + Len(t)) :
           data[i] = IF i <= BodySize(m) THEN Body(m)[i] ELSE t[i - BodySize(m)]
  <2> DEFINE b == Body(m)
             n == BodySize(m)
  <2>1. b \in Seq(Bit) /\ t \in Seq(Bit) /\ Len(b) = n /\ data = b \o t
    BY <1>3, <1>5, <1>6
  <2> HIDE DEF b, n
  <2>2. /\ b \o t \in Seq(Bit) /\ Len(b \o t) = Len(b) + Len(t)
        /\ \A i \in 1..(Len(b) + Len(t)) : (b \o t)[i] = IF i <= Len(b) THEN b[i] ELSE t[i - Len(b)]
    BY <2>1, ConcatProperties
  <2> QED
    BY <2>1, <2>2 DEF b, n
<1>9. l.tail = "none" => Len(t) = 0
  BY <1>3, EmptySeq
<1>10. Len(data) \in Nat /\ Len(data) \in l.sizes
  <2>1. CASE l.tail = "none"
    BY <1>2, <1>4, <1>5, <1>8, <1>9, <2>1
  <2>2. CASE l.tail # "none"
    <3>1. Len(data) = l.head + Len(t)
      BY <1>4, <1>8, <2>2
    <3>2. Len(data) \in l.head..l.max
      BY <1>2, <1>3, <3>1
    <3> QED
      BY <1>2, <3>2
  <2> QED
    BY <2>1, <2>2
<1>11. l.head <= BodySize(m) /\ BodySize(m) <= Len(data)
  BY <1>2, <1>3, <1>4, <1>5, <1>8
<1>12. \A p \in 1..BodySize(m) : data[p] = Body(m)[p]
  BY <1>3, <1>5, <1>8
<1>13. ASSUME l.tail # "none"
       PROVE  /\ BodySize(m) = l.head
              /\ l.head + Len(m.tail) <= Len(data) /\ Len(data) <= l.head + Len(m.tail) + 7
              /\ \A k \in 1..(Len(data) - l.head) :
                   data[l.head + k] = IF k <= Len(m.tail) THEN m.tail[k] ELSE Zero
  <2>1. BodySize(m) = l.head /\ Len(data) = l.head + Len(t)
    BY <1>4, <1>8, <1>13
  <2>2. l.head + Len(m.tail) <= Len(data) /\ Len(data) <= l.head + Len(m.tail) + 7
    BY <1>2, <1>3, <1>7, <2>1
  <2>3. ASSUME NEW k \in 1..(Len(data) - l.head)
        PROVE  data[l.head + k] = IF k <= Len(m.tail) THEN m.tail[k] ELSE Zero
    <3>1. k \in 1..Len(t) /\ l.head + k \in 1..(BodySize(m) + Len(t)) /\ ~(l.head + k <= BodySize(m))
          /\ (l.head + k) - BodySize(m) = k
      BY <1>2, <1>3, <2>1
    <3>2. data[l.head + k] = t[k]
      BY <1>8, <3>1
    <3> QED
      BY <1>3, <3>1, <3>2
  <2> QED
    BY <2>1, <2>2, <2>3
<1>14. l.tail = "none" => Len(data) = BodySize(m)
  BY <1>5, <1>8, <1>9
<1>15. l.tail = "payload" => Len(data) = l.head + Len(m.tail)
  BY <1>3, <1>4, <1>8
<1> QED
  BY <1>8, <1>10, <1>11, <1>5, <1>12, <1>13, <1>14, <1>15 DEF l, data

-----------------------------------------------------------------------------
\* The last bit of a payload, counted through all of them.
PayloadEnd(bits, i) == IF i = Len(Payloads(bits)) THEN Len(bits) ELSE 336 * i

\* A payload is full, or the last one; without the padding it has the bits from
\* its place on.
PayloadSound(bits, i) ==
  LET q == Payloads(bits)[i] IN
  /\ q.bits \in Seq(Bit) /\ Len(q.bits) \in Nat
  /\ Len(q.bits) % 6 = 0 /\ Len(q.bits) > 0
  /\ IF i = Len(Payloads(bits)) THEN Len(q.bits) <= 336 /\ q.pad \in 0..5
                                ELSE Len(q.bits) = 336 /\ q.pad = 0
  /\ 336 * (i - 1) < PayloadEnd(bits, i) /\ PayloadEnd(bits, i) <= Len(bits)
  /\ SubSeq(q.bits, 1, Len(q.bits) - q.pad) = SubSeq(bits, 336 * (i - 1) + 1, PayloadEnd(bits, i))

\* encode_message cuts the bits into such payloads.
LEMMA OnePayload ==
  ASSUME NEW bits \in Seq(Bit), NEW i \in 1..Len(Payloads(bits))
  PROVE  PayloadSound(bits, i)
<1> DEFINE n == Len(bits)
           c == Characters(bits)
           parts == (c + 55) \div 56
           filled == bits \o Zeros(6 * c - n)
           End(j) == IF j = parts THEN 6 * c ELSE 336 * j
           P == Payloads(bits)
           q == P[i]
           to == PayloadEnd(bits, i)
           from == 336 * (i - 1)
<1>1. n \in Nat /\ bits \in [1..n -> Bit]
  BY LenProperties
<1>2. c = (n + 5) \div 6
  BY DEF Characters
<1>3. c \in Nat /\ n <= 6 * c /\ 6 * c <= n + 5 /\ 6 * c - n \in 0..5 /\ parts \in Nat
  <2> HIDE DEF n, c
  <2> QED
    BY <1>1, <1>2
<1>4. P = [j \in 1..parts |-> [bits |-> SubSeq(filled, 336 * (j - 1) + 1, End(j)),
                               pad |-> IF j = parts THEN 6 * c - n ELSE 0]]
  BY DEF Payloads, PayloadSize
<1>5. /\ filled \in Seq(Bit) /\ Len(filled) = 6 * c
      /\ \A k \in 1..(6 * c) : filled[k] = IF k <= n THEN bits[k] ELSE Zero
  <2> DEFINE z == 6 * c - n
  <2>1. z \in Nat /\ n + z = 6 * c
    BY <1>1, <1>3
  <2> HIDE DEF z
  <2>2. /\ bits \o Zeros(z) \in Seq(Bit) /\ Len(bits \o Zeros(z)) = Len(bits) + z
        /\ \A k \in 1..(Len(bits) + z) : (bits \o Zeros(z))[k] = IF k <= Len(bits) THEN bits[k] ELSE Zero
    BY <2>1, Filled
  <2> QED
    BY <2>1, <2>2 DEF z
<1> HIDE DEF filled, c, P, n, parts
<1>6. Len(P) = parts
  BY <1>3, <1>4
<1>7. i \in 1..parts /\ i \in Nat /\ from \in Nat
  BY <1>3, <1>6 DEF P
<1> DEFINE e == End(i)
           d == IF i = parts THEN 6 * c - n ELSE 0
<1>8. q.bits = SubSeq(filled, from + 1, e) /\ q.pad = d
  BY <1>4, <1>7
<1>9. /\ e \in Nat /\ to \in Nat /\ d \in 0..5
      /\ from < e /\ e <= 6 * c /\ from < to /\ to <= n /\ to = e - d
      /\ (e - from) % 6 = 0 /\ e - from <= 336
      /\ i # parts => e - from = 336 /\ d = 0
  <2>1. 56 * (parts - 1) < c /\ c <= 56 * parts
    BY <1>3 DEF parts
  <2>2. i < parts => 56 * i <= 56 * (parts - 1)
    BY <1>3, <1>7
  <2>3. i = parts => to = n /\ e = 6 * c /\ d = 6 * c - n
    BY <1>6 DEF PayloadEnd, P, n
  <2>4. i # parts => to = 336 * i /\ e = 336 * i /\ d = 0
    BY <1>6 DEF PayloadEnd, P
  <2> HIDE DEF to, e, d
  <2>5. CASE i = parts
    <3>1. 336 * (i - 1) < n
      BY <1>1, <1>2, <1>3, <1>7, <2>1, <2>5
    <3>2. (6 * c - 336 * (i - 1)) % 6 = 0
      BY <1>3, <1>7
    <3> QED
      BY <1>1, <1>3, <1>7, <2>1, <2>3, <2>5, <3>1, <3>2
  <2>6. CASE i # parts
    <3>1. i < parts
      BY <1>3, <1>7, <2>6
    <3>2. 336 * i < 6 * c /\ 336 * i <= n
      BY <1>1, <1>2, <1>3, <1>7, <2>1, <2>2, <3>1
    <3> QED
      BY <1>1, <1>3, <1>7, <2>4, <2>6, <3>2
  <2> QED
    BY <2>5, <2>6
<1> HIDE DEF e, d, to, from, q
<1>10. /\ q.bits \in Seq(Bit) /\ Len(q.bits) = e - from
       /\ \A k \in 1..(e - from) : q.bits[k] = filled[from + k]
  <2>1. \A k \in (from + 1)..e : k \in 1..Len(filled)
    BY <1>3, <1>5, <1>7, <1>9
  <2>2. \A k \in (from + 1)..e : filled[k] \in Bit
    BY <1>5, <2>1, ElementOfSeq
  <2> DEFINE a == from + 1
  <2>3. a \in Int /\ e \in Int /\ a <= e /\ e - a + 1 = e - from
    BY <1>7, <1>9
  <2>4. \A k \in 1..(e - from) : a + k - 1 = from + k
    BY <1>7, <1>9
  <2> HIDE DEF a
  <2>5. /\ SubSeq(filled, a, e) \in Seq(Bit)
        /\ Len(SubSeq(filled, a, e)) = IF a <= e THEN e - a + 1 ELSE 0
        /\ \A k \in 1..(e - a + 1) : SubSeq(filled, a, e)[k] = filled[a + k - 1]
    BY <2>2, <2>3, SubSeqProperties DEF a
  <2>6. q.bits = SubSeq(filled, a, e)
    BY <1>8 DEF a
  <2>7. Len(q.bits) = e - from
    BY <2>3, <2>5, <2>6
  <2>8. \A k \in 1..(e - from) : q.bits[k] = filled[from + k]
    BY <2>3, <2>4, <2>5, <2>6
  <2> QED
    BY <2>5, <2>6, <2>7, <2>8
<1>11. Len(q.bits) - q.pad = to - from
  <2>1. Len(q.bits) = e - from /\ q.pad = d
    BY <1>8, <1>10
  <2> QED
    BY <1>7, <1>9, <2>1
<1>12. SubSeq(q.bits, 1, Len(q.bits) - q.pad) = SubSeq(bits, from + 1, to)
  <2>1. to - from \in Nat /\ to - from <= e - from
    BY <1>7, <1>9
  <2>2. SubSeq(q.bits, 1, to - from) = [k \in 1..(to - from) |-> q.bits[k]]
    BY <2>1
  <2>3. SubSeq(bits, from + 1, to) = [k \in 1..(to - from) |-> bits[from + k]]
    BY <1>7, <1>9, <2>1
  <2>4. ASSUME NEW k \in 1..(to - from) PROVE q.bits[k] = bits[from + k]
    <3>1. k \in 1..(e - from) /\ from + k \in 1..(6 * c) /\ from + k <= n
      BY <1>1, <1>3, <1>7, <1>9
    <3> QED
      BY <1>5, <1>10, <3>1
  <2> QED
    BY <1>11, <2>2, <2>3, <2>4
<1>13. /\ Len(q.bits) \in Nat /\ Len(q.bits) % 6 = 0 /\ Len(q.bits) > 0
       /\ IF i = parts THEN Len(q.bits) <= 336 /\ q.pad \in 0..5
                       ELSE Len(q.bits) = 336 /\ q.pad = 0
  <2>1. Len(q.bits) = e - from /\ q.pad = d
    BY <1>8, <1>10
  <2>2. e - from \in Nat /\ e - from > 0
    BY <1>7, <1>9
  <2> QED
    BY <1>9, <2>1, <2>2
<1> QED
  BY <1>6, <1>9, <1>10, <1>12, <1>13 DEF PayloadSound, q, P, to, from, n

\* What is collected of the payloads is what was encoded.
LEMMA CollectedPayloads ==
  ASSUME NEW bits \in Seq(Bit)
  PROVE  /\ Collected(Payloads(bits)) = bits
         /\ Payloads(bits) \in Seq([bits : Seq(Bit), pad : 0..5])
         /\ Payloads(bits) = << >> => bits = << >>
<1> DEFINE P == Payloads(bits)
           n == Len(bits)
           parts == Len(P)
           Piece(i) == SubSeq(P[i].bits, 1, Len(P[i].bits) - P[i].pad)
           pieces == [i \in DOMAIN P |-> Piece(i)]
           To(i) == IF i = parts THEN n ELSE 336 * i
           p == [i \in 0..parts |-> SubSeq(bits, 1, To(i))]
<1>1. parts \in Nat /\ DOMAIN P = 1..parts /\ n \in Nat
  BY LenProperties DEF Payloads, PayloadSize, Characters
<1> HIDE DEF P
<1>2. ASSUME NEW i \in 1..parts
      PROVE  /\ 336 * (i - 1) < To(i) /\ To(i) <= n
             /\ Piece(i) = SubSeq(bits, 336 * (i - 1) + 1, To(i))
             /\ P[i].bits \in Seq(Bit) /\ P[i].pad \in 0..5
  <2>1. i \in 1..Len(Payloads(bits))
    BY DEF P
  <2>2. PayloadSound(bits, i)
    BY <2>1, OnePayload
  <2>3. Payloads(bits) = P /\ PayloadEnd(bits, i) = To(i)
    BY DEF P, PayloadEnd
  <2> HIDE DEF To, pieces, p
  <2>4. /\ 336 * (i - 1) < To(i) /\ To(i) <= n
        /\ Piece(i) = SubSeq(bits, 336 * (i - 1) + 1, To(i)) /\ P[i].bits \in Seq(Bit)
    BY <2>2, <2>3 DEF PayloadSound
  <2>5. P[i].pad \in 0..5
    <3>1. P[i].pad \in 0..5 \/ P[i].pad = 0
      BY <2>2, <2>3 DEF PayloadSound
    <3> QED
      BY <3>1
  <2> QED
    BY <2>4, <2>5
<1>3. parts = 0 <=> n = 0
  <2>1. parts = ((n + 5) \div 6 + 55) \div 56
    BY <1>1 DEF P, Payloads, PayloadSize, Characters
  <2> QED
    BY <1>1, <2>1
<1> HIDE DEF n, parts
<1>4. ASSUME NEW i \in 1..parts
      PROVE  i \in Nat /\ To(i) \in Nat /\ To(i - 1) = 336 * (i - 1) /\ i - 1 \in 0..parts /\ i \in 0..parts
  BY <1>1, <1>4
<1> HIDE DEF To, Piece
<1>5. ASSUME NEW i \in 1..parts PROVE Piece(i) \in Seq(Bit) /\ p[i] = p[i - 1] \o Piece(i)
  <2> DEFINE k == 336 * (i - 1)
             t == To(i)
  <2>1. k \in 0..n /\ t \in k..n /\ 1 \in 1..(n + 1) /\ k < t /\ k \in Nat /\ t \in Nat
    BY <1>1, <1>2, <1>4, SMTT(60)
  <2>2. p[i - 1] = SubSeq(bits, 1, k) /\ p[i] = SubSeq(bits, 1, t)
    BY <1>4
  <2>3. Piece(i) = SubSeq(bits, k + 1, t)
    BY <1>2
  <2> HIDE DEF k, t
  <2>4. SubSeq(bits, 1, k) \o SubSeq(bits, k + 1, t) = SubSeq(bits, 1, t)
    <3>1. 1 \in 1..(Len(bits) + 1) /\ k \in (1 - 1)..Len(bits) /\ t \in k..Len(bits)
      BY <2>1 DEF n
    <3> QED
      BY <3>1, ConcatAdjacentSubSeq
  <2>5. SubSeq(bits, k + 1, t) \in Seq(Bit)
    <3>1. \A j \in (k + 1)..t : j \in 1..Len(bits)
      BY <1>1, <2>1 DEF n
    <3>2. k + 1 \in Int /\ t \in Int /\ \A j \in (k + 1)..t : bits[j] \in Bit
      BY <2>1, <3>1, ElementOfSeq
    <3> QED
      BY <3>2, SubSeqProperties
  <2> QED
    BY <2>2, <2>3, <2>4, <2>5
<1>6. pieces \in Seq(Seq(Bit)) /\ Len(pieces) = parts /\ \A i \in 1..parts : pieces[i] = Piece(i)
  <2>1. pieces \in [1..parts -> Seq(Bit)]
    BY <1>1, <1>5
  <2> QED
    BY <1>1, <2>1
<1>7. p[0] = << >> /\ p[parts] = bits
  <2>1. p[parts] = SubSeq(bits, 1, To(parts)) /\ p[0] = SubSeq(bits, 1, To(0))
    <3>1. 0 \in 0..parts /\ parts \in 0..parts
      BY <1>1
    <3> QED
      BY <3>1
  <2>2. To(parts) = n
    BY <1>1 DEF To
  <2>3. To(0) = 0
    BY <1>1, <1>3 DEF To
  <2>4. SubSeq(bits, 1, n) = bits
    BY SubSeqFull DEF n
  <2>5. SubSeq(bits, 1, 0) = << >>
    BY SubSeqEmpty
  <2> QED
    BY <2>1, <2>2, <2>3, <2>4, <2>5
<1>8. Collected(P) = FlattenSeq(pieces)
  BY DEF Collected, Piece
<1> HIDE DEF p, pieces
<1>9. Collected(P) = bits
  <2>1. \A i \in 1..Len(pieces) : p[i] = p[i - 1] \o pieces[i]
    BY <1>5, <1>6
  <2>2. FlattenSeq(pieces) = p[Len(pieces)]
    BY <1>6, <1>7, <2>1, FlattenIs
  <2> QED
    BY <1>6, <1>7, <1>8, <2>2
<1>10. P \in [1..parts -> [bits : Seq(Bit), pad : 0..5]]
  <2>1. P = [i \in 1..parts |-> [bits |-> P[i].bits, pad |-> P[i].pad]]
    BY <1>1 DEF P, Payloads
  <2> QED
    BY <1>2, <2>1
<1>11. P \in Seq([bits : Seq(Bit), pad : 0..5])
  <2> DEFINE X == [bits : Seq(Bit), pad : 0..5]
  <2> HIDE DEF X
  <2>1. P \in [1..parts -> X]
    BY <1>10 DEF X
  <2>2. P \in Seq(X)
    BY <1>1, <2>1
  <2> QED
    BY <2>2 DEF X
<1>12. P = << >> => bits = << >>
  <2>1. P = << >> => parts = 0
    BY DEF parts
  <2>2. n = 0 => bits = << >>
    BY EmptySeq DEF n
  <2> QED
    BY <1>3, <2>1, <2>2
<1> QED
  BY <1>9, <1>11, <1>12 DEF P

-----------------------------------------------------------------------------
\* The data of a message, or what another encoder has left of it.
Cut(m, n) == SubSeq(GetData(m), 1, n)

\* What is left of the data of a message has the length it was cut to.
LEMMA CutFacts ==
  ASSUME NEW m, WellFormed(m), NEW n \in 0..Len(GetData(m))
  PROVE  /\ Cut(m, n) \in Seq(Bit) /\ Len(Cut(m, n)) = n /\ n \in Nat
         /\ \A p \in 1..n : Cut(m, n)[p] = GetData(m)[p] /\ Cut(m, n)[p] \in Bit
<1> DEFINE d == GetData(m)
<1>1. d \in Seq(Bit) /\ Len(d) \in Nat
  BY DataFacts
<1>2. n \in 0..Len(d)
  OBVIOUS
<1> HIDE DEF d
<1>3. \A p \in 1..n : p \in 1..Len(d) /\ d[p] \in Bit
  BY <1>1, <1>2, ElementOfSeq
<1>4. n \in Int /\ 1 \in Int /\ n \in Nat
  BY <1>1, <1>2
<1>5. /\ SubSeq(d, 1, n) \in Seq(Bit)
      /\ Len(SubSeq(d, 1, n)) = IF 1 <= n THEN n - 1 + 1 ELSE 0
      /\ \A p \in 1..(n - 1 + 1) : SubSeq(d, 1, n)[p] = d[1 + p - 1]
  BY <1>3, <1>4, SubSeqProperties
<1>6. n - 1 + 1 = n /\ \A p \in 1..n : 1 + p - 1 = p
  BY <1>4
<1>7. Len(SubSeq(d, 1, n)) = n
  BY <1>4, <1>5, <1>6
<1>8. \A p \in 1..n : SubSeq(d, 1, n)[p] = d[p]
  BY <1>5, <1>6
<1> QED
  BY <1>3, <1>4, <1>5, <1>7, <1>8 DEF Cut, d

\* What is read of a field inside of it.
LEMMA ValueIs ==
  ASSUME NEW bits \in Seq(Bit), NEW type \in DOMAIN Layout, NEW f \in FieldsOf(type), Inside(bits, f)
  PROVE  /\ Value(bits, f) \in [1..f.bits -> Bit]
         /\ \A j \in 1..f.bits : Value(bits, f)[j] = bits[f.ofs + j] /\ f.ofs + j \in 1..Len(bits)
<1> DEFINE o == f.ofs
           b == f.bits
<1>1. o \in Nat /\ b \in Nat \ {0} /\ Len(bits) \in Nat /\ o + b <= Len(bits)
  BY FieldFacts, LenProperties DEF Inside
<1>2. Value(bits, f) = SubSeq(bits, o + 1, o + b)
  BY DEF Value
<1> HIDE DEF o, b
<1>3. \A j \in 1..b : o + j \in 1..Len(bits) /\ bits[o + j] \in Bit
  <2>1. \A j \in 1..b : o + j \in 1..Len(bits)
    BY <1>1
  <2> QED
    BY <2>1, ElementOfSeq
<1>4. SubSeq(bits, o + 1, o + b) = [j \in 1..b |-> bits[o + j]]
  BY <1>1
<1> QED
  BY <1>2, <1>3, <1>4 DEF o, b

\* No optional part excludes another part that a message with such has.
LEMMA NoExclusiveOptional ==
  ASSUME NEW p \in DOMAIN ReadAbove, NEW q \in {"always"} \cup DOMAIN ReadAbove
  PROVE  ~Exclusive(p, q) /\ ~Exclusive(q, p)
<1>1. p \notin {"A", "B", "dimension", "mothership", "addressed", "broadcast"}
  BY DEF ReadAbove
<1>2. p \in {p, q} /\ p \in {q, p}
  OBVIOUS
<1> QED
  BY <1>1, <1>2 DEF Exclusive

\* Where the position of a broadcast message_22 is written over.
Lost(m, f) ==
  /\ m.type = "message_22" /\ ~Nonzero(m.contents.addressed)
  /\ f.name \in {"addressed", "band_a", "band_b", "zone_size"}

\* A field that was written and is inside of what was left of the data.
LEMMA ReadWritten ==
  ASSUME NEW m, WellFormed(m), NEW n \in 0..Len(GetData(m)),
         NEW f \in FieldsOf(m.type), Written(m.contents, f.part), Inside(Cut(m, n), f)
  PROVE  /\ \A j \in 1..f.bits : \/ Value(Cut(m, n), f)[j] = m.contents[f.name][j]
                                 \/ Value(Cut(m, n), f)[j] = Zero /\ Lost(m, f)
         /\ (Lost(m, f) /\ f.name # "addressed") \/ Value(Cut(m, n), f) = m.contents[f.name]
<1> DEFINE bits == Cut(m, n)
<1>1. bits \in Seq(Bit) /\ Len(bits) = n /\ n \in Nat /\ \A p \in 1..n : bits[p] = GetData(m)[p]
  BY CutFacts
<1>2. m.type \in DOMAIN Layout
  BY DEF WellFormed
<1>3. /\ Value(bits, f) \in [1..f.bits -> Bit]
      /\ \A j \in 1..f.bits : Value(bits, f)[j] = bits[f.ofs + j] /\ f.ofs + j \in 1..n
  BY <1>1, <1>2, ValueIs
<1>4. PICK i \in DOMAIN Fields(m) : f = Fields(m)[i]
  BY <1>2, FieldAt DEF Fields
<1>5. i \in WrittenAt(m)
  BY <1>4 DEF WrittenAt
<1>6. f.ofs \in Nat /\ f.bits \in Nat
  BY <1>2, FieldFacts
<1>7. f.ofs + f.bits <= BodySize(m) /\ BodySize(m) \in Nat
  BY <1>2, <1>4, <1>5, BodySizeFacts, SizeFacts
<1> HIDE DEF bits
<1>8. ASSUME NEW j \in 1..f.bits
      PROVE  \/ Value(bits, f)[j] = m.contents[f.name][j]
             \/ Value(bits, f)[j] = Zero /\ Lost(m, f)
  <2> DEFINE p == f.ofs + j
  <2>1. p \in (f.ofs + 1)..(f.ofs + f.bits) /\ p - f.ofs = j /\ p \in 1..BodySize(m)
    BY <1>6, <1>7
  <2>2. Value(bits, f)[j] = bits[p] /\ p \in 1..n
    BY <1>3
  <2> HIDE DEF p
  <2>3. Value(bits, f)[j] = Body(m)[p]
    BY <1>1, <2>1, <2>2, DataFacts
  <2>4. \/ Body(m)[p] = m.contents[f.name][p - f.ofs]
        \/ Body(m)[p] = Zero /\ \E k \in WrittenAt(m) : Overwrites(m.type, Fields(m)[k], f)
    BY <1>4, <1>5, <2>1, WrittenBit
  <2>5. (\E k \in WrittenAt(m) : Overwrites(m.type, Fields(m)[k], f)) => Lost(m, f)
    BY DEF WrittenAt, Overwrites, Lost, Written
  <2> QED
    BY <2>1, <2>3, <2>4, <2>5
<1>9. m.contents[f.name] \in [1..f.bits -> Bit]
  BY DEF WellFormed
<1>10. ASSUME ~(Lost(m, f) /\ f.name # "addressed") PROVE Value(bits, f) = m.contents[f.name]
  <2>1. ASSUME NEW j \in 1..f.bits PROVE Value(bits, f)[j] = m.contents[f.name][j]
    <3>1. CASE Lost(m, f)
      <4>1. f.name = "addressed" /\ ~Nonzero(m.contents[f.name])
        BY <1>10, <3>1 DEF Lost
      <4>2. m.contents[f.name][j] = Zero
        BY <1>9, <4>1 DEF Nonzero
      <4> QED
        BY <1>8, <4>2
    <3>2. CASE ~Lost(m, f)
      BY <1>8, <3>2
    <3> QED
      BY <3>1, <3>2
  <2> DEFINE v == Value(bits, f)
             w == m.contents[f.name]
             D == 1..f.bits
  <2>2. v \in [D -> Bit] /\ w \in [D -> Bit] /\ \A j \in D : v[j] = w[j]
    BY <1>3, <1>9, <2>1
  <2> HIDE DEF v, w, D
  <2>3. v = w
    BY <2>2
  <2> QED
    BY <2>3 DEF v, w
<1> QED
  BY <1>8, <1>10 DEF bits

\* A field of an optional part that was not written is read as zero.
LEMMA ReadUnwritten ==
  ASSUME NEW m, WellFormed(m), NEW n \in 0..Len(GetData(m)),
         NEW f \in FieldsOf(m.type), ~Written(m.contents, f.part), f.part \in DOMAIN ReadAbove,
         Inside(Cut(m, n), f), f.ofs + f.bits <= BodySize(m)
  PROVE  Value(Cut(m, n), f) = Zeros(f.bits)
<1> DEFINE bits == Cut(m, n)
<1>1. bits \in Seq(Bit) /\ Len(bits) = n /\ n \in Nat /\ \A p \in 1..n : bits[p] = GetData(m)[p]
  BY CutFacts
<1>2. m.type \in DOMAIN Layout
  BY DEF WellFormed
<1>3. /\ Value(bits, f) \in [1..f.bits -> Bit]
      /\ \A j \in 1..f.bits : Value(bits, f)[j] = bits[f.ofs + j] /\ f.ofs + j \in 1..n
  BY <1>1, <1>2, ValueIs
<1>4. PICK i \in DOMAIN Fields(m) : f = Fields(m)[i]
  BY <1>2, FieldAt DEF Fields
<1>5. f.ofs \in Nat /\ f.bits \in Nat /\ BodySize(m) \in Nat
  BY <1>2, FieldFacts, BodyIsBits
<1> HIDE DEF bits
<1>6. ASSUME NEW j \in 1..f.bits PROVE Value(bits, f)[j] = Zero
  <2> DEFINE p == f.ofs + j
  <2>1. p \in (f.ofs + 1)..(f.ofs + f.bits) /\ p \in 1..BodySize(m)
    BY <1>5
  <2>2. Value(bits, f)[j] = bits[p] /\ p \in 1..n
    BY <1>3
  <2> HIDE DEF p
  <2>3. Value(bits, f)[j] = Body(m)[p]
    BY <1>1, <2>1, <2>2, DataFacts
  <2>4. ASSUME NEW k \in WrittenAt(m)
        PROVE  ~(p \in (Fields(m)[k].ofs + 1)..(Fields(m)[k].ofs + Fields(m)[k].bits))
    <3> DEFINE g == Fields(m)[k]
    <3>1. k \in DOMAIN Fields(m) /\ g \in FieldsOf(m.type) /\ Written(m.contents, g.part)
      BY <1>2, FieldAt DEF WrittenAt, Fields
    <3>2. k # i
      BY <1>4, <3>1
    <3>3. k \in Nat /\ i \in Nat
      BY <1>2, <1>4, <3>1, LenNat DEF Fields
    <3>4. \/ f.ofs + f.bits <= g.ofs \/ g.ofs + g.bits <= f.ofs \/ Exclusive(f.part, g.part)
          \/ Exclusive(g.part, f.part)
      BY <1>2, <1>4, <3>1, <3>2, <3>3, LayoutsAssumption DEF OrderSound, Fields
    <3> HIDE DEF g
    <3>5. f.part \in DOMAIN ReadAbove /\ (g.part = "always" \/ g.part \in DOMAIN ReadAbove)
      BY <1>2, <3>1, LayoutsAssumption DEF PartsSound
    <3>6. ~Exclusive(f.part, g.part) /\ ~Exclusive(g.part, f.part)
      BY <3>5, NoExclusiveOptional
    <3>7. g.ofs \in Nat /\ g.bits \in Nat
      BY <1>2, <3>1, FieldFacts
    <3> QED
      BY <1>5, <2>1, <3>4, <3>6, <3>7, SMTT(60) DEF g
  <2>5. Body(m)[p] = Zero
    BY <1>2, <2>1, <2>4, UnwrittenBit
  <2> QED
    BY <2>3, <2>5
<1> QED
  BY <1>3, <1>6 DEF Zeros, bits

-----------------------------------------------------------------------------
\* A field is found by its name.
LEMMA NamedIs ==
  ASSUME NEW type \in DOMAIN Layout, NEW f \in FieldsOf(type)
  PROVE  /\ Named(f.name, FieldsOf(type)) = f
         /\ f \in First(type) => Named(f.name, First(type)) = f
<1>1. \A g \in FieldsOf(type) : g.name = f.name => g = f
  BY LayoutsAssumption DEF FieldsSound
<1>2. First(type) \subseteq FieldsOf(type)
  BY DEF First
<1> QED
  BY <1>1, <1>2 DEF Named

\* What was left of the data has all of the fields that decide: they are read as
\* they were, and what is read is what was written.
LEMMA DecidedIs ==
  ASSUME NEW m, WellFormed(m), NEW n \in 0..Len(GetData(m)),
         \A f \in First(m.type) : Inside(Cut(m, n), f)
  PROVE  /\ \A f \in FieldsOf(m.type) : f.part \notin DOMAIN ReadAbove =>
              (IsRead(m.type, Cut(m, n), f) <=> Written(m.contents, f.part))
         /\ m.type = "message_24" => Value(Cut(m, n), Named("part_number", First(m.type)))[1] = Zero
<1> DEFINE bits == Cut(m, n)
           type == m.type
           dec == Decided(type, bits)
<1>1. type \in DOMAIN Layout
  BY DEF WellFormed
<1>2. ASSUME NEW f \in First(type), ~(Lost(m, f) /\ f.name # "addressed")
      PROVE  dec[f.name] = m.contents[f.name] /\ Value(bits, Named(f.name, First(type))) = m.contents[f.name]
  <2>1. f \in FieldsOf(type) /\ f.part = "always" /\ Inside(bits, f)
    BY DEF First
  <2>2. Written(m.contents, f.part)
    BY <2>1 DEF Written
  <2>3. Value(bits, f) = m.contents[f.name]
    BY <1>2, <2>1, <2>2, ReadWritten
  <2>4. Named(f.name, First(type)) = f
    BY <1>1, <2>1, NamedIs
  <2>5. dec[f.name] = Value(bits, Named(f.name, First(type)))
    BY DEF Decided
  <2> QED
    BY <2>3, <2>4, <2>5
<1>3. type = "message_24" =>
        /\ dec.part_number = m.contents.part_number /\ dec.mmsi = m.contents.mmsi
        /\ Value(bits, Named("part_number", First(type))) = m.contents.part_number
  <2> SUFFICES ASSUME type = "message_24"
               PROVE  /\ dec.part_number = m.contents.part_number /\ dec.mmsi = m.contents.mmsi
                      /\ Value(bits, Named("part_number", First(type))) = m.contents.part_number
    OBVIOUS
  <2>1. PICK f \in First(type) : f.name = "part_number"
    BY <1>1, LayoutsAssumption DEF PartsSound
  <2>2. PICK g \in First(type) : g.name = "mmsi"
    BY <1>1, LayoutsAssumption DEF PartsSound
  <2>3. ~Lost(m, f) /\ ~Lost(m, g)
    BY DEF Lost
  <2> HIDE DEF dec, bits, type
  <2> QED
    BY <1>2, <2>1, <2>2, <2>3
<1>4. ASSUME NEW f \in First(type), f.name = "addressed"
      PROVE  dec.addressed = m.contents.addressed
  BY <1>2, <1>4
<1>5. type = "message_24" => Value(bits, Named("part_number", First(type)))[1] = Zero
  BY <1>3 DEF WellFormed
<1>6. ASSUME NEW f \in FieldsOf(type), f.part \notin DOMAIN ReadAbove
      PROVE  Written(dec, f.part) <=> Written(m.contents, f.part)
  <2>1. \/ f.part = "always"
        \/ f.part \in {"addressed", "broadcast"} /\ \E g \in First(type) : g.name = "addressed"
        \/ f.part \in {"A", "B", "dimension", "mothership"} /\ type = "message_24"
    BY <1>1, <1>6, LayoutsAssumption DEF PartsSound
  <2> HIDE DEF dec, bits, type
  <2>2. CASE f.part = "always"
    BY <2>2 DEF Written
  <2>3. CASE f.part \in {"addressed", "broadcast"} /\ \E g \in First(type) : g.name = "addressed"
    <3>1. dec.addressed = m.contents.addressed
      BY <1>4, <2>3
    <3> QED
      BY <2>3, <3>1 DEF Written
  <2>4. CASE f.part \in {"A", "B", "dimension", "mothership"} /\ type = "message_24"
    <3>1. dec.part_number = m.contents.part_number /\ dec.mmsi = m.contents.mmsi
      BY <1>3, <2>4
    <3> QED
      BY <2>4, <3>1 DEF Written, Auxiliary
  <2> QED
    BY <2>1, <2>2, <2>3, <2>4
<1> QED
  BY <1>5, <1>6 DEF IsRead

\* The object constructed from what was left of the data.
Object(m, n) ==
  [outcome |-> "message",
   type |-> m.type,
   contents |-> [x \in NamesOf(m.type) |->
                   LET f == Named(x, FieldsOf(m.type))
                   IN IF IsRead(m.type, Cut(m, n), f) THEN Value(Cut(m, n), f) ELSE Unread(f)],
   tail |-> TailOf(m.type, Cut(m, n))]

\* The size decides whether it is constructed; only a message_24 may then be too
\* short for what is read.
LEMMA ConstructedIs ==
  ASSUME NEW m, WellFormed(m), NEW n \in 0..Len(GetData(m))
  PROVE  \/ Constructed(m.type, Cut(m, n)) = [outcome |-> "invalid_argument"] /\ n \notin Layout[m.type].sizes
         \/ /\ Constructed(m.type, Cut(m, n)) = [outcome |-> "out_of_range"]
            /\ n < Layout[m.type].head /\ m.type = "message_24" /\ Nonzero(m.contents.part_number)
         \/ /\ Constructed(m.type, Cut(m, n)) = Object(m, n)
            /\ n \in Layout[m.type].sizes
            /\ \A f \in First(m.type) : Inside(Cut(m, n), f)
            /\ \A f \in FieldsOf(m.type) : IsRead(m.type, Cut(m, n), f) => Inside(Cut(m, n), f)
<1> DEFINE bits == Cut(m, n)
           type == m.type
<1>1. type \in DOMAIN Layout
  BY DEF WellFormed
<1>2. Len(bits) = n /\ n \in Nat
  BY CutFacts
<1>3. CASE n \notin Layout[type].sizes
  BY <1>2, <1>3 DEF Constructed, Accepts
<1>4. CASE n \in Layout[type].sizes
  <2>1. ASSUME NEW f \in First(type) PROVE Inside(bits, f)
    <3>1. f \in FieldsOf(type) /\ f.part = "always"
      BY DEF First
    <3>2. "always" \notin DOMAIN ReadAbove
      BY DEF ReadAbove
    <3>3. f.ofs + f.bits <= n
      BY <1>1, <1>4, <3>1, <3>2, LayoutsAssumption DEF PartsSound
    <3> QED
      BY <1>2, <3>3 DEF Inside
  <2>2. /\ \A f \in FieldsOf(type) : f.part \notin DOMAIN ReadAbove =>
             (IsRead(type, bits, f) <=> Written(m.contents, f.part))
        /\ type = "message_24" => Value(bits, Named("part_number", First(type)))[1] = Zero
    BY <2>1, DecidedIs
  <2>3. ASSUME NEW f \in FieldsOf(type), IsRead(type, bits, f), ~Inside(bits, f)
        PROVE  n < Layout[type].head /\ type = "message_24" /\ Nonzero(m.contents.part_number)
    <3>1. f.part \notin DOMAIN ReadAbove
      <4> SUFFICES ASSUME f.part \in DOMAIN ReadAbove PROVE FALSE
        OBVIOUS
      <4>1. f.ofs + f.bits <= ReadAbove[f.part] + 1 /\ n > ReadAbove[f.part]
        BY <1>1, <1>2, <2>3, LayoutsAssumption DEF PartsSound, IsRead
      <4>2. ReadAbove[f.part] \in Nat
        BY DEF ReadAbove
      <4>3. f.ofs \in Nat /\ f.bits \in Nat
        BY <1>1, FieldFacts
      <4> QED
        BY <1>2, <2>3, <4>1, <4>2, <4>3 DEF Inside
    <3>2. /\ f.part \in {"dimension", "mothership"} /\ n < Layout[type].head
          /\ type = "message_24"
      BY <1>1, <1>2, <1>4, <2>3, <3>1, LayoutsAssumption DEF PartsSound, Inside
    <3>3. Written(m.contents, f.part)
      BY <2>2, <2>3, <3>1
    <3>4. Nonzero(m.contents.part_number)
      BY <3>2, <3>3 DEF Written
    <3> QED
      BY <3>2, <3>4
  <2>4. Accepts(type, Len(bits))
    BY <1>2, <1>4 DEF Accepts
  <2>5. CASE \E f \in FieldsOf(type) : IsRead(type, bits, f) /\ ~Inside(bits, f)
    <3>1. Constructed(type, bits) = [outcome |-> "out_of_range"]
      BY <2>1, <2>2, <2>4, <2>5 DEF Constructed
    <3> QED
      BY <2>3, <2>5, <3>1
  <2>6. CASE ~ \E f \in FieldsOf(type) : IsRead(type, bits, f) /\ ~Inside(bits, f)
    <3>1. Constructed(type, bits) = Object(m, n)
      BY <2>1, <2>2, <2>4, <2>6 DEF Constructed, Object
    <3> QED
      BY <1>4, <2>1, <2>6, <3>1
  <2> QED
    BY <2>5, <2>6
<1> QED
  BY <1>3, <1>4

\* A field inside of the data is inside of the set with the fields.
LEMMA InBody ==
  ASSUME NEW m, WellFormed(m), NEW n \in 0..Len(GetData(m)),
         NEW f \in FieldsOf(m.type), Inside(Cut(m, n), f)
  PROVE  f.ofs + f.bits <= BodySize(m)
<1> DEFINE l == Layout[m.type]
<1>1. m.type \in DOMAIN Layout
  BY DEF WellFormed
<1>2. f.ofs \in Nat /\ f.bits \in Nat \ {0} /\ (f.unit = f.bits \/ (f.unit = 6 /\ f.bits % 6 = 0))
  BY <1>1, FieldFacts
<1>3. Len(Cut(m, n)) = n /\ n \in Nat
  BY CutFacts
<1>4. BodySize(m) \in Nat /\ Len(GetData(m)) \in Nat /\ l.head <= BodySize(m) /\ l.head \in Nat
  BY <1>1, DataFacts, SizeFacts
<1>5. CASE l.tail = "none"
  <2>1. n <= BodySize(m)
    BY <1>4, <1>5, DataFacts
  <2> QED
    BY <1>2, <1>3, <1>4, <2>1 DEF Inside
<1>6. CASE l.tail # "none"
  <2> DEFINE s == f.ofs + f.bits - f.unit
  <2>1. f.unit \in Nat \ {0} /\ s \in Starts(f)
    BY <1>2, StartsOf
  <2>2. s + f.unit = f.ofs + f.bits
    BY <1>2, <2>1
  <2> HIDE DEF s
  <2>3. s \in Nat
    BY <1>1, <2>1, StartsNat
  <2>4. s + f.unit <= B!WrittenEnd(s, f.unit) /\ B!WrittenEnd(s, f.unit) \in Nat
    BY <2>1, <2>3, WrittenEndBounds
  <2>5. B!WrittenEnd(s, f.unit) <= l.head
    BY <1>1, <1>6, <2>1, FieldFacts
  <2> QED
    BY <1>2, <1>4, <2>2, <2>4, <2>5
<1> QED
  BY <1>5, <1>6

\* A value that is not zero has a bit that is not.
LEMMA NonzeroIs ==
  ASSUME NEW n \in Nat, NEW v \in [1..n -> Bit], ~Nonzero(v)
  PROVE  v = Zeros(n)
  BY DEF Nonzero, Zeros

\* A field of an object has its value, or that of a new object; of a message_22
\* the fields behind the position may be lost.
LEMMA ObjectField ==
  ASSUME NEW m, WellFormed(m), NEW n \in 0..Len(GetData(m)),
         \A f \in First(m.type) : Inside(Cut(m, n), f),
         \A f \in FieldsOf(m.type) : IsRead(m.type, Cut(m, n), f) => Inside(Cut(m, n), f),
         NEW f \in FieldsOf(m.type)
  PROVE  LET v == Object(m, n).contents[f.name] IN
         /\ v \in [1..f.bits -> Bit]
         /\ m.type # "message_22" => v \in {m.contents[f.name], Unread(f)}
         /\ Written(m.contents, f.part) =>
              \/ v = m.contents[f.name]
              \/ Lost(m, f) /\ f.name # "addressed"
              \/ f.part \in DOMAIN ReadAbove /\ n <= ReadAbove[f.part]
<1> DEFINE bits == Cut(m, n)
           type == m.type
           v == Object(m, n).contents[f.name]
<1>1. type \in DOMAIN Layout
  BY DEF WellFormed
<1>2. bits \in Seq(Bit) /\ Len(bits) = n /\ n \in Nat
  BY CutFacts
<1>3. f.ofs \in Nat /\ f.bits \in Nat
  BY <1>1, FieldFacts
<1>4. v = IF IsRead(type, bits, f) THEN Value(bits, f) ELSE Unread(f)
  <2>1. Named(f.name, FieldsOf(type)) = f /\ f.name \in NamesOf(type)
    BY <1>1, NamedIs DEF NamesOf
  <2> QED
    BY <2>1 DEF Object
<1>5. Unread(f) \in [1..f.bits -> Bit]
  BY <1>3, SourcesAssumption DEF Unread, Own, Zeros, Bit, Zero
<1>6. m.contents[f.name] \in [1..f.bits -> Bit]
  BY DEF WellFormed
<1>7. f.part \notin DOMAIN ReadAbove => (IsRead(type, bits, f) <=> Written(m.contents, f.part))
  BY DecidedIs
<1>8. f.part \in DOMAIN ReadAbove => (IsRead(type, bits, f) <=> n > ReadAbove[f.part]) /\ ReadAbove[f.part] \in Nat
  BY <1>2 DEF IsRead, ReadAbove
<1>9. IsRead(type, bits, f) => Inside(bits, f)
  OBVIOUS
<1> HIDE DEF bits, v, type
<1>10. v \in [1..f.bits -> Bit]
  <2>1. CASE IsRead(type, bits, f)
    BY <1>1, <1>2, <1>4, <1>9, <2>1, ValueIs DEF type
  <2>2. CASE ~IsRead(type, bits, f)
    BY <1>4, <1>5, <2>2
  <2> QED
    BY <2>1, <2>2
<1>11. ASSUME Written(m.contents, f.part)
       PROVE  \/ v = m.contents[f.name]
              \/ Lost(m, f) /\ f.name # "addressed"
              \/ f.part \in DOMAIN ReadAbove /\ n <= ReadAbove[f.part]
  <2>1. CASE IsRead(type, bits, f)
    BY <1>4, <1>9, <1>11, <2>1, ReadWritten DEF bits, type
  <2>2. CASE ~IsRead(type, bits, f)
    BY <1>2, <1>7, <1>8, <1>11, <2>2
  <2> QED
    BY <2>1, <2>2
<1>12. ASSUME type # "message_22" PROVE v \in {m.contents[f.name], Unread(f)}
  <2>1. CASE ~IsRead(type, bits, f)
    BY <1>4, <2>1
  <2>2. CASE IsRead(type, bits, f) /\ Written(m.contents, f.part)
    <3>1. ~Lost(m, f)
      BY <1>12 DEF Lost, type
    <3> QED
      BY <1>4, <1>9, <2>2, <3>1, ReadWritten DEF bits, type
  <2>3. CASE IsRead(type, bits, f) /\ ~Written(m.contents, f.part)
    <3>1. f.part \in DOMAIN ReadAbove
      BY <1>7, <2>3
    <3>2. Value(bits, f) = Zeros(f.bits)
      BY <1>9, <2>3, <3>1, InBody, ReadUnwritten DEF bits, type
    <3>3. CASE f.part = "dte"
      <4>1. f.name = "dte"
        BY <1>1, <3>3, LayoutsAssumption DEF PartsSound, type
      <4>2. ~Nonzero(m.contents[f.name])
        BY <2>3, <3>3, <4>1 DEF Written
      <4>3. m.contents[f.name] = Zeros(f.bits)
        BY <1>3, <1>6, <4>2, NonzeroIs
      <4> QED
        BY <1>4, <2>3, <3>2, <4>3
    <3>4. CASE f.part # "dte"
      <4>1. f.part # "broadcast"
        BY <3>1 DEF ReadAbove
      <4>2. Unread(f) = Zeros(f.bits)
        BY <3>4, <4>1 DEF Unread
      <4> QED
        BY <1>4, <2>3, <3>2, <4>2
    <3> QED
      BY <3>3, <3>4
  <2> QED
    BY <2>1, <2>2, <2>3
<1> QED
  BY <1>10, <1>11, <1>12 DEF v, type

\* What an object has behind its fields: as much of the tail that was sent as
\* there is, and zeros, a whole number of characters of a text.
LEMMA ObjectTail ==
  ASSUME NEW m, WellFormed(m), NEW n \in 0..Len(GetData(m)), n \in Layout[m.type].sizes
  PROVE  LET l == Layout[m.type]
             r == Object(m, n).tail
         IN /\ r \in Seq(Bit) /\ Len(r) \in Nat /\ Len(r) <= l.max - l.head
            /\ l.tail = "text" => Len(r) % 6 = 0
            /\ l.tail = "none" => r = << >>
            /\ \A i \in 1..Len(r) : r[i] = IF i <= Len(m.tail) THEN m.tail[i] ELSE Zero
            /\ n = Len(GetData(m)) =>
                 /\ Len(m.tail) <= Len(r) /\ Len(r) <= Len(m.tail) + 6
                 /\ l.tail = "payload" => Len(r) = Len(m.tail)
<1> DEFINE l == Layout[m.type]
           bits == Cut(m, n)
           r == Object(m, n).tail
           data == GetData(m)
           t == Len(m.tail)
<1>1. /\ l.head \in Nat /\ l.max \in Nat /\ l.head <= l.max /\ l.tail \in {"none", "text", "payload"}
      /\ l.tail # "none" => l.sizes = l.head..l.max
  BY SizeFacts DEF WellFormed
<1>2. bits \in Seq(Bit) /\ Len(bits) = n /\ n \in Nat /\ \A p \in 1..n : bits[p] = data[p] /\ bits[p] \in Bit
  BY CutFacts
<1>3. r = TailOf(m.type, bits)
  BY DEF Object
<1>4. t \in Nat /\ m.tail \in Seq(Bit)
  BY LenProperties DEF WellFormed
<1>5. /\ Len(data) \in Nat
      /\ l.tail = "payload" => Len(data) = l.head + t
      /\ l.tail # "none" =>
           /\ l.head + t <= Len(data) /\ Len(data) <= l.head + t + 7
           /\ \A k \in 1..(Len(data) - l.head) :
                data[l.head + k] = IF k <= t THEN m.tail[k] ELSE Zero
  BY DataFacts
<1>6. n \in l.sizes /\ n <= Len(data)
  BY <1>5
<1>7. (l.tail = "text" => t % 6 = 0) /\ (l.tail = "none" => m.tail = << >>)
  BY DEF WellFormed
<1>8. CASE l.tail = "none"
  <2>1. r = << >> /\ t = 0 /\ Len(<< >>) = 0
    BY <1>3, <1>7, <1>8, EmptySeq DEF TailOf
  <2>2. 0 <= l.max - l.head
    BY <1>1
  <2> HIDE DEF l, bits, r, data, t
  <2>3. r \in Seq(Bit) /\ Len(r) = 0
    BY <2>1, EmptySeq
  <2> QED
    BY <1>8, <2>1, <2>2, <2>3 DEF l, r, data, t
<1>9. CASE l.tail \in {"text", "payload"}
  <2> DEFINE h == l.head
             k == IF l.tail = "text" THEN 6 * ((n - h) \div 6) ELSE n - h
  <2>1. h <= n /\ n <= l.max
    BY <1>1, <1>6, <1>9
  <2>2. /\ k \in Nat /\ k <= n - h
        /\ l.tail = "text" => k % 6 = 0
        /\ l.tail = "text" /\ n = Len(data) => t <= k /\ k <= t + 6
        /\ l.tail = "payload" /\ n = Len(data) => k = t
    <3> HIDE DEF l, bits, r, data, t
    <3>1. CASE l.tail = "text"
      <4> DEFINE x == n - h
                 y == x \div 6
                 z == t \div 6
      <4>1. x \in Nat /\ t = 6 * z /\ z \in Nat
        BY <1>1, <1>2, <1>4, <1>7, <2>1, <3>1
      <4>2. y \in Nat /\ 6 * y <= x /\ x < 6 * y + 6
        BY <4>1
      <4>3. n = Len(data) => t <= x /\ x <= t + 7
        BY <1>1, <1>2, <1>4, <1>5, <1>9
      <4>4. k = 6 * y
        BY <3>1
      <4> HIDE DEF x, y, z, k
      <4>5. (6 * y) % 6 = 0
        BY <4>2
      <4>6. n = Len(data) => z <= y /\ y <= z + 1
        BY <4>1, <4>2, <4>3
      <4> QED
        BY <3>1, <4>1, <4>2, <4>4, <4>5, <4>6 DEF x
    <3>2. CASE l.tail = "payload"
      BY <1>1, <1>2, <1>4, <1>5, <2>1, <3>2, SMTT(60)
    <3> QED
      BY <1>9, <3>1, <3>2
  <2>3. r = SubSeq(bits, h + 1, h + k)
    <3> HIDE DEF bits, r
    <3>1. CASE l.tail = "text"
      BY <1>2, <1>3, <3>1 DEF TailOf
    <3>2. CASE l.tail = "payload"
      <4>1. h + k = n
        BY <1>1, <1>2, <3>2
      <4>2. r = SubSeq(bits, h + 1, n)
        BY <1>2, <1>3, <3>2 DEF TailOf
      <4> QED
        BY <4>1, <4>2
    <3> QED
      BY <1>9, <3>1, <3>2
  <2> HIDE DEF k, h, l, bits, r, data, t
  <2>4. h \in Nat /\ k \in Nat /\ h + k <= n
    BY <1>1, <1>2, <2>1, <2>2 DEF h
  <2>5. SubSeq(bits, h + 1, h + k) = [i \in 1..k |-> bits[h + i]]
    BY <2>4
  <2>6. ASSUME NEW i \in 1..k
        PROVE  bits[h + i] \in Bit /\ bits[h + i] = IF i <= t THEN m.tail[i] ELSE Zero
    <3>1. h + i \in 1..n /\ i \in 1..(Len(data) - h)
      BY <1>2, <1>5, <1>6, <2>4
    <3>2. data[h + i] = IF i <= t THEN m.tail[i] ELSE Zero
      BY <1>5, <1>9, <3>1 DEF h
    <3> QED
      BY <1>2, <3>1, <3>2
  <2>7. r = [i \in 1..k |-> bits[h + i]]
    BY <2>3, <2>5
  <2>8. r \in [1..k -> Bit]
    BY <2>6, <2>7
  <2>9. r \in Seq(Bit) /\ Len(r) = k
    BY <2>4, <2>8
  <2>10. \A i \in 1..k : r[i] = IF i <= t THEN m.tail[i] ELSE Zero
    BY <2>6, <2>7
  <2>11. k <= l.max - h
    BY <1>1, <1>2, <2>1, <2>2, <2>4
  <2>12. n = Len(data) => t <= k /\ k <= t + 6 /\ (l.tail = "payload" => k = t)
    BY <1>4, <1>9, <2>2
  <2> QED
    BY <1>9, <2>2, <2>4, <2>9, <2>10, <2>11, <2>12 DEF h, l, r, data, t
<1> QED
  BY <1>1, <1>8, <1>9

\* What was received is a message that can be sent.
LEMMA ObjectWellFormed ==
  ASSUME NEW m, WellFormed(m), NEW n \in 0..Len(GetData(m)), n \in Layout[m.type].sizes,
         \A f \in First(m.type) : Inside(Cut(m, n), f),
         \A f \in FieldsOf(m.type) : IsRead(m.type, Cut(m, n), f) => Inside(Cut(m, n), f)
  PROVE  WellFormed([type |-> Object(m, n).type, contents |-> Object(m, n).contents,
                     tail |-> Object(m, n).tail])
<1> DEFINE o == Object(m, n)
           r == [type |-> o.type, contents |-> o.contents, tail |-> o.tail]
<1>1. o.type = m.type /\ m.type \in DOMAIN Layout
  BY DEF Object, WellFormed
<1>2. \A f \in FieldsOf(m.type) : o.contents[f.name] \in [1..f.bits -> Bit]
  BY ObjectField
<1>3. m.type = "message_24" => o.contents.part_number[1] = Zero
  <2> SUFFICES ASSUME m.type = "message_24" PROVE o.contents.part_number[1] = Zero
    OBVIOUS
  <2>1. PICK f \in First(m.type) : f.name = "part_number"
    BY <1>1, LayoutsAssumption DEF PartsSound
  <2>2. f \in FieldsOf(m.type) /\ f.part = "always" /\ f.name \in NamesOf(m.type)
    BY DEF First, NamesOf
  <2>3. Named(f.name, FieldsOf(m.type)) = f /\ Named(f.name, First(m.type)) = f
    BY <1>1, <2>2, NamedIs
  <2>4. IsRead(m.type, Cut(m, n), f)
    BY <2>2 DEF IsRead, ReadAbove, Written
  <2>5. o.contents[f.name] = Value(Cut(m, n), f)
    BY <2>2, <2>3, <2>4 DEF Object
  <2>6. Value(Cut(m, n), Named("part_number", First(m.type)))[1] = Zero
    BY DecidedIs
  <2> HIDE DEF o
  <2> QED
    BY <2>1, <2>3, <2>5, <2>6
<1>4. /\ o.tail \in Seq(Bit) /\ Len(o.tail) <= Layout[m.type].max - Layout[m.type].head
      /\ Layout[m.type].tail = "text" => Len(o.tail) % 6 = 0
      /\ Layout[m.type].tail = "none" => o.tail = << >>
  BY ObjectTail
<1> HIDE DEF o
<1>5. r.type = m.type /\ r.contents = o.contents /\ r.tail = o.tail
  BY <1>1
<1> HIDE DEF r
<1>6. WellFormed(r)
  BY <1>1, <1>2, <1>3, <1>4, <1>5 DEF WellFormed
<1> QED
  BY <1>6 DEF r, o

-----------------------------------------------------------------------------
\* What is on the line, and what was received, is made of the message, or of
\* the bits that were left of it.
LineIs(n) ==
  /\ line = Payloads(Cut(message, n))
  /\ whole => n = Len(GetData(message))
  /\ received # Nothing => received = Constructed(message.type, Cut(message, n))

IInv ==
  /\ WellFormed(message)
  /\ line = <<>> => whole /\ received = Nothing
  /\ line # <<>> => \E n \in 1..Len(GetData(message)) : LineIs(n)

\* The data of a message is what is left when nothing is left off, and it is not
\* empty.
LEMMA DataIsCut ==
  ASSUME NEW m, WellFormed(m)
  PROVE  /\ GetData(m) = Cut(m, Len(GetData(m))) /\ Len(GetData(m)) \in 1..Len(GetData(m))
         /\ Payloads(GetData(m)) # << >>
<1>1. GetData(m) \in Seq(Bit) /\ Len(GetData(m)) \in Nat /\ Len(GetData(m)) \in Layout[m.type].sizes
  BY DataFacts
<1>2. Len(GetData(m)) > 0
  BY <1>1, SizeFacts DEF WellFormed
<1>3. GetData(m) = Cut(m, Len(GetData(m)))
  BY <1>1, SubSeqFull DEF Cut
<1>4. Payloads(GetData(m)) # << >>
  BY <1>1, <1>2, CollectedPayloads, EmptySeq
<1> QED
  BY <1>1, <1>2, <1>3, <1>4

\* collect gives what was left of the data.
LEMMA CollectedLine ==
  ASSUME WellFormed(message), NEW n \in 1..Len(GetData(message)), LineIs(n)
  PROVE  Collected(line) = Cut(message, n) /\ Len(Collected(line)) = n /\ n \in 0..Len(GetData(message))
<1>1. n \in 0..Len(GetData(message))
  BY DataFacts
<1>2. Cut(message, n) \in Seq(Bit) /\ Len(Cut(message, n)) = n
  BY <1>1, CutFacts
<1> QED
  BY <1>1, <1>2, CollectedPayloads DEF LineIs

\* The invariant holds of every message before it is encoded.
LEMMA InitIInv == Init => IInv
  BY MessagesAssumption DEF Init, IInv

\* No step disturbs it: what encode_message makes, another encoder shortens,
\* make_message reads and the application sends on is again of that form.
LEMMA StepIInv == IInv /\ [Next]_vars => IInv'
<1> SUFFICES ASSUME IInv, [Next]_vars PROVE IInv'
  OBVIOUS
<1>1. CASE Encode
  <2>1. message' = message /\ whole' = whole /\ received' = received /\ line' = Payloads(GetData(message))
        /\ line = << >> /\ WellFormed(message) /\ whole /\ received = Nothing
    BY <1>1 DEF Encode, IInv
  <2>2. /\ GetData(message) = Cut(message, Len(GetData(message)))
        /\ Len(GetData(message)) \in 1..Len(GetData(message)) /\ Payloads(GetData(message)) # << >>
    BY <2>1, DataIsCut
  <2>3. LineIs(Len(GetData(message)))'
    BY <2>1, <2>2 DEF LineIs
  <2> QED
    BY <2>1, <2>2, <2>3 DEF IInv
<1>2. ASSUME NEW k \in ShorterSizes, Shorten(k) PROVE IInv'
  <2>1. /\ message' = message /\ received' = received /\ whole' = FALSE /\ received = Nothing
        /\ k < Len(Collected(line)) /\ line' = Payloads(SubSeq(Collected(line), 1, k))
        /\ WellFormed(message) /\ k \in Nat \ {0}
    BY <1>2, ShorterSizesAssumption DEF Shorten, IInv
  <2>2. PICK n \in 1..Len(GetData(message)) : LineIs(n)
    BY <1>2 DEF Shorten, IInv
  <2>3. Collected(line) = Cut(message, n) /\ Len(Collected(line)) = n /\ n \in 0..Len(GetData(message))
    BY <2>1, <2>2, CollectedLine
  <2>4. k < n /\ n \in Nat /\ n <= Len(GetData(message)) /\ Len(GetData(message)) \in Nat
    BY <2>1, <2>3, DataFacts
  <2>5. k \in 1..Len(GetData(message)) /\ k \in 0..Len(GetData(message))
    BY <2>1, <2>4
  <2>6. SubSeq(Cut(message, n), 1, k) = Cut(message, k)
    <3> DEFINE d == GetData(message)
    <3>1. d \in Seq(Bit) /\ Len(d) \in Nat
      BY <2>1, DataFacts
    <3>2. n \in 1..Len(d) /\ k \in 1..Len(d) /\ 1 \in 1..Len(d) /\ k \in 1..(n - 1 + 1) /\ 1 \in 1..(n - 1 + 1)
      BY <2>1, <2>4
    <3> HIDE DEF d
    <3>3. SubSeq(SubSeq(d, 1, n), 1, k) = SubSeq(d, 1 + 1 - 1, 1 + k - 1)
      BY <3>1, <3>2, SubSeqOfSubSeq
    <3>4. 1 + 1 - 1 = 1 /\ 1 + k - 1 = k
      BY <2>1
    <3> QED
      BY <3>3, <3>4 DEF Cut, d
  <2>7. line' = Payloads(Cut(message, k))
    BY <2>1, <2>3, <2>6
  <2>8. line' # << >>
    <3>1. Cut(message, k) \in Seq(Bit) /\ Len(Cut(message, k)) = k
      BY <2>1, <2>5, CutFacts
    <3>2. Cut(message, k) # << >>
      BY <2>1, <3>1, EmptySeq
    <3> QED
      BY <2>7, <3>1, <3>2, CollectedPayloads
  <2>9. LineIs(k)'
    BY <2>1, <2>7 DEF LineIs
  <2> QED
    BY <2>1, <2>5, <2>8, <2>9 DEF IInv
<1>3. CASE Decode
  <2>1. /\ message' = message /\ line' = line /\ whole' = whole /\ line # << >>
        /\ received' = Constructed(message.type, Collected(line)) /\ WellFormed(message)
    BY <1>3 DEF Decode, IInv
  <2>2. PICK n \in 1..Len(GetData(message)) : LineIs(n)
    BY <1>3 DEF Decode, IInv
  <2>3. Collected(line) = Cut(message, n)
    BY <2>1, <2>2, CollectedLine
  <2>4. LineIs(n)'
    BY <2>1, <2>2, <2>3 DEF LineIs
  <2> QED
    BY <2>1, <2>4 DEF IInv
<1>4. CASE Relay
  <2>1. /\ received.outcome = "message" /\ line' = << >> /\ whole' = TRUE /\ received' = Nothing
        /\ message' = [type |-> received.type, contents |-> received.contents, tail |-> received.tail]
        /\ WellFormed(message)
    BY <1>4 DEF Relay, IInv
  <2>2. received # Nothing
    BY <2>1 DEF Nothing
  <2>3. PICK n \in 1..Len(GetData(message)) : LineIs(n)
    BY <2>2 DEF IInv
  <2>4. received = Constructed(message.type, Cut(message, n)) /\ n \in 0..Len(GetData(message))
    BY <2>1, <2>2, <2>3, CollectedLine DEF LineIs
  <2>5. /\ received = Object(message, n) /\ n \in Layout[message.type].sizes
        /\ \A f \in First(message.type) : Inside(Cut(message, n), f)
        /\ \A f \in FieldsOf(message.type) : IsRead(message.type, Cut(message, n), f) => Inside(Cut(message, n), f)
    BY <2>1, <2>4, ConstructedIs
  <2>6. WellFormed(message')
    BY <2>1, <2>4, <2>5, ObjectWellFormed
  <2> QED
    BY <2>1, <2>6 DEF IInv
<1>5. CASE UNCHANGED vars
  BY <1>5 DEF vars, IInv, LineIs
<1> QED
  BY <1>1, <1>2, <1>3, <1>4, <1>5 DEF Next

\* Whatever is sent, shortened and sent on again: the line and the object
\* received are functions of the first bits of the data of a well-formed message
\* (encode_message, make_message).
THEOREM MessagesIInv == Spec => []IInv
  BY InitIInv, StepIInv, PTL DEF Spec

-----------------------------------------------------------------------------
\* The invariants follow from the inductive one.  What make_message gives is
\* decided by how many bits were left.
LEMMA ReceivedIs ==
  ASSUME IInv, received # Nothing
  PROVE  \E n \in 0..Len(GetData(message)) :
           /\ whole => n = Len(GetData(message))
           /\ \/ received.outcome = "invalid_argument" /\ n \notin Layout[message.type].sizes
              \/ /\ received.outcome = "out_of_range"
                 /\ n < Layout[message.type].head /\ message.type = "message_24"
                 /\ Nonzero(message.contents.part_number)
              \/ /\ received = Object(message, n) /\ received.outcome = "message"
                 /\ n \in Layout[message.type].sizes
                 /\ \A f \in First(message.type) : Inside(Cut(message, n), f)
                 /\ \A f \in FieldsOf(message.type) :
                      IsRead(message.type, Cut(message, n), f) => Inside(Cut(message, n), f)
<1>1. line # << >> /\ WellFormed(message)
  BY DEF IInv
<1>2. PICK n \in 1..Len(GetData(message)) : LineIs(n)
  BY <1>1 DEF IInv
<1>3. n \in 0..Len(GetData(message))
  BY <1>1, <1>2, CollectedLine
<1>4. received = Constructed(message.type, Cut(message, n)) /\ (whole => n = Len(GetData(message)))
  BY <1>2 DEF LineIs
<1>5. \/ received = [outcome |-> "invalid_argument"] /\ n \notin Layout[message.type].sizes
      \/ /\ received = [outcome |-> "out_of_range"]
         /\ n < Layout[message.type].head /\ message.type = "message_24"
         /\ Nonzero(message.contents.part_number)
      \/ /\ received = Object(message, n)
         /\ n \in Layout[message.type].sizes
         /\ \A f \in First(message.type) : Inside(Cut(message, n), f)
         /\ \A f \in FieldsOf(message.type) :
              IsRead(message.type, Cut(message, n), f) => Inside(Cut(message, n), f)
  BY <1>1, <1>3, <1>4, ConstructedIs
<1>6. Object(message, n).outcome = "message"
  BY DEF Object
<1> QED
  BY <1>3, <1>4, <1>5, <1>6

\* A message sent on is one the setters could have made, and payloads are full
\* but for the last one.
LEMMA IInvTypeOK == IInv => TypeOK
<1> SUFFICES ASSUME IInv PROVE TypeOK
  OBVIOUS
<1>1. WellFormed(message)
  BY DEF IInv
<1>2. ASSUME NEW i \in DOMAIN line
      PROVE  /\ Len(line[i].bits) % 6 = 0 /\ Len(line[i].bits) > 0
             /\ IF i = Len(line) THEN Len(line[i].bits) <= 336 /\ line[i].pad \in 0..5
                                 ELSE Len(line[i].bits) = 336 /\ line[i].pad = 0
  <2>1. line # << >>
    BY <1>2
  <2>2. PICK n \in 1..Len(GetData(message)) : LineIs(n)
    BY <2>1 DEF IInv
  <2> DEFINE bits == Cut(message, n)
  <2>3. bits \in Seq(Bit)
    BY <1>1, <2>2, CollectedLine, CutFacts
  <2>4. line = Payloads(bits)
    BY <2>2 DEF LineIs
  <2> HIDE DEF bits
  <2>5. i \in 1..Len(Payloads(bits))
    BY <2>3, <2>4, CollectedPayloads, LenProperties
  <2>6. PayloadSound(bits, i)
    BY <2>3, <2>5, OnePayload
  <2> QED
    BY <2>4, <2>6 DEF PayloadSound
<1>3. received.outcome \in {"nothing", "message", "invalid_argument", "out_of_range"}
  BY ReceivedIs DEF Nothing
<1> DEFINE full == 6 * PayloadSize
<1>4. full = 336
  BY DEF PayloadSize
<1> HIDE DEF full
<1>5. \A i \in DOMAIN line :
        /\ Len(line[i].bits) % 6 = 0 /\ Len(line[i].bits) > 0
        /\ IF i = Len(line) THEN Len(line[i].bits) <= full /\ line[i].pad \in 0..5
                            ELSE Len(line[i].bits) = full /\ line[i].pad = 0
  BY <1>2, <1>4, ZenonT(60)
<1> QED
  BY <1>1, <1>3, <1>5 DEF TypeOK, full

\* Of a whole message the object has the fields that were written, but for the
\* exceptions of FieldsReadBack.
LEMMA IInvFieldsReadBack == IInv => FieldsReadBack
<1> SUFFICES ASSUME IInv, whole, received # Nothing
             PROVE  /\ Arrived
                    /\ \A f \in FieldsOf(message.type) :
                         \/ ReadBack(f)
                         \/ /\ message.type = "message_22" /\ ~Nonzero(message.contents.addressed)
                            /\ f.name \in {"band_a", "band_b", "zone_size"}
                         \/ /\ f.part \in DOMAIN ReadAbove
                            /\ \A g \in FieldsOf(message.type) :
                                 g.ofs > f.ofs /\ g.part # f.part => ~Written(message.contents, g.part)
  BY DEF FieldsReadBack
<1> DEFINE n == Len(GetData(message))
<1>1. WellFormed(message) /\ message.type \in DOMAIN Layout
  BY DEF IInv, WellFormed
<1>2. /\ n \in Nat /\ n \in Layout[message.type].sizes
      /\ Layout[message.type].head <= BodySize(message) /\ BodySize(message) <= n
      /\ BodySize(message) \in Nat /\ Layout[message.type].head \in Nat
  BY <1>1, DataFacts, SizeFacts
<1>3. /\ received = Object(message, n) /\ received.outcome = "message"
      /\ \A f \in First(message.type) : Inside(Cut(message, n), f)
      /\ \A f \in FieldsOf(message.type) :
           IsRead(message.type, Cut(message, n), f) => Inside(Cut(message, n), f)
  <2>1. ~(n < Layout[message.type].head)
    BY <1>2
  <2> QED
    BY <1>2, <2>1, ReceivedIs
<1>4. ASSUME NEW f \in FieldsOf(message.type)
      PROVE  \/ ReadBack(f)
             \/ /\ message.type = "message_22" /\ ~Nonzero(message.contents.addressed)
                /\ f.name \in {"band_a", "band_b", "zone_size"}
             \/ /\ f.part \in DOMAIN ReadAbove
                /\ \A g \in FieldsOf(message.type) :
                     g.ofs > f.ofs /\ g.part # f.part => ~Written(message.contents, g.part)
  <2>1. n \in 0..n
    BY <1>2
  <2>2. Written(message.contents, f.part) =>
          \/ received.contents[f.name] = message.contents[f.name]
          \/ Lost(message, f) /\ f.name # "addressed"
          \/ f.part \in DOMAIN ReadAbove /\ n <= ReadAbove[f.part]
    BY <1>1, <1>3, <2>1, ObjectField
  <2>3. ASSUME f.part \in DOMAIN ReadAbove, n <= ReadAbove[f.part],
               NEW g \in FieldsOf(message.type), g.ofs > f.ofs, g.part # f.part,
               Written(message.contents, g.part)
        PROVE  FALSE
    <3>1. g.ofs + g.bits > ReadAbove[f.part]
      BY <1>1, <2>3, LayoutsAssumption DEF PartsSound
    <3>2. PICK i \in DOMAIN Fields(message) : g = Fields(message)[i]
      BY <1>1, FieldAt DEF Fields
    <3>3. i \in WrittenAt(message)
      BY <2>3, <3>2 DEF WrittenAt
    <3>4. g.ofs + g.bits <= BodySize(message)
      BY <1>1, <3>2, <3>3, BodySizeFacts
    <3>5. g.ofs \in Nat /\ g.bits \in Nat /\ ReadAbove[f.part] \in Nat
      BY <1>1, <2>3, FieldFacts DEF ReadAbove
    <3> HIDE DEF n
    <3> QED
      BY <1>2, <2>3, <3>1, <3>4, <3>5
  <2>4. Lost(message, f) /\ f.name # "addressed" =>
          /\ message.type = "message_22" /\ ~Nonzero(message.contents.addressed)
          /\ f.name \in {"band_a", "band_b", "zone_size"}
    BY DEF Lost
  <2> QED
    BY <2>2, <2>3, <2>4 DEF ReadBack
<1> QED
  BY <1>3, <1>4 DEF Arrived

\* Of a whole message the object has what follows the fields.
LEMMA IInvTailReadBack == IInv => TailReadBack
<1> SUFFICES ASSUME IInv, Arrived, whole
             PROVE  /\ IsPrefix(message.tail, received.tail)
                    /\ Layout[message.type].tail = "payload" => received.tail = message.tail
                    /\ Len(received.tail) <= Len(message.tail) + 6
                    /\ \A i \in (Len(message.tail) + 1)..Len(received.tail) : received.tail[i] = Zero
  BY DEF TailReadBack
<1> DEFINE n == Len(GetData(message))
           r == received.tail
           t == message.tail
<1>1. WellFormed(message)
  BY DEF IInv
<1>2. received # Nothing
  BY DEF Arrived, Nothing
<1>3. received = Object(message, n) /\ n \in Layout[message.type].sizes /\ n \in 0..Len(GetData(message))
  BY <1>2, ReceivedIs DEF Arrived
<1>4. t \in Seq(Bit) /\ Len(t) \in Nat /\ (Layout[message.type].tail = "none" => t = << >>)
  BY <1>1, LenProperties DEF WellFormed
<1>5. /\ r \in Seq(Bit) /\ Len(r) \in Nat
      /\ \A i \in 1..Len(r) : r[i] = IF i <= Len(t) THEN t[i] ELSE Zero
      /\ Len(t) <= Len(r) /\ Len(r) <= Len(t) + 6
      /\ Layout[message.type].tail = "payload" => Len(r) = Len(t)
  BY <1>1, <1>3, ObjectTail
<1> HIDE DEF r, t
<1>6. IsPrefix(t, r)
  <2>1. SubSeq(t, 1, Len(t)) = [i \in 1..Len(t) |-> t[i]]
    BY <1>4
  <2>2. SubSeq(r, 1, Len(t)) = [i \in 1..Len(t) |-> r[i]]
    BY <1>4, <1>5
  <2>3. \A i \in 1..Len(t) : r[i] = t[i]
    BY <1>4, <1>5
  <2>4. SubSeq(t, 1, Len(t)) = SubSeq(r, 1, Len(t))
    BY <2>1, <2>2, <2>3
  <2> QED
    BY <1>5, <2>4 DEF IsPrefix
<1>7. Layout[message.type].tail = "payload" => r = t
  <2> SUFFICES ASSUME Len(r) = Len(t) PROVE r = t
    BY <1>5
  <2>1. \A i \in 1..Len(r) : r[i] = t[i]
    BY <1>4, <1>5
  <2> QED
    BY <1>4, <1>5, <2>1, SeqEqual
<1>8. \A i \in (Len(t) + 1)..Len(r) : r[i] = Zero
  BY <1>4, <1>5
<1> QED
  BY <1>5, <1>6, <1>7, <1>8 DEF r, t

\* Of a shortened message the object has, in each field, what was sent or what a
\* new object has.
LEMMA IInvShortenedNotMixed == IInv => ShortenedNotMixed
<1> SUFFICES ASSUME IInv, Arrived, ~whole
             PROVE  /\ \A f \in FieldsOf(message.type) :
                         \/ message.type = "message_22"
                         \/ received.contents[f.name] \in {message.contents[f.name], Unread(f)}
                    /\ \A i \in DOMAIN received.tail :
                         received.tail[i] = (IF i \in DOMAIN message.tail THEN message.tail[i] ELSE Zero)
  BY DEF ShortenedNotMixed
<1>1. WellFormed(message)
  BY DEF IInv
<1>2. received # Nothing
  BY DEF Arrived, Nothing
<1>3. PICK n \in 0..Len(GetData(message)) :
        /\ received = Object(message, n) /\ n \in Layout[message.type].sizes
        /\ \A f \in First(message.type) : Inside(Cut(message, n), f)
        /\ \A f \in FieldsOf(message.type) :
             IsRead(message.type, Cut(message, n), f) => Inside(Cut(message, n), f)
  BY <1>2, ReceivedIs DEF Arrived
<1>4. \A f \in FieldsOf(message.type) :
        \/ message.type = "message_22"
        \/ received.contents[f.name] \in {message.contents[f.name], Unread(f)}
  BY <1>1, <1>3, ObjectField
<1>5. message.tail \in Seq(Bit)
  BY <1>1 DEF WellFormed
<1>6. /\ received.tail \in Seq(Bit)
      /\ \A i \in 1..Len(received.tail) :
           received.tail[i] = IF i <= Len(message.tail) THEN message.tail[i] ELSE Zero
  BY <1>1, <1>3, ObjectTail
<1>7. /\ DOMAIN message.tail = 1..Len(message.tail) /\ DOMAIN received.tail = 1..Len(received.tail)
      /\ Len(message.tail) \in Nat /\ Len(received.tail) \in Nat
  BY <1>5, <1>6, LenProperties
<1> QED
  BY <1>4, <1>6, <1>7

\* Only a part B of message_24 has fields behind an accepted size.
LEMMA IInvNeverReadsBehind == IInv => NeverReadsBehind
<1> SUFFICES ASSUME IInv, received.outcome = "out_of_range"
             PROVE  ~whole /\ message.type = "message_24" /\ Nonzero(message.contents.part_number)
  BY DEF NeverReadsBehind
<1>1. received # Nothing
  BY DEF Nothing
<1>2. PICK n \in 0..Len(GetData(message)) :
        /\ whole => n = Len(GetData(message))
        /\ n < Layout[message.type].head /\ message.type = "message_24"
        /\ Nonzero(message.contents.part_number)
  BY <1>1, ReceivedIs
<1>3. WellFormed(message)
  BY DEF IInv
<1>4. /\ Layout[message.type].head \in Nat /\ BodySize(message) \in Nat
      /\ Layout[message.type].head <= BodySize(message) /\ BodySize(message) <= Len(GetData(message))
      /\ Len(GetData(message)) \in Nat
  BY <1>3, DataFacts, SizeFacts DEF WellFormed
<1> QED
  BY <1>2, <1>4

\* Whatever messages are sent, shortened and sent on, they are such as setters
\* could have made, payloads are full but for the last one, and only that one
\* is padded.
THEOREM MessagesTypeOK == Spec => []TypeOK
  BY MessagesIInv, IInvTypeOK, PTL

\* make_message accepts what encode_message has made of any message, and reads
\* its fields back, with the two exceptions FieldsReadBack names.
THEOREM MessagesFieldsReadBack == Spec => []FieldsReadBack
  BY MessagesIInv, IInvFieldsReadBack, PTL

\* A payload or a text of any length comes back, the text with at most one @ at
\* its end.
THEOREM MessagesTailReadBack == Spec => []TailReadBack
  BY MessagesIInv, IInvTailReadBack, PTL

\* A message shortened by any number of bits is made up of nothing else than
\* what was sent and what a new object has.
THEOREM MessagesShortenedNotMixed == Spec => []ShortenedNotMixed
  BY MessagesIInv, IInvShortenedNotMixed, PTL

\* No constructor reads from behind the end of a message whose size it accepts,
\* but for the last fields of a part B of message_24.
THEOREM MessagesNeverReadsBehind == Spec => []NeverReadsBehind
  BY MessagesIInv, IInvNeverReadsBehind, PTL
=============================================================================
