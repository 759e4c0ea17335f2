------------------------------ MODULE AisLink ------------------------------
(***************************************************************************)
(* AIS messages on their way to the collector of nmeatool.  Every talker   *)
(* cuts its messages into numbered fragments, as make_vdms does, and sends *)
(* them in order; fragments may get lost, those of several talkers may     *)
(* interleave, and other lines come in between.                            *)
(***************************************************************************)
EXTENDS AisCollector

CONSTANTS
  Talkers,
  Identifier,    \* the identifier each talker uses, [Talkers -> {"VDM", "VDO"}]
  MaxFragments,  \* fragments of a talker's messages, [Talkers -> Nat]
  Lossy,         \* fragments may get lost
  Interleaved,   \* a talker may start while another is in the middle
  JoinsLate      \* the tool may start in the middle of a message

ASSUME LinkAssumption ==
  /\ Identifier \in [Talkers -> {"VDM", "VDO"}]
  /\ MaxFragments \in [Talkers -> Nat]
  /\ Lossy \in BOOLEAN /\ Interleaved \in BOOLEAN /\ JoinsLate \in BOOLEAN
  /\ \A t \in Talkers : \A n \in 1..MaxFragments[t] : \A k \in 1..n, m \in {0, 1} :
       [id |-> Identifier[t], n |-> n, k |-> k, msg |-> <<t, m>>] \in Fragments

VARIABLES
  length,  \* fragments of the talker's current message
  sent,    \* those already sent; sent = length: the talker is between messages
  number,  \* tells consecutive messages of a talker apart
  clean,   \* all sent fragments of the current message arrived, one after the other
  orderly, \* so far nothing was lost, nobody cut in, and every message came whole
  missed   \* fragments of the current message sent but never received

linkVars == <<length, sent, number, clean, orderly, missed>>
allVars == <<collectorVars, linkVars>>

\* Fragment k of the talker's message m of n fragments.
FragmentOf(t, n, k, m) == [id |-> Identifier[t], n |-> n, k |-> k, msg |-> <<t, m>>]

\* The first k fragments of the talker's current message.
SentOf(t, k) == [i \in 1..k |-> FragmentOf(t, length[t], i, number[t])]

Idle(t) == sent[t] = length[t]

LinkInit ==
  /\ CollectorInit
  /\ length \in [Talkers -> UNION {1..MaxFragments[t] : t \in Talkers}]
  /\ sent \in [Talkers -> UNION {0..MaxFragments[t] : t \in Talkers}]
  /\ \A t \in Talkers :
       /\ length[t] <= MaxFragments[t] /\ sent[t] <= length[t]
       /\ JoinsLate \/ Idle(t)
  /\ Interleaved \/ \A t, u \in Talkers : t # u => Idle(t) \/ Idle(u)
  /\ number = [t \in Talkers |-> 0]
  /\ clean = [t \in Talkers |-> FALSE]
  /\ orderly = (\A t \in Talkers : Idle(t))
  /\ missed = [t \in Talkers |-> 1..sent[t]]

MayStart(t) == Idle(t) /\ (Interleaved \/ \A u \in Talkers : Idle(u))

\* The talker begins a message of n fragments.
Begin(t, n) ==
  /\ MayStart(t)
  /\ length' = [length EXCEPT ![t] = n]
  /\ sent' = [sent EXCEPT ![t] = 0]
  /\ number' = [number EXCEPT ![t] = 1 - @]
  /\ clean' = [clean EXCEPT ![t] = TRUE]
  /\ orderly' = (orderly /\ \A u \in Talkers : Idle(u))
  /\ missed' = [missed EXCEPT ![t] = {}]
  /\ UNCHANGED collectorVars

\* The next fragment is sent and reaches the collector.
Deliver(t) ==
  /\ ~Idle(t)
  /\ Fragment(FragmentOf(t, length[t], sent[t] + 1, number[t]))
  /\ sent' = [sent EXCEPT ![t] = @ + 1]
  /\ clean' = [u \in Talkers |-> clean[u] /\ (u = t \/ Idle(u) \/ sent[u] = 0)]
  /\ UNCHANGED <<length, number, orderly, missed>>

\* The next fragment is sent and gets lost.
Lose(t) ==
  /\ Lossy /\ ~Idle(t)
  /\ sent' = [sent EXCEPT ![t] = @ + 1]
  /\ clean' = [clean EXCEPT ![t] = FALSE]
  /\ orderly' = FALSE
  /\ missed' = [missed EXCEPT ![t] = @ \cup {sent[t] + 1}]
  /\ UNCHANGED <<length, number>>
  /\ UNCHANGED collectorVars

\* A line that leaves the collection alone, or ends the tool.
OtherLine ==
  /\ IgnoreLine \/ NmeaLine \/ MalformedFieldLine \/ InvalidAisLine \/ EndOfInput
  /\ UNCHANGED linkVars

\* A sentence with the start token of AIS but no payload: the collection is
\* dropped, and with it every message under way.
Disturb ==
  /\ OtherAisLine
  /\ clean' = [t \in Talkers |-> clean[t] /\ sent[t] = 0]
  /\ orderly' = (orderly /\ \A t \in Talkers : Idle(t) \/ sent[t] = 0)
  /\ UNCHANGED <<length, sent, number, missed>>

LinkNext ==
  \/ \E t \in Talkers : \E n \in 1..MaxFragments[t] : Begin(t, n)
  \/ \E t \in Talkers : Deliver(t)
  \/ \E t \in Talkers : Lose(t)
  \/ OtherLine
  \/ Disturb

LinkSpec == LinkInit /\ [][LinkNext]_allVars

-----------------------------------------------------------------------------
\* A message whose fragments all arrive, with no other AIS sentence between
\* them, is dumped when the last one does: all of it and nothing else, whatever
\* was lost or mixed up before.
IntactMessageDumped ==
  [][\A t \in Talkers :
       clean[t] /\ ~Idle(t) /\ sent'[t] = length[t] /\ clean'[t] =>
         dumped' = SentOf(t, length[t])]_allVars

\* The last fragment of the talker's message is sent in this step, and received.
LastReceived(t) ==
  ~Idle(t) /\ sent'[t] = length[t] /\ UNCHANGED <<length, missed>>

\* Behind any sentence c[i] of the talker's message the collection c has all
\* further fragments of it up to the number n, except those never received.
MissesUnreceivedOnly(c, t, n) ==
  \A i \in DOMAIN c : \A k \in (c[i].k + 1)..n :
    c[i].msg = <<t, number[t]>> =>
      \/ k \in missed[t]
      \/ \E j \in (i + 1)..Len(c) : c[j] = FragmentOf(t, length[t], k, number[t])

\* Fragments get lost, and those of others come in between: what is dumped with
\* the last fragment of a message lacks, behind the first one it has of that
\* message, no fragment that was received; and if it starts with the message's
\* first fragment and all were received, it is the message and nothing else.
DumpedMissesUnreceivedOnly ==
  [][\A t \in Talkers : LastReceived(t) =>
       /\ MissesUnreceivedOnly(dumped', t, length[t])
       /\ (missed[t] = {} /\ dumped'[1] = FragmentOf(t, length[t], 1, number[t]))
            => dumped' = SentOf(t, length[t])]_allVars

\* What makes it so: the same holds of the collection all along.
CollectionMissesUnreceivedOnly ==
  \A t \in Talkers :
    /\ MissesUnreceivedOnly(sentences, t, sent[t])
    /\ (missed[t] = {} /\ sent[t] > 0 /\ sentences # <<>>
          /\ sentences[1] = FragmentOf(t, length[t], 1, number[t])) =>
           /\ Len(sentences) >= sent[t]
           /\ \A k \in 1..sent[t] : sentences[k] = FragmentOf(t, length[t], k, number[t])

\* While a message arrives intact the collection is its beginning.
IntactCollected ==
  \A t \in Talkers :
    clean[t] /\ ~Idle(t) /\ sent[t] > 0 => sentences = SentOf(t, sent[t])

\* "check if a previous message was not complete" (nmeatool.cpp:2239): what is
\* dumped are all fragments of one message.
DumpedComplete ==
  dumped # <<>> =>
    /\ Len(dumped) = dumped[Len(dumped)].n
    /\ \A i \in 1..Len(dumped) : dumped[i].k = i /\ dumped[i].msg = dumped[1].msg

\* As long as nothing is lost and one message comes at a time that is so.
OrderlyDumpedComplete == orderly => DumpedComplete
=============================================================================
