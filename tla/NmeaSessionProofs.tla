-------------------------- MODULE NmeaSessionProofs --------------------------
(***************************************************************************)
(* Proofs about NmeaSession with the reader the library provides, whose    *)
(* process_sentence does not throw (Strict = FALSE), for any capacity of   *)
(* the buffer, any characters and lines of any length.                     *)
(***************************************************************************)
EXTENDS NmeaSession, TLAPS

\* Before the constructor everything is as it was made; afterwards the port is
\* open exactly while the reader lives and has its device.
PortAgrees ==
  /\ phase \in {"unborn", "live", "gone"}
  /\ phase = "unborn" => sentence = <<>> /\ line = <<>>
  /\ fd \in BOOLEAN
  /\ fd <=> phase = "live" /\ dev
  /\ descriptors = IF fd THEN 1 ELSE 0

TextOK ==
  /\ sentence \in Seq(Printable)
  /\ line \in Seq(Printable)

\* The reader keeps of a line with one more character what it kept before, and
\* the character as long as there is room.
LEMMA KeptAppend ==
  ASSUME NEW l \in Seq(Printable), NEW c \in Printable
  PROVE  /\ Kept(l) \in Seq(Printable)
         /\ Kept(Append(l, c)) = IF Len(Kept(l)) > MAX_LENGTH THEN Kept(l) ELSE Append(Kept(l), c)
<1> USE LengthAssumption
<1>1. Append(l, c) \in Seq(Printable) /\ Len(Append(l, c)) = Len(l) + 1
      /\ \A i \in 1..Len(l) : Append(l, c)[i] = l[i]
  OBVIOUS
<1>2. CASE Len(l) <= MAX_LENGTH
  <2>1. Kept(l) = l
    BY <1>2 DEF Kept
  <2>2. Kept(Append(l, c)) = Append(l, c)
    BY <1>1, <1>2 DEF Kept
  <2> QED
    BY <1>2, <2>1, <2>2
<1>3. CASE Len(l) > MAX_LENGTH
  <2>1. Kept(l) = SubSeq(l, 1, MAX_LENGTH + 1) /\ Kept(l) \in Seq(Printable)
        /\ Len(Kept(l)) = MAX_LENGTH + 1
    BY <1>3 DEF Kept
  <2>2. Kept(Append(l, c)) = SubSeq(Append(l, c), 1, MAX_LENGTH + 1)
    BY <1>1, <1>3 DEF Kept
  <2>3. SubSeq(Append(l, c), 1, MAX_LENGTH + 1) = SubSeq(l, 1, MAX_LENGTH + 1)
    BY <1>1, <1>3
  <2>4. Len(Kept(l)) > MAX_LENGTH
    BY <2>1
  <2>5. Kept(Append(l, c)) = Kept(l)
    BY <2>1, <2>2, <2>3
  <2> QED
    BY <2>1, <2>4, <2>5
<1> QED
  BY <1>2, <1>3

\* The empty line leaves the buffer empty.
LEMMA KeptEmpty == Kept(<<>>) = <<>>
BY LengthAssumption DEF Kept

-----------------------------------------------------------------------------
\* The texts stay typed, and the port open exactly as long as it is needed.
LEMMA SessionInv == SessionSpec => [](TextOK /\ PortAgrees)
<1>0. <<>> \in Seq(Printable)
  OBVIOUS
<1>1. SessionInit => TextOK /\ PortAgrees
  BY <1>0 DEF SessionInit, Init, PortInit, TextOK, PortAgrees
<1>2. TextOK /\ PortAgrees /\ [SessionNext]_allVars => (TextOK /\ PortAgrees)'
  <2> SUFFICES ASSUME TextOK, PortAgrees, [SessionNext]_allVars
               PROVE  TextOK' /\ PortAgrees'
    OBVIOUS
  <2>1. ASSUME NEW how \in {"ok", "error"}, Construct(how) PROVE TextOK' /\ PortAgrees'
    <3>1. /\ phase = "unborn" /\ ~fd /\ descriptors = 0
          /\ sentence' = sentence /\ line' = line
      BY <2>1 DEF Construct, PortAgrees
    <3>2. CASE how = "ok"
      <4>1. phase' = "live" /\ dev'
        BY <2>1, <3>2 DEF Construct
      <4>2. PortOpen("ok")
        BY <2>1, <3>2 DEF Construct
      <4>3. fd' = TRUE /\ descriptors' = 1
        BY <3>1, <4>2 DEF PortOpen
      <4> QED
        BY <3>1, <4>1, <4>3 DEF TextOK, PortAgrees
    <3>3. CASE how = "error"
      <4>1. phase' = "gone" /\ fd' = fd /\ descriptors' = 0
        BY <2>1, <3>1, <3>3 DEF Construct, PortOpen, portVars
      <4> QED
        BY <3>1, <4>1 DEF TextOK, PortAgrees
    <3> QED
      BY <3>2, <3>3
  <2>2. ASSUME NEW raw \in Character, Receive(raw) PROVE TextOK' /\ PortAgrees'
    <3>1. PortAgrees'
      BY <2>2 DEF Receive, PortReads, portVars, ReadCharacter, PortAgrees
    <3>2. <<>> \in Seq(Printable)
      OBVIOUS
    <3>3. sentence' \in Seq(Printable)
      <4>1. CASE raw \in {"CR", "invalid"} /\ sentence' = sentence
        BY <4>1 DEF TextOK
      <4>2. CASE EndOfLine
        BY <3>2, <4>2 DEF EndOfLine, TextOK
      <4>3. CASE raw \in Printable /\ Collect(raw)
        BY <4>3 DEF Collect, TextOK
      <4> QED
        BY <2>2, <4>1, <4>2, <4>3 DEF Receive, ReadCharacter
    <3>4. line' \in Seq(Printable)
      <4>1. CASE raw = "LF"
        BY <2>2, <3>2, <4>1 DEF Receive
      <4>2. CASE raw \in Printable
        BY <2>2, <4>2, PrintableAssumption DEF Receive, TextOK
      <4>3. CASE raw # "LF" /\ raw \notin Printable
        BY <2>2, <4>3 DEF Receive, TextOK
      <4> QED
        BY <4>1, <4>2, <4>3
    <3> QED
      BY <3>1, <3>3, <3>4 DEF TextOK
  <2>3. CASE ReceiveFails
    BY <2>3 DEF ReceiveFails, ReadNothing, PortReads, PortNotOpen, portVars, TextOK, PortAgrees
  <2>4. CASE CloseReader
    <3>1. /\ sentence' = sentence /\ line' = line /\ phase' = phase /\ phase = "live"
          /\ dev' = FALSE
      BY <2>4 DEF CloseReader, Close
    <3>2. fd' = FALSE /\ descriptors' = 0
      <4>1. CASE dev
        BY <2>4, <4>1 DEF CloseReader, PortClose, PortAgrees
      <4>2. CASE ~dev
        BY <2>4, <4>2 DEF CloseReader, portVars, PortAgrees
      <4> QED
        BY <4>1, <4>2
    <3> QED
      BY <3>1, <3>2 DEF TextOK, PortAgrees
  <2>5. CASE Destroy
    <3>1. /\ sentence' = sentence /\ line' = line /\ phase' = "gone" /\ phase = "live"
      BY <2>5 DEF Destroy
    <3>2. fd' = FALSE /\ descriptors' = 0
      <4>1. CASE dev
        BY <2>5, <4>1 DEF Destroy, PortClose, PortAgrees
      <4>2. CASE ~dev
        BY <2>5, <4>2 DEF Destroy, portVars, PortAgrees
      <4> QED
        BY <4>1, <4>2
    <3> QED
      BY <3>1, <3>2 DEF TextOK, PortAgrees
  <2>6. CASE UNCHANGED allVars
    BY <2>6 DEF allVars, vars, sessionVars, TextOK, PortAgrees
  <2> QED
    BY <2>1, <2>2, <2>3, <2>4, <2>5, <2>6 DEF SessionNext
<1> QED
  BY <1>1, <1>2, PTL DEF SessionSpec

\* A live reader that has its device can read from it: the constructor opened it
\* and nothing else closes it.
THEOREM SessionLiveReaderHasPort == SessionSpec => []LiveReaderHasPort
<1>1. PortAgrees => LiveReaderHasPort
  BY DEF PortAgrees, LiveReaderHasPort
<1> QED
  BY <1>1, SessionInv, PTL

\* However the reader is constructed, closed and destroyed, every descriptor is
\* given back, and never more than one is held.
THEOREM SessionNoDescriptorLeak == SessionSpec => []NoDescriptorLeak
<1>1. PortAgrees => NoDescriptorLeak
  BY DEF PortAgrees, NoDescriptorLeak
<1> QED
  BY <1>1, SessionInv, PTL

-----------------------------------------------------------------------------
\* A character that arrives leaves the buffer in step with the line, and when
\* it ends the line, hands over what was kept of it.
LEMMA ReceiveKeeps ==
  ASSUME Strict = FALSE, TextOK, sentence = Kept(line), NEW raw \in Character, Receive(raw)
  PROVE  /\ sentence' = Kept(line)'
         /\ emitted' # <<>> => ended' = <<line>> /\ emitted' = <<Kept(line)>>
<1>1. CASE raw = "LF"
  <2>1. raw \notin Printable /\ raw \notin {"CR", "invalid"}
    BY <1>1, PrintableAssumption
  <2>2. EndOfLine /\ outcome' # "callback_error" /\ line' = <<>> /\ ended' = <<line>>
    BY <1>1, <2>1 DEF Receive, ReadCharacter
  <2>3. sentence' = <<>> /\ emitted' = <<sentence>>
    BY <2>2, CallbackAssumption DEF EndOfLine, Ends
  <2> QED
    BY <2>2, <2>3, KeptEmpty DEF Kept
<1>2. CASE raw \in Printable
  <2>1. raw # "LF" /\ raw \notin {"CR", "invalid"}
    BY <1>2, PrintableAssumption
  <2>2. Collect(raw) /\ line' = Append(line, raw)
    BY <1>2, <2>1 DEF Receive, ReadCharacter
  <2>3. emitted' = <<>>
        /\ sentence' = IF Len(sentence) > MAX_LENGTH THEN sentence ELSE Append(sentence, raw)
    BY <2>2 DEF Collect, Ends
  <2>4. sentence' = Kept(Append(line, raw))
    BY <1>2, <2>3, KeptAppend DEF TextOK
  <2> QED
    BY <2>2, <2>3, <2>4 DEF Kept
<1>3. CASE raw \in {"CR", "invalid"}
  <2>1. raw # "LF" /\ raw \notin Printable
    BY <1>3, PrintableAssumption
  <2>2. emitted' = <<>> /\ sentence' = sentence /\ line' = line
    BY <1>3, <2>1 DEF Receive, ReadCharacter, Ends
  <2> QED
    BY <2>2 DEF Kept
<1> QED
  BY <1>1, <1>2, <1>3 DEF Character

\* Every other step leaves the line and the buffer, and hands over nothing new.
LEMMA OthersKeep ==
  ASSUME [SessionNext]_allVars, \A raw \in Character : ~Receive(raw)
  PROVE  /\ UNCHANGED <<sentence, line>>
         /\ emitted' = emitted \/ emitted' = <<>>
         /\ phase' = "live" => phase \in {"unborn", "live"}
BY DEF SessionNext, Construct, ReceiveFails, ReadNothing, Ends, CloseReader, Close,
       Destroy, allVars, vars, sessionVars

\* The buffer holds what can be kept of the current line, whatever was invalid,
\* too long or interrupted before.
THEOREM SessionBufferIsLine ==
  ASSUME Strict = FALSE
  PROVE  SessionSpec => []BufferIsLine
<1>1. SessionInit => BufferIsLine
  BY DEF SessionInit, BufferIsLine
<1>2. TextOK /\ PortAgrees /\ BufferIsLine /\ [SessionNext]_allVars => BufferIsLine'
  <2> SUFFICES ASSUME TextOK, PortAgrees, BufferIsLine, [SessionNext]_allVars, phase' = "live"
               PROVE  sentence' = Kept(line)'
    BY DEF BufferIsLine
  <2>1. ASSUME NEW raw \in Character, Receive(raw) PROVE sentence' = Kept(line)'
    <3>1. sentence = Kept(line)
      BY <2>1 DEF Receive, BufferIsLine
    <3> QED
      BY <2>1, <3>1, ReceiveKeeps
  <2>2. ASSUME \A raw \in Character : ~Receive(raw) PROVE sentence' = Kept(line)'
    <3>1. UNCHANGED <<sentence, line>> /\ phase \in {"unborn", "live"}
      BY <2>2, OthersKeep
    <3>2. sentence = Kept(line)
      BY <3>1, KeptEmpty DEF BufferIsLine, PortAgrees
    <3> QED
      BY <3>1, <3>2 DEF Kept
  <2> QED
    BY <2>1, <2>2
<1> QED
  BY <1>1, <1>2, SessionInv, PTL DEF SessionSpec

\* A sentence is handed over at a line end only, and is that line: all of it if
\* it fits the buffer, its beginning otherwise.
THEOREM SessionSentenceIsLine ==
  ASSUME Strict = FALSE
  PROVE  SessionSpec => SentenceIsLine
<1>1. ASSUME TextOK, BufferIsLine, [SessionNext]_allVars, emitted' # emitted, emitted' # <<>>
      PROVE  ended' = <<line>> /\ emitted' = <<Kept(line)>>
  <2>1. PICK raw \in Character : Receive(raw)
    BY <1>1, OthersKeep
  <2>2. sentence = Kept(line)
    BY <1>1, <2>1 DEF Receive, BufferIsLine
  <2> QED
    BY <1>1, <2>1, <2>2, ReceiveKeeps
<1>2. TextOK /\ BufferIsLine /\ [SessionNext]_allVars =>
        [emitted' # emitted /\ emitted' # <<>> =>
           ended' = <<line>> /\ emitted' = <<Kept(line)>>]_allVars
  BY <1>1
<1> QED
  BY <1>2, SessionInv, SessionBufferIsLine, PTL DEF SessionSpec, SentenceIsLine
=============================================================================
