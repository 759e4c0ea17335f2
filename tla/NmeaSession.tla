---------------------------- MODULE NmeaSession ----------------------------
(***************************************************************************)
(* The life of a default_nmea_reader on a serial port: constructed (which  *)
(* opens the port), read in a loop by the application, closed, destroyed.  *)
(* A talker sends lines; the application goes on after every exception.    *)
(*                                                                         *)
(* Strict chooses the subclass: FALSE is default_nmea_reader, whose        *)
(* process_sentence stores the sentence; TRUE is one whose                 *)
(* process_sentence throws on anything but a valid sentence, as one that   *)
(* calls nmea::make_sentence does.                                         *)
(***************************************************************************)
EXTENDS NmeaReader, SerialPort, SequencesExt

CONSTANTS
  Valid,    \* the sentences a strict subclass accepts
  Strict,
  MaxLine   \* bound of the check: characters of a line

VARIABLES
  phase,  \* "unborn", "live" or "gone"
  line,   \* printable characters sent since the last line end
  ended   \* the line whose end came last, <<>> if the last step was no line end

sessionVars == <<fd, descriptors, phase, line, ended>>
allVars == <<vars, sessionVars>>

SessionInit ==
  /\ Init /\ dev
  /\ PortInit
  /\ phase = "unborn"
  /\ line = <<>>
  /\ ended = <<>>

\* The constructor opens the device.  When open() throws the object does not
\* come to life and its device is destroyed.
Construct(how) ==
  /\ phase = "unborn"
  /\ PortOpen(how)
  /\ phase' = IF how = "ok" THEN "live" ELSE "gone"
  /\ dev' = (how = "ok")
  /\ ended' = <<>>
  /\ UNCHANGED <<sentence, emitted, outcome, line>>

\* One turn of the loop in read_sentence, the port delivering the next
\* character.  A sentence that process_sentence stored is returned at once.
Receive(raw) ==
  /\ phase = "live"
  /\ PortReads
  /\ ReadCharacter(raw)
  /\ raw = "LF" => (outcome' = "callback_error" <=> Strict /\ sentence \notin Valid)
  /\ line' = IF raw = "LF" THEN <<>>
             ELSE IF raw \in Printable THEN Append(line, raw)
             ELSE line
  /\ ended' = IF raw = "LF" THEN <<line>> ELSE <<>>
  /\ Len(line') <= MaxLine
  /\ UNCHANGED phase

\* read() when the port has nothing, fails, is not open, or is gone.
ReceiveFails ==
  /\ phase = "live"
  /\ \/ PortReads /\ \E how \in {"false", "read_error"} : ReadNothing(how)
     \/ dev /\ PortNotOpen /\ ReadNothing("read_error")
     \/ ReadNothing("device_invalid") /\ UNCHANGED portVars
  /\ ended' = <<>>
  /\ UNCHANGED <<phase, line>>

\* Mutant of CloseReader: the device is dropped, not closed.
CloseReaderLeaks ==
  /\ phase = "live"
  /\ UNCHANGED portVars
  /\ Close
  /\ ended' = <<>>
  /\ UNCHANGED <<phase, line>>

\* close() closes the device and destroys it.
CloseReader ==
  /\ phase = "live"
  /\ IF dev THEN PortClose ELSE UNCHANGED portVars
  /\ Close
  /\ ended' = <<>>
  /\ UNCHANGED <<phase, line>>

\* The destructor destroys the device, whose own destructor closes it.
Destroy ==
  /\ phase = "live"
  /\ IF dev THEN PortClose ELSE UNCHANGED portVars
  /\ dev' = FALSE
  /\ phase' = "gone"
  /\ ended' = <<>>
  /\ UNCHANGED <<sentence, emitted, outcome, line>>

SessionNext ==
  \/ \E how \in {"ok", "error"} : Construct(how)
  \/ \E raw \in Character : Receive(raw)
  \/ ReceiveFails
  \/ CloseReader
  \/ Destroy

\* The port keeps delivering and the application keeps reading.
SessionSpec ==
  /\ SessionInit
  /\ [][SessionNext]_allVars
  /\ WF_allVars(\E raw \in Character : Receive(raw))

-----------------------------------------------------------------------------
\* What the reader can keep of a line.
Kept(l) == SubSeq(l, 1, IF Len(l) <= MAX_LENGTH THEN Len(l) ELSE MAX_LENGTH + 1)

\* Whatever was invalid, too long or interrupted before, the buffer holds the
\* beginning of the current line and nothing of an earlier one.
BufferIsLine == phase = "live" => sentence = Kept(line)

\* A sentence is handed over at a line end only, and it is that line.
SentenceIsLine ==
  [][emitted' # emitted /\ emitted' # <<>> =>
       ended' = <<line>> /\ emitted' = <<Kept(line)>>]_allVars

\* "This reader opens the device upon construction." (nmea_reader.hpp:14): a
\* live reader that has its device can read from it.
LiveReaderHasPort == phase = "live" /\ dev => fd

\* The descriptor is given back when the reader is closed or destroyed, and
\* never more than one is held.
NoDescriptorLeak == descriptors = (IF phase = "live" /\ dev THEN 1 ELSE 0)

\* "This method automatcially synchronizes with NMEA data." (nmea_reader.cpp:73)
\* If valid lines keep coming, valid lines keep being handed over and accepted.
KeepsAccepting ==
  []<>(ended # <<>> /\ ended[1] \in Valid)
    => []<>(ended # <<>> /\ ended[1] \in Valid /\ emitted = ended /\ outcome = "true")
=============================================================================
