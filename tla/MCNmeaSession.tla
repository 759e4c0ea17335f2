--------------------------- MODULE MCNmeaSession ---------------------------
(***************************************************************************)
(* Instance of NmeaSession for TLC.                                        *)
(***************************************************************************)
EXTENDS NmeaSession

CONSTANTS a, b

\* One sentence that fits the buffer.
ValidSentences == {<<a, b>>}
=============================================================================
