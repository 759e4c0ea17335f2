--------------------------- MODULE MCNmeaMeasures ---------------------------
EXTENDS NmeaMeasures

\* one with a ratio, one with an offset, and such that make other dimensions
MCOperands == {"kilometers", "celsius", "seconds", "newton"}
=============================================================================
