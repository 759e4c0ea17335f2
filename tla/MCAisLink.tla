----------------------------- MODULE MCAisLink -----------------------------
(***************************************************************************)
(* Instance of AisLink for TLC: two receivers, which use the same          *)
(* identifier, and the own ship's transponder.  The messages of one of     *)
(* them have up to three fragments.                                        *)
(***************************************************************************)
EXTENDS AisLink

CONSTANTS MaxErrors, receiver, second, transponder

IdentifierOf == [t \in Talkers |-> IF t = transponder THEN "VDO" ELSE "VDM"]

MaxFragmentsOf == [t \in Talkers |-> IF t = receiver THEN 3 ELSE 2]

LinkFragments ==
  [id : {"VDM", "VDO"}, n : 1..3, k : 1..3,
   msg : Talkers \X {0, 1}]

WithinBound == result >= -MaxErrors
=============================================================================
