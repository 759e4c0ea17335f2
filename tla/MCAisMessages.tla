---------------------------- MODULE MCAisMessages ---------------------------
(***************************************************************************)
(* Instance of AisMessages for TLC: which messages are sent.  Fields that  *)
(* decide nothing always have a value; those that decide what is written   *)
(* are set or not, in every combination.                                   *)
(***************************************************************************)
EXTENDS AisMessages

CONSTANTS Types, TextLengths, PayloadLengths

\* What may be zero or special, by type.
Deciding(type) ==
  CASE type \in {"message_07", "message_13"} -> {"mmsi_2", "mmsi_3", "mmsi_4"}
    [] type = "message_20" -> {"offset_number_2", "offset_number_3", "offset_number_4"}
    [] type = "message_22" -> {"addressed"}
    [] type = "message_24" -> {"part_number", "mmsi"}
    [] OTHER -> {}

\* part_number is 0 or 1, the mmsi may be one of an auxiliary.
ValueOf(f, zeros) ==
  CASE f.name = "mmsi" /\ "mmsi" \in zeros -> Own("mmsi of an auxiliary", f.bits)
    [] f.name \in zeros /\ f.name # "mmsi" -> Zeros(f.bits)
    [] f.name = "part_number" /\ f.name \notin zeros -> <<Zero, <<"part_number", 2>>>>
    [] OTHER -> Own(f.name, f.bits)

ContentsOf(type, zeros) ==
  [x \in NamesOf(type) |-> ValueOf(CHOOSE f \in FieldsOf(type) : f.name = x, zeros)]

\* Texts up to what the setters accept, payloads up to what the message takes.
Tails(type) ==
  CASE Layout[type].tail = "text" ->
         {Own("tail", 6 * k) : k \in {k \in TextLengths :
                                        6 * k <= Layout[type].max - Layout[type].head}}
    [] Layout[type].tail = "payload" ->
         {Own("tail", k) : k \in {k \in PayloadLengths :
                                    k <= Layout[type].max - Layout[type].head}}
    [] OTHER -> {<<>>}

AllMessages ==
  UNION {[type : {type}, contents : {ContentsOf(type, z) : z \in SUBSET Deciding(type)},
          tail : Tails(type)] : type \in Types}

AllTypes == DOMAIN Layout
Names == STRING
Sizes == 6..424
=============================================================================
