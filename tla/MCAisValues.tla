----------------------------- MODULE MCAisValues -----------------------------
(***************************************************************************)
(* Instance of AisValues for TLC: every message; values at the limits of   *)
(* what a setter accepts, of the bits, and around the numbers which mean   *)
(* that a value is not available.                                          *)
(***************************************************************************)
EXTENDS AisValues

AllTypes == DOMAIN Contents
Weathers == {"binary_001_11"}

\* Poles and the date line, whole degrees, steps of each size, and fractions
\* that do and do not survive rounding.
Angles(value, i) ==
  LET some == {2, 5, 1667, 5000, 47123456, Largest(value, i)}
  IN some \cup {-x : x \in some} \cup {0, 1 - Largest(value, i)}

Limits(value) == {value.most, value.valid} \ {NoLimit}
Numbers(value) ==
  LET top == 2^value.bits[1]
      special == {n[1] : n \in {value.missing} \ {Nothing}} \cup Limits(value)
  IN {top - 1} \cup {n + d : n \in special, d \in {-1, 0, 1}}
     \cup (IF value.kind = "ceiling" THEN {1, 3, 5, 96} ELSE {})

\* one or two of each class, next to the limits of it, and what does not fit
Stations ==
  {0, 9999999, 10000000, 99999999, 100000000, 111211123, 199999999, 200000000,
   899999999, 900000000, 970123456, 972999999, 974000000, 979999999, 980000000,
   989999999, 990000000, 999999999, 1000000000, 2^30 - 1, 2^30}
\* a ship, an auxiliary craft, an aid to navigation, and what does not fit, of
\* which 30 bits may be those of an auxiliary craft
FewStations == {0, 111211123, 989999999, 990000000, 1000000000, 2^30 + 980000000}
Plains(value) == LET top == 2^value.bits[1] IN {1, top - 1, top}

WantedOf(value) ==
  CASE value.kind = "angle" /\ Len(value.bits) = 1 -> {<<x>> : x \in Angles(value, 1)}
    [] value.kind = "angle" -> {<<x, y>> : x \in {-90000000, -5, 47123456},
                                          y \in {-179999999, -5000, 180000000}}
    [] value.kind = "turn" -> {<<n>> : n \in {-127, -126, -1, 0, 1, 126, 127}}
    [] value.kind \in {"text", "padded"} -> {<<n>> : n \in {0, 1, value.most, value.most + 1}}
    [] value.kind = "mmsi" -> {<<n>> : n \in FewStations}
    [] value.kind = "choice" -> {<<0>>, <<value.most>>}
    [] value.kind = "plain" -> {<<2^value.bits[1] - 1>>, <<2^value.bits[1]>>}
    [] value.kind = "checked" -> {<<n>> : n \in Plains(value)}
    [] OTHER -> LET ns == {n - value.write : n \in Numbers(value) \cup {2^value.bits[1]}}
                IN {<<n>> : n \in IF value.kind = "number" THEN ns \cap Nat
                                  ELSE ns \cup {-1} \cup {n \in {200, -200} : value.write # 0}}

WantedButDays(value) == IF value.name = "day" THEN {} ELSE WantedOf(value)

ForeignOf(value) ==
  CASE value.kind \in {"text", "padded"} -> {<<n>> : n \in {0, 1, value.most}}
    [] value.kind = "mmsi" -> {<<n>> : n \in {s \in Stations : s < 2^30}}
    [] value.kind \in {"plain", "choice", "checked"} ->
         {<<n>> : n \in {m \in Plains(value) : m < 2^value.bits[1]}}
    [] value.kind = "angle" /\ Len(value.bits) = 1 ->
         LET per == value.per
             top == 2^value.bits[1]
             pole == 6 * (Largest(value, 1) \div per)
         IN {<<n % top>> : n \in {0, 1, 2, 3, 4, 5, pole - 2, pole - 1, pole, pole + 1,
                                  -1, -2, -3, -4, 2 - pole, 1 - pole, -pole, -1 - pole,
                                  value.missing[1]}}
    [] value.kind = "angle" ->
         {<<x % 2^value.bits[1], y % 2^value.bits[2]>> :
            x \in {0, 2, -4, value.missing[1]},
            y \in {-1, 3, 2^(value.bits[2] - 1), value.missing[2]}}
    [] OTHER -> {<<n % 2^value.bits[1]>> : n \in Numbers(value) \cup {0}}
=============================================================================
