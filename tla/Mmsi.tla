-------------------------------- MODULE Mmsi --------------------------------
(***************************************************************************)
(* What mmsi.cpp tells of a Maritime Mobile Service Identity: the class of *)
(* the station, and the country code (MID), the manufacturer and the       *)
(* number of the station within them; and mmsi_country.cpp.  Nothing else  *)
(* in the library looks at digits of an identity.                          *)
(***************************************************************************)
EXTENDS Integers, Sequences, SequencesExt

initial_value == 0

\* so many digits in front of the last ones
Digits(n, last, count) == (n \div 10^last) % 10^count
Without(n, last) == n \div 10^last

is_regular(n) == Digits(n, 6, 3) \in 200..899
is_coastal(n) == Without(n, 7) = 0
is_auxiliary(n) == Without(n, 7) = 98
is_ais_aids(n) == Without(n, 7) = 99
\* Mutant of is_group: only the leading zero is looked at.
is_groupAny(n) == Without(n, 8) = 0

is_group(n) ==
    /\ Without(n, 8) = 0
    /\ Digits(n, 5, 3) >= 100
    /\ ~is_auxiliary(n)
    /\ ~is_ais_aids(n)
is_sar_aircraft(n) == Digits(n, 6, 3) = 111
is_sart(n) == Digits(n, 6, 3) = 970
is_mob(n) == Digits(n, 6, 3) = 972
is_epirb_ais(n) == Digits(n, 6, 3) = 974

is_all_coastal_for(n, m) ==
    /\ is_coastal(n)
    /\ Digits(n, 4, 3) = m /\ m >= 100
    /\ Digits(n, 0, 4) = 0
is_all_coastal(n) == is_all_coastal_for(n, 999)

Is(class, n) ==
    \/ class = "regular" /\ is_regular(n)
    \/ class = "group" /\ is_group(n)
    \/ class = "coastal" /\ is_coastal(n)
    \/ class = "auxiliary" /\ is_auxiliary(n)
    \/ class = "sar_aircraft" /\ is_sar_aircraft(n)
    \/ class = "mob" /\ is_mob(n)
    \/ class = "sart" /\ is_sart(n)
    \/ class = "epirb_ais" /\ is_epirb_ais(n)
    \/ class = "ais_aids" /\ is_ais_aids(n)

\* by class: how many digits the MID, the manufacturer and the identifier are
\* before the end, and have
MidOf == [regular |-> <<6, 3>>, group |-> <<5, 3>>, coastal |-> <<4, 3>>,
          auxiliary |-> <<4, 3>>, sar_aircraft |-> <<3, 3>>]
ManOf == [sart |-> <<4, 2>>, mob |-> <<4, 2>>, epirb_ais |-> <<4, 2>>]
IdOf == [regular |-> <<0, 6>>, group |-> <<0, 5>>, coastal |-> <<0, 4>>,
         auxiliary |-> <<0, 4>>, sar_aircraft |-> <<0, 3>>, mob |-> <<0, 4>>,
         sart |-> <<0, 4>>, epirb_ais |-> <<0, 4>>, ais_aids |-> <<0, 4>>]

\* the order in which mid, id and man try the classes
Tried == <<"regular", "group", "coastal", "auxiliary", "sar_aircraft",
           "mob", "sart", "epirb_ais", "ais_aids">>

Taken(places, n) ==
    LET found == {k \in DOMAIN Tried : Tried[k] \in DOMAIN places /\ Is(Tried[k], n)}
        first == Tried[CHOOSE k \in found : \A j \in found : k <= j]
    IN  IF found = {} THEN initial_value
        ELSE Digits(n, places[first][1], places[first][2])

mid(n) == Taken(MidOf, n)
id(n) == Taken(IdOf, n)
man(n) == Taken(ManOf, n)

\* the MIDs of the table; each occurs once
Countries ==
    UNION {201..216, 218..220, 224..259, 261..279, 303..312, 329..332, 338..339,
           347..348, 350..359, 361..362, 366..379, 412..414, 416..417, 422..423,
           431..432, 436..438, 440..441, 450..451, 470..473, 477..478, 510..512,
           514..516, 563..567, 576..578, 607..613, 615..622, 624..627, 629..638,
           644..645, 649..650, 654..657, 659..672, 674..679}
      \cup {301, 314, 316, 319, 321, 323, 325, 327, 334, 336, 341, 343, 345, 364,
            401, 403, 405, 408, 410, 419, 425, 428, 434, 443, 445, 447, 453, 455,
            457, 459, 461, 463, 466, 468, 475, 501, 503, 506, 508, 518, 520, 523,
            525, 529, 531, 533, 536, 538, 540, 542, 544, 546, 548, 553, 555, 557,
            559, 561, 570, 572, 574, 601, 603, 605, 642, 647, 701, 710, 720, 725,
            730, 735, 740, 745, 750, 755, 760, 765, 770, 775}

\* the MID of the entry that is found
mmsi_country(n) ==
    LET regular == IF is_regular(n) THEN {Digits(n, 6, 3)} ELSE {}
        sar == IF is_sar_aircraft(n) THEN {Digits(n, 3, 3)} ELSE {}
        found == (regular \cup sar) \cap Countries
    IN  IF found = {} THEN initial_value ELSE CHOOSE c \in found : TRUE
=============================================================================
