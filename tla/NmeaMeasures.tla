---------------------------- MODULE NmeaMeasures ----------------------------
(***************************************************************************)
(* The members of sentences that are measured in a unit.  A setter takes a *)
(* length, a velocity or a temperature in whatever unit, the member has    *)
(* its own, append_data_to writes the number and a letter for the unit, a  *)
(* parsing constructor reads both, a getter gives a value to calculate     *)
(* with.  What came to be in a member is kept beside it.                   *)
(***************************************************************************)
EXTENDS Quantities, NmeaSentences

\* the units of the members, by their fields
In(unit, places) == [i \in places |-> unit]

AamMeasures == In("nautical_miles", {3})
BecMeasures == In("nautical_miles", {10})
BwcMeasures == In("nautical_miles", {10})
BwrMeasures == In("nautical_miles", {10})
DbkMeasures == In("feet", {1}) @@ In("meters", {3}) @@ In("fathoms", {5})
DbtMeasures == In("feet", {1}) @@ In("meters", {3}) @@ In("fathoms", {5})
DptMeasures == In("meters", {1, 2, 3})
DtmMeasures == In("meters", {7})
GbsMeasures == In("meters", {2, 3, 4, 7})
GgaMeasures == In("meters", {9, 11})
GnsMeasures == In("meters", {9, 10})
GstMeasures == In("meters", {3, 4, 6, 7, 8})
HfbMeasures == In("meters", {1, 3})
ItsMeasures == In("meters", {1})
MobMeasures == In("knots", {12})
MtaMeasures == In("celsius", {1})
MtwMeasures == In("celsius", {1})
MwdMeasures == In("knots", {5}) @@ In("meters_per_second", {7})
PgrmeMeasures == In("meters", {1, 3, 5})
PgrmzMeasures == In("feet", {1})
RmaMeasures == In("knots", {8})
RmbMeasures == In("nautical_miles", {2, 10}) @@ In("knots", {12})
RmcMeasures == In("knots", {7})
TdsMeasures == In("meters", {1})
TpcMeasures == In("meters", {1, 3, 5})
TprMeasures == In("meters", {1, 5})
TptMeasures == In("meters", {1, 5})
VbwMeasures == In("knots", {1, 2, 4, 5})
VdrMeasures == In("knots", {5})
VhwMeasures == In("knots", {5}) @@ In("kilometers_per_hour", {7})
VlwMeasures == In("nautical_miles", {1, 3})
VpwMeasures == In("knots", {1}) @@ In("meters_per_second", {3})
VtgMeasures == In("knots", {5}) @@ In("kilometers_per_hour", {7})
VwrMeasures == In("knots", {3}) @@ In("meters_per_second", {5}) @@ In("kilometers_per_hour", {7})
WcvMeasures == In("knots", {1})
WdcMeasures == In("nautical_miles", {1})
WdrMeasures == In("nautical_miles", {1})

\* Mutant of WncMeasures: both distances in the same unit.
WncMeasuresMiles == In("nautical_miles", {1, 3})

WncMeasures == In("nautical_miles", {1}) @@ In("kilometers", {3})
ZdlMeasures == In("nautical_miles", {2})

\* of MWV the object keeps the number and the letter, the letter tells the unit
ByLetter == "by letter"
MwvMeasures == In(ByLetter, {3})

Measures ==
    [AAM |-> AamMeasures, BEC |-> BecMeasures, BWC |-> BwcMeasures,
     BWR |-> BwrMeasures, DBK |-> DbkMeasures, DBT |-> DbtMeasures,
     DPT |-> DptMeasures, DTM |-> DtmMeasures, GBS |-> GbsMeasures,
     GGA |-> GgaMeasures, GNS |-> GnsMeasures, GST |-> GstMeasures,
     HFB |-> HfbMeasures, ITS |-> ItsMeasures, MOB |-> MobMeasures,
     MTA |-> MtaMeasures, MTW |-> MtwMeasures, MWD |-> MwdMeasures,
     MWV |-> MwvMeasures, PGRME |-> PgrmeMeasures, PGRMZ |-> PgrmzMeasures,
     RMA |-> RmaMeasures, RMB |-> RmbMeasures, RMC |-> RmcMeasures,
     TDS |-> TdsMeasures, TPC |-> TpcMeasures, TPR |-> TprMeasures,
     TPT |-> TptMeasures, VBW |-> VbwMeasures, VDR |-> VdrMeasures,
     VHW |-> VhwMeasures, VLW |-> VlwMeasures, VPW |-> VpwMeasures,
     VTG |-> VtgMeasures, VWR |-> VwrMeasures, WCV |-> WcvMeasures,
     WDC |-> WdcMeasures, WDR |-> WdrMeasures, WNC |-> WncMeasures,
     ZDL |-> ZdlMeasures]

\* setters that throw if the value is negative; two of them throw too late
ChecksFirst == {"AAM", "BEC", "BWC", "BWR", "DBT", "DPT", "RMA", "RMB", "RMC"}
AssignsFirst == {"WDC", "WDR"}

\* getters that give the unit of the member, the others give the quantity
GivesUnit == {"MTA", "VHW", "VPW", "VTG", "WDC", "WDR"}

VelocityOf == [N |-> "knots", K |-> "kilometers_per_hour", M |-> "meters_per_second"]
LengthOf == [M |-> "meters", f |-> "feet", F |-> "fathoms", N |-> "nautical_miles",
             K |-> "kilometers"]

NoObjectYet == "none"
Unset == [unit |-> NoUnit, val |-> <<>>]

VARIABLES
    id,             \* the class of the object, or NoObjectYet
    obj,            \* the members: unit and number, or Unset
    told,           \* what they were told, by the calculation or another program
    line            \* the numbers and the letters of a line, or NoLine

NoLine == <<>>
vars == <<q, truth, steps, id, obj, told, line>>

Init ==
    /\ InitQuantity
    /\ id = NoObjectYet
    /\ obj = <<>>
    /\ told = <<>>
    /\ line = NoLine

Places == DOMAIN Measures[id]
Optional(i) == Layouts[id].fields[i].opt
UnitsIn(c, i) ==
    IF Measures[c][i] = ByLetter THEN {VelocityOf[l] : l \in DOMAIN VelocityOf}
    ELSE {Measures[c][i]}
UnitsAt(i) == UnitsIn(id, i)

\* the field behind the number, if it is one for the unit
LetterField(i) == Layouts[id].fields[i + 1]
HasLetter(i) == i < Len(Layouts[id].fields) /\ LetterField(i).part = "unit"
LetterOf(u) == CHOOSE l \in DOMAIN VelocityOf : VelocityOf[l] = u
LetterAt(i) ==
    CASE obj[i] = Unset -> ""
      [] id = "MWV" -> LetterOf(obj[i].unit)
      [] HasLetter(i) -> LetterField(i).type.says[""]
      [] OTHER -> ""

\* the unit a letter stands for in a sentence, without one the unit of the standard
Stated(i, letter) ==
    LET u == CHOOSE v \in UnitsAt(i) : TRUE
    IN  CASE letter = "" -> u
          [] u \in DOMAIN VelocityUnits -> VelocityOf[letter]
          [] u \in DOMAIN LengthUnits -> LengthOf[letter]
          [] u \in DOMAIN TemperatureUnits -> "celsius"

\* a program that has a value makes a sentence that takes it
Construct(c) ==
    /\ id = NoObjectYet
    /\ q # NoValue =>
         \E i \in DOMAIN Measures[c] : \E u \in UnitsIn(c, i) : AllUnits[u].dim = q.dim
    /\ id' = c
    /\ obj' = [i \in DOMAIN Measures[c] |->
                 IF Layouts[c].fields[i].opt THEN Unset
                 ELSE [unit |-> Measures[c][i], val |-> <<>>]]
    /\ told' = [i \in DOMAIN Measures[c] |->
                  IF Layouts[c].fields[i].opt THEN Disputed
                  ELSE MeaningOf(Measures[c][i], <<>>)]
    /\ UNCHANGED <<q, truth, steps, line>>

Negative(v) == v # <<>> /\ \A p \in DOMAIN v : v[p] < 0
Signed(v) == Negative(v) \/ \A p \in DOMAIN v : v[p] > 0
ValueOf == IF IsUnit THEN ToQuantity(q.unit, q.val) ELSE q.val

\* a unit becomes a quantity when it is given to a setter
Set(i) ==
    /\ line = NoLine
    /\ Counted
    /\ \E u \in UnitsAt(i) :
          /\ q.dim = AllUnits[u].dim
          /\ id \in ChecksFirst \cup AssignsFirst => Signed(ValueOf)
          /\ LET throws == id \in ChecksFirst \cup AssignsFirst /\ Negative(ValueOf)
             IN  /\ obj' = IF throws /\ id \in ChecksFirst THEN obj
                           ELSE [obj EXCEPT ![i] = [unit |-> u, val |-> get(u, ValueOf)]]
                 /\ told' = [told EXCEPT ![i] =
                               CASE throws /\ id \in AssignsFirst -> Disputed
                                 [] throws -> @
                                 [] OTHER -> truth]
    /\ UNCHANGED <<q, truth, id, line>>

Write ==
    /\ line = NoLine
    /\ line' = [i \in Places |-> [number |-> obj[i], letter |-> LetterAt(i)]]
    /\ UNCHANGED <<q, truth, steps, id, obj, told>>

\* another program's line, one number in it, with any letter a constructor takes
ForeignLine ==
    /\ line = NoLine
    /\ q = NoValue
    /\ \E i \in Places :
         \E letter \in IF id = "MWV" THEN DOMAIN VelocityOf
                       ELSE IF HasLetter(i) THEN DOMAIN LetterField(i).type.means
                       ELSE {""} :
            LET sent == [unit |-> Stated(i, letter), val |-> Symbol("n")]
            IN  /\ line' = [k \in Places |->
                              IF k = i THEN [number |-> sent, letter |-> letter]
                              ELSE [number |-> Unset, letter |-> ""]]
                /\ told' = [k \in Places |->
                              IF k = i THEN MeaningOf(sent.unit, sent.val) ELSE Disputed]
    /\ UNCHANGED <<q, truth, steps, id, obj>>

\* only the number is taken from a line, and of MWV the letter
ReadNumber(i) ==
    LET u == IF id = "MWV" THEN VelocityOf[line[i].letter] ELSE Measures[id][i]
    IN  IF line[i].number # Unset THEN [unit |-> u, val |-> line[i].number.val]
        ELSE IF Optional(i) THEN Unset
        ELSE [unit |-> u, val |-> <<>>]

Read ==
    /\ line # NoLine
    /\ obj' = [i \in Places |-> ReadNumber(i)]
    /\ line' = NoLine
    /\ UNCHANGED <<q, truth, steps, id, told>>

\* the program goes on with the value
GetMember(i) ==
    /\ line = NoLine
    /\ obj[i] # Unset
    /\ q' = IF id \in GivesUnit THEN basic_unit(obj[i].unit, obj[i].val)
            ELSE quantity(obj[i].unit, obj[i].val)
    /\ truth' = told[i]
    /\ id' = NoObjectYet
    /\ obj' = <<>>
    /\ told' = <<>>
    /\ UNCHANGED <<steps, line>>

Calculate == Operate /\ id = NoObjectYet /\ UNCHANGED <<id, obj, told, line>>

Next ==
    \/ Calculate
    \/ \E c \in DOMAIN Measures : Construct(c)
    \/ id # NoObjectYet /\ \E i \in Places : Set(i) \/ GetMember(i)
    \/ id # NoObjectYet /\ (Write \/ ForeignLine \/ Read)

Spec == Init /\ [][Next]_vars

-----------------------------------------------------------------------------
(***************************************************************************)
(* A number in a line, in the unit its letter stands for, means what the   *)
(* setter was told, in whatever unit that was and after whatever           *)
(* calculation, and so it does after other programs' lines: the unit of a  *)
(* member, the conversion of its setter and the letter append_data_to      *)
(* writes and the constructor takes agree.                                 *)
(***************************************************************************)
LineMeans ==
    line # NoLine =>
        \A i \in Places :
            line[i].number # Unset /\ told[i] # Disputed =>
                MeaningOf(Stated(i, line[i].letter), line[i].number.val) = told[i]
=============================================================================
