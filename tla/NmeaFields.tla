----------------------------- MODULE NmeaFields -----------------------------
(***************************************************************************)
(* How the members of an NMEA sentence become the fields of a line and how *)
(* the fields become members: read, format, to_string and to_string_if of  *)
(* io.cpp, io.hpp and string.cpp, and the parts every sentence class is    *)
(* made of.  A sentence is a layout: the sequence of its fields and the    *)
(* numbers of fields its parsing constructor takes.                        *)
(*                                                                         *)
(* A value is named by a text it is written as, an unset one and an empty  *)
(* text by "", but an empty waypoint by "blank".  The width and the        *)
(* precision of numbers are left out; the fraction of a time, the century  *)
(* of a date and the sign of an angle are not.                             *)
(***************************************************************************)
EXTENDS Naturals, Sequences, FiniteSets

CONSTANT MaxEntries     \* most entries of a list: max_waypoints and the like

ASSUME MaxEntriesAssumption == MaxEntries \in Nat \ {0}

Refuse == "refused"     \* the conversion throws
NoObject == <<>>        \* the constructor throws
Keep == "kept"          \* the conversion leaves the member as it is

(***************************************************************************)
(* A type says what a text means, what is written for a value and what may *)
(* be the outcome of an empty field if the member is not optional.         *)
(***************************************************************************)
Type(S, none) ==
    [means |-> [t \in S |-> t], says |-> [t \in S |-> t], none |-> none]

Number == Type({"0", "1"}, {Keep})
UnsetNumber == Type({"0", "1"}, {"0", "1"})     \* the member holds anything
Text == Type({"a", "?"}, {""})
Letter(S) == Type(S \cup {"?"}, {Keep})

\* the switch is over an uninitialized character if the field is empty
Enum(S) == Type(S, S \cup {Refuse})
\* the mapping is called with zero if the field is empty
Mapped(S, zero) == Type(S, {zero})

Status == Enum({"A", "V"})
Side == Enum({"L", "R"})
Reference == Enum({"T", "M", "R"})
Distance == Enum({"M", "f", "N", "K", "F"})
Velocity == Enum({"N", "K", "M"})
Selection == Enum({"M", "A"})
ModeIndicator == Enum({"V", "A", "D", "E", "M", "S", "N", "P"})
TargetStatus == Enum({"L", "Q", "T"})
PointType == Enum({"C", "T", "R", "W"})
Quality == Enum({"0", "1", "2", "6", "8"})
Direction ==
    LET named == {"N", "S", "E", "W"}
    IN  [Enum(named) EXCEPT !.says = [t \in named \cup {"none"} |-> t]]
\* An empty waypoint is one that is set and shows as nothing.  A waypoint that is
\* read directly is set even if the field is empty.
Waypoint ==
    [means |-> [t \in {"a", "?"} |-> t],
     says |-> [t \in {"a", "?", "blank"} |-> IF t = "blank" THEN "" ELSE t],
     none |-> {"blank"}]
Channel ==
    [means |-> [t \in {"1", "A", "2", "B"} |->
                  IF t \in {"1", "A"} THEN "A" ELSE "B"],
     says |-> [t \in {"A", "B"} |-> t], none |-> {"A", "B", Refuse}]

\* midnight, and some milliseconds after 00:00:16.  The parser multiplies a double
\* by 1000 and cuts it off: of 000016.121 only 120 ms are left.
Times == {"0", "16", "16.01", "16.12", "16.121"}
Time ==
    [means |-> [t \in Times \cup {"0.00", "16.00"} |->
                  CASE t = "0.00" -> "0"
                    [] t = "16.00" -> "16"
                    [] t = "16.121" -> "16.12"
                    [] OTHER -> t],
     says |-> [t \in Times |-> t], none |-> {Refuse}]
\* format(time, 2) divides the milliseconds by 100 and writes two digits
TimeIn2Digits ==
    [Time EXCEPT !.says = [t \in Times |->
        CASE t = "0" -> "0.00"
          [] t \in {"16", "16.01"} -> "16.00"
          [] OTHER -> "16.01"]]
\* to_string(duration) leaves the fraction out
Duration == [Time EXCEPT !.says = [t \in Times |-> IF t = "0" THEN "0" ELSE "16"]]
\* years; to_string(date) has room for two digits, the first two
Date ==
    [means |-> [t \in {"0", "15", "20"} |-> t],
     says |-> [t \in {"0", "15", "20", "2015"} |->
                 IF t = "2015" THEN "20" ELSE t],
     none |-> {Refuse}]
\* degrees and minutes are written without the sign
Angle ==
    [means |-> [t \in {"0", "1"} |-> t],
     says |-> [t \in {"0", "1", "-1"} |-> IF t = "-1" THEN "1" ELSE t],
     none |-> {"0"}]

-----------------------------------------------------------------------------
(***************************************************************************)
(* The fields.  "with" is how far before the field the member stands whose *)
(* setter sets this one too; init is the value of the member if nothing is *)
(* read, fresh the one the default constructor gives it; args is what a    *)
(* setter takes, only what the checks after reading let pass; old means    *)
(* that the setter checks the member's old value with them, needed that it *)
(* must be set if the one before it is.                                    *)
(***************************************************************************)
Member(T, init) ==
    [part |-> "member", type |-> T, opt |-> FALSE, init |-> init, with |-> 0,
     fresh |-> init, args |-> DOMAIN T.says, only |-> DOMAIN T.says \cup {""}, old |-> FALSE,
     needed |-> FALSE, sides |-> <<>>, always |-> TRUE]
Opt(T) == [Member(T, "") EXCEPT !.opt = TRUE]

With(d, f) == [f EXCEPT !.with = d]
Args(S, f) == [f EXCEPT !.args = S]
Checked(S, f) == [f EXCEPT !.only = S \cup {""}]
CheckedLate(S, f) == [Checked(S, f) EXCEPT !.old = TRUE, !.needed = TRUE]
Fresh(v, f) == [f EXCEPT !.fresh = v]
Joint(d, f) == [f EXCEPT !.part = "joint", !.with = d]

\* a unit or reference, no member: of the value before it
UnitOf(u, S) ==
    [Member([means |-> [t \in S |-> ""], says |-> [t \in {""} |-> u],
             none |-> {"", Refuse}], "")
       EXCEPT !.part = "unit"]
\* written if the value is set, read as an optional, checked
Unit(u) == [UnitOf(u, {u}) EXCEPT !.opt = TRUE, !.always = FALSE]
\* always written, read into an uninitialized variable, checked
UnitAlways(u) == UnitOf(u, {u})
\* written if the value is set, but read into an uninitialized variable
UnitBare(u, S) == [UnitOf(u, S) EXCEPT !.always = FALSE]
\* written, not read
Unread(t) == [Member(Text, t) EXCEPT !.part = "unread"]

Hemisphere(pos, neg, f) ==
    [f EXCEPT !.part = "hemisphere", !.with = 1, !.args = {pos, neg},
              !.sides = <<pos, neg>>]
Position ==
    <<Opt(Angle), Hemisphere("N", "S", Opt(Direction)),
      Opt(Angle), Hemisphere("E", "W", Opt(Direction))>>
PositionMember ==
    <<Member(Angle, "0"), Hemisphere("N", "S", Member(Direction, "N")),
      Member(Angle, "0"), Hemisphere("E", "W", Member(Direction, "E"))>>
\* the class magnetic: an angle to the east or west, or the default one
Magnetic == <<Opt(Number), With(1, Args({"E", "W", "none"}, Opt(Direction)))>>

Repeat(n, f) == [i \in 1..n |-> f]
Layout(sizes, fields) ==
    [sizes |-> sizes, fields |-> fields, head |-> Len(fields), entry |-> 1,
     holes |-> FALSE, skips |-> FALSE, append |-> FALSE, calls |-> {}, least |-> 0]
Fixed(fields) == Layout({Len(fields)}, fields)

(***************************************************************************)
(* A list of entries of the same fields follows the others.  An entry that *)
(* is not there is unset; if the list has holes its fields are written all *)
(* the same.  The constructor skips an entry whose first field is empty if *)
(* skips.  Entries are set one by one, or one is appended, or a call gives *)
(* all of them, any of calls in number.  Without the least number of       *)
(* entries append_data_to throws.                                          *)
(***************************************************************************)
List(head, entry, sizes) ==
    LET absent(f) == [f EXCEPT !.init = "", !.fresh = ""]
        place(k) == entry[((k - 1) % Len(entry)) + 1]
    IN  [Layout(sizes, head \o [k \in 1..(MaxEntries * Len(entry)) |-> absent(place(k))])
           EXCEPT !.head = Len(head), !.entry = Len(entry)]

\* how many entries there is room for, where one begins, and the entry of a field
Most(l) == (Len(l.fields) - l.head) \div l.entry
BeginOf(l, e) == l.head + (e - 1) * l.entry + 1
EntryOf(l, i) == ((i - l.head - 1) \div l.entry) + 1
FirstOf(l, i) == BeginOf(l, EntryOf(l, i))

\* whether the entry of a field is there, all that are there, and their fields
Present(l, o, i) == i <= l.head \/ o[FirstOf(l, i)] # ""
Entries(l, o) == {e \in 1..Most(l) : o[BeginOf(l, e)] # ""}
InUse(l, o) == l.head + Cardinality(Entries(l, o)) * l.entry

\* the k-th of the numbers in S
Rank(S, e) == Cardinality({d \in S : d <= e})
Nth(S, k) == CHOOSE e \in S : Rank(S, e) = k

\* the field that becomes field i if there are no holes
Source(l, o, i) ==
    IF i <= l.head THEN i
    ELSE BeginOf(l, Nth(Entries(l, o), EntryOf(l, i))) + (i - FirstOf(l, i))
ClosedUp(l, o) ==
    [i \in DOMAIN l.fields |-> IF i <= InUse(l, o) THEN o[Source(l, o, i)] ELSE ""]

\* the members as a line has them
Shown(l, o) == IF l.holes THEN o ELSE ClosedUp(l, o)

-----------------------------------------------------------------------------
Initial(l) ==
    [i \in DOMAIN l.fields |->
        IF l.fields[i].part = "unread" THEN "" ELSE l.fields[i].fresh]

Leader(l, i) == i - l.fields[i].with
Group(l, i) == {j \in DOMAIN l.fields : Leader(l, j) = i}
Leaders(l) ==
    {i \in DOMAIN l.fields :
        l.fields[i].part \in {"member", "joint"} /\ l.fields[i].with = 0}

\* mutant: an unset number is written as zero
WrittenZero(l, o) ==
    [i \in DOMAIN l.fields |->
        IF l.fields[i].part \in {"unit", "unread"} THEN ""
        ELSE IF o[i] = "" THEN "0" ELSE l.fields[i].type.says[o[i]]]

\* what append_data_to writes
FieldText(l, o, i) ==
    LET f == l.fields[i]
    IN  CASE f.part = "unit" ->
               IF f.always \/ o[i - 1] # "" THEN f.type.says[""] ELSE ""
          [] f.part = "unread" -> f.init
          [] OTHER -> IF o[i] = "" THEN "" ELSE f.type.says[o[i]]
Written(l, o) ==
    [i \in 1..(IF l.holes THEN Len(l.fields) ELSE InUse(l, o)) |->
        FieldText(l, Shown(l, o), i)]

\* append_data_to does not throw
Writable(l, o) == \A e \in 1..l.least : o[BeginOf(l, e)] # ""

\* the outcomes of reading text t into field f
FieldOutcomes(f, t) ==
    IF f.part = "unread" \/ (t = "" /\ f.opt) THEN {""}
    ELSE IF t = "" THEN {IF x = Keep THEN f.init ELSE x : x \in f.type.none}
    ELSE IF t \in DOMAIN f.type.means THEN {f.type.means[t]} ELSE {Refuse}

\* mutant: the angle keeps the sign it was read with
Uncorrected(l, o) == o

\* correct_hemisphere gives the angle the sign of its hemisphere
Corrected(l, o) ==
    [i \in DOMAIN l.fields |->
        IF /\ i < Len(l.fields)
           /\ l.fields[i + 1].part = "hemisphere"
           /\ o[i] \in {"1", "-1"} /\ o[i + 1] # ""
        THEN IF o[i + 1] = l.fields[i + 1].sides[2] THEN "-1" ELSE "1"
        ELSE o[i]]

\* of several values that make one member, all are there or none is
Completed(l, o) ==
    [i \in DOMAIN l.fields |->
        IF /\ l.fields[i].part = "joint"
           /\ \E j \in Group(l, Leader(l, i)) : o[j] = ""
        THEN "" ELSE o[i]]

\* the checks of correct_hemisphere, check_value and check()
Passes(l, o) ==
    \A i \in DOMAIN l.fields :
        LET f == l.fields[i]
        IN  /\ f.part = "unit" \/ o[i] \in f.only
            /\ f.needed /\ o[i - 1] # "" => o[i] # ""
            /\ f.part = "hemisphere" /\ o[i - 1] # "" /\ o[i] # ""
                 => o[i] \in {f.sides[1], f.sides[2]}

\* mutant: one field too many is not noticed
TakesMore(l, n) == n \in l.sizes \/ n - 1 \in l.sizes

\* the check of the number of fields
Takes(l, n) == n \in l.sizes

\* mutant: an empty field clears its member
HereCleared(l, line, i) ==
    CASE i > Len(line) -> {l.fields[i].init}
      [] i <= Len(line) /\ line[i] = "" -> {""}
      [] OTHER -> FieldOutcomes(l.fields[i], line[i])

\* the outcomes of reading field i of a line; an entry may be skipped
Here(l, line, i) ==
    CASE i > Len(line) -> {l.fields[i].init}
      [] i <= Len(line) /\ l.skips /\ i > l.head /\ line[FirstOf(l, i)] = "" -> {""}
      [] OTHER -> FieldOutcomes(l.fields[i], line[i])

(***************************************************************************)
(* What the parsing constructor may make of a line.                        *)
(***************************************************************************)
Outcomes(l, line) ==
    LET open == {i \in DOMAIN l.fields : Cardinality(Here(l, line, i)) > 1}
        choices == {g \in [open -> UNION {Here(l, line, i) : i \in open}] :
                      \A i \in open : g[i] \in Here(l, line, i)}
        object(g) == [i \in DOMAIN l.fields |->
                        IF i \in open THEN g[i] ELSE CHOOSE x \in Here(l, line, i) : TRUE]
        accepted(o) == Refuse \notin {o[i] : i \in DOMAIN o} /\ Passes(l, o)
    IN  IF \/ ~Takes(l, Len(line))
           \/ \E i \in DOMAIN l.fields : Here(l, line, i) = {Refuse}
        THEN {NoObject}
        ELSE {IF ~accepted(object(g)) THEN NoObject
              ELSE IF l.append THEN ClosedUp(l, object(g))
              ELSE Completed(l, Corrected(l, object(g))) : g \in choices}
=============================================================================
