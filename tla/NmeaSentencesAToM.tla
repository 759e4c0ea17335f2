-------------------------- MODULE NmeaSentencesAToM --------------------------
(***************************************************************************)
(* The layouts of the NMEA sentences AAM to MWV: members, constructors,    *)
(* setters, checks and append_data_to of the class of each.                *)
(***************************************************************************)
EXTENDS NmeaFields

Aam == Fixed(<<Member(Status, "V"), Member(Status, "V"), Member(Number, "0"),
               UnitAlways("N"), Member(Text, "")>>)
Ack == Fixed(<<Member(Number, "0")>>)
\* check() after reading: a satellite is numbered from 1
Alm == Fixed(Repeat(2, Member(Number, "0"))
             \o <<Checked({"1"}, Member(Number, "0"))>>
             \o Repeat(12, Member(Number, "0")))
Alr == Fixed(<<Member(Time, "0"), Member(Number, "0"),
               Member(Mapped({"A", "V"}, Refuse), "A"),
               Member(Mapped({"A", "V"}, Refuse), "A"), Member(Text, "")>>)

\* the fields APA and APB have in common: warnings, cross track error with
\* its unit, arrival, bearing and waypoint
Bearing == <<Opt(Number), With(1, CheckedLate({"T", "M"}, Opt(Reference)))>>
CrossTrack(units) ==
    <<Opt(Status), Opt(Status), Opt(Number), Opt(Side),
      With(2, Args({"N"}, Checked(units, Opt(Distance)))),
      Opt(Status), Opt(Status)>>
Apa == Fixed(CrossTrack({"N"}) \o Bearing \o <<Opt(Waypoint)>>)
Apb == Layout(14..15,
              CrossTrack({"N", "K"}) \o Bearing \o <<Opt(Waypoint)>> \o Bearing \o Bearing
              \o <<Args({"V", "A", "D"},
                        Checked({"V", "A", "D"}, Opt(ModeIndicator)))>>)

Bec == Fixed(<<Member(Time, "0")>> \o PositionMember
             \o <<Member(Number, "0"), UnitAlways("T"), Member(Number, "0"),
                  UnitAlways("M"), Member(Number, "0"), UnitAlways("N"),
                  Member(Text, "")>>)
Bod == Fixed(<<Opt(Number), UnitBare("T", {"T"}), Opt(Number),
               UnitBare("M", {"M"}), Opt(Waypoint), Opt(Waypoint)>>)
Bwc == Layout(12..13,
              <<Opt(Time)>> \o Position
              \o <<Opt(Number), With(1, Args({"T"}, Opt(Reference))),
                   Opt(Number), With(1, Args({"M"}, Opt(Reference))),
                   Opt(Number), Unit("N"), Opt(Waypoint), Opt(ModeIndicator)>>)
Bwr == Layout(12..13,
              <<Opt(Time)>> \o Position
              \o <<Opt(Number), Unit("T"), Opt(Number), Unit("M"),
                   Opt(Number), Unit("N"), Opt(Waypoint), Opt(ModeIndicator)>>)
Bww == Fixed(<<Opt(Number), Unit("T"), Opt(Number), Unit("M"),
               Opt(Waypoint), Opt(Waypoint)>>)

Dbk == Fixed(<<Opt(Number), Unit("f"), Opt(Number), Unit("M"),
               Opt(Number), Unit("F")>>)
Dbt == Fixed(<<Opt(Number), Unit("f"), Opt(Number), Unit("M"),
               Opt(Number), Unit("F")>>)
Dpt == Layout(2..3, <<Member(Number, "0"), Member(Number, "0"), Opt(Number)>>)

\* geographical_area is read as 2 and written as 00
FormatSpecifier ==
    [Mapped({"02", "12", "16", "20"}, Refuse) EXCEPT
       !.says = [t \in {"02", "12", "16", "20"} |->
                   IF t = "02" THEN "00" ELSE t]]
\* nothing sets a member of DSC, every object comes from a line
Dsc == Fixed(<<Args({}, Member(FormatSpecifier, "12")),
               Args({}, Member(Number, "0")),
               Args({}, Member(Mapped({"00", "08", "10", "12"}, "00"), "12"))>>
             \o Repeat(6, Unread(""))
             \o <<Args({}, Member(Mapped({"B", "R", "S"}, Refuse), "S")),
                  Args({}, Member(Mapped({"E"}, ""), ""))>>)
Dse == Fixed(<<Member(Number, "1"), Member(Number, "1"),
               Member(Mapped({"Q", "R", "A"}, Refuse), "Q"),
               Member(Number, "0"), Unread(""), Unread("")>>)
Dtm == Fixed(<<Member(Text, "a"), Opt(Text),
               Member(Number, "0"), With(1, Args({"N", "S"}, Member(Direction, "N"))),
               Member(Number, "0"), With(1, Args({"E", "W"}, Member(Direction, "E"))),
               Member(Number, "0"), Member(Text, "a")>>)
Fsi == Fixed(<<Opt(Number), Opt(Number), Opt(Letter({"a"})), Opt(Number),
               Args({"R", "C"}, Opt(Letter({"R", "C"})))>>)

Gbs == Fixed(<<Member(TimeIn2Digits, "0")>> \o Repeat(7, Member(Number, "0")))
Gga == Fixed(<<Opt(Time)>> \o Position
             \o <<Opt(Quality), Opt(Number), Opt(Number), Opt(Number), Unit("M"),
                  Opt(Number), Unit("M"), Opt(Number), Opt(Number)>>)
\* five pairs of a time difference and its status, both or none; the parsing
\* constructor gives master_ no value
PairsOf(f, g) ==
    [i \in 1..10 |-> IF i % 2 = 1 THEN Joint(0, Opt(f)) ELSE Joint(1, Opt(g))]
Glc == Fixed(<<Member(Number, "0"), Member(UnsetNumber, "0"),
               With(1, Member(Status, "V"))>> \o PairsOf(Number, Status))
Gll == Layout(6..7, Position \o <<Opt(Time), Opt(Status),
                                   Fresh("V", Opt(ModeIndicator))>>)
Gns == Fixed(<<Opt(Time)>> \o Position
             \o <<Args({"a"}, Member(Text, "a"))>> \o Repeat(6, Opt(Number)))
Grs == Fixed(<<Member(TimeIn2Digits, "0"), Member(Mapped({"0", "1"}, "0"), "0")>>
             \o Repeat(3, Fresh("0", Opt(Number))) \o Repeat(9, Opt(Number)))
Gsa == Fixed(<<Opt(Selection)>> \o Repeat(16, Opt(Number)))
Gst == Fixed(<<Member(TimeIn2Digits, "0")>> \o Repeat(7, Member(Number, "0")))
\* satellites: a line may have more than the class, which ignores them; of the
\* entry of one without a number nothing is read, elevation and azimuth may be
\* anything if their fields are empty
Gsv ==
    [List(<<Args({"1"}, Member(Number, "1")), Args({"1"}, Member(Number, "1")),
            Member(Number, "0")>>,
          <<Opt(Number), With(1, Member(UnsetNumber, "")), With(2, Member(UnsetNumber, "")),
            With(3, Args({"", "0", "1"}, Opt(Number)))>>,
          {3 + 4 * n : n \in 0..(MaxEntries + 1)})
       EXCEPT !.holes = TRUE, !.skips = TRUE]
\* the parsing constructor gives time_diffs_ no value
Gtd == Fixed(Repeat(5, Member(UnsetNumber, "0")))

Hdg == Fixed(<<Opt(Number)>> \o Magnetic \o Magnetic)
Hdm == Fixed(<<Opt(Number), With(1, Args({"M"}, Opt(Reference)))>>)
Hdt == Fixed(<<Opt(Number), With(1, Args({"T"}, Opt(Reference)))>>)
Hfb == Fixed(<<Member(Number, "0"), UnitAlways("M"),
               Member(Number, "0"), UnitAlways("M")>>)
Hsc == Fixed(<<Opt(Number), With(1, Args({"T"}, Opt(Reference))),
               Opt(Number), With(1, Args({"M"}, Opt(Reference)))>>)
Its == Fixed(<<Member(Number, "0"), UnitAlways("M")>>)
\* master_ has no value in the parsing constructor
Lcd == Fixed(<<Member(Number, "0"), Member(UnsetNumber, "0"),
               With(1, Member(UnsetNumber, "0"))>> \o PairsOf(Number, Number))

\* 2 to 5 are read as reserved, which is written as 2
SourceOrBattery ==
    [means |-> [t \in {"0", "1", "2", "5", "6"} |-> IF t = "5" THEN "2" ELSE t],
     says |-> [t \in {"0", "1", "2", "6"} |-> t], none |-> {"0"}]
Mob == Fixed(<<Args({"a"}, Opt(Text)),
               Member(Mapped({"A", "T", "M", "V", "E"}, Refuse), "E"),
               Member(Time, "0"), Member(SourceOrBattery, "6"),
               Member(Date, "0"), Member(Time, "0")>> \o PositionMember
             \o <<Member(Number, "0"), Member(Number, "0"), Member(Number, "0"),
                  Member(SourceOrBattery, "6")>>)
Msk == Fixed(<<Member(Number, "0"), With(1, Member(Selection, "A")),
               Member(Number, "0"), With(1, Member(Selection, "A")),
               Opt(Number)>>)
Mss == Fixed(Repeat(5, Member(Number, "0")))
Mta == Fixed(<<Member(Number, "0"), UnitAlways("C")>>)
Mtw == Fixed(<<Member(Number, "0"), UnitAlways("C")>>)
Mwd == Fixed(<<Opt(Number), Unit("T"), Opt(Number), Unit("M"),
               Opt(Number), Unit("N"), Opt(Number), Unit("M")>>)
Mwv == Fixed(<<Opt(Number), With(1, Args({"T", "R"}, Opt(Reference))),
               Opt(Number), With(1, Opt(Velocity)), Opt(Status)>>)
=============================================================================
