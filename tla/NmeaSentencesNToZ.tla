-------------------------- MODULE NmeaSentencesNToZ --------------------------
(***************************************************************************)
(* The layouts of the NMEA sentences OSD to ZTG, and of those of the       *)
(* manufacturer Garmin: members, constructors, setters, checks and         *)
(* append_data_to of the class of each.                                    *)
(***************************************************************************)
EXTENDS NmeaFields

Osd == Fixed(<<Opt(Number), Opt(Status), Opt(Number),
               With(1, Args({"T"}, Opt(Reference))), Opt(Number),
               Opt(Letter({"a"})), Opt(Number), Opt(Number), Opt(Velocity)>>)
Pgrme == Fixed(<<Opt(Number), UnitAlways("M"), Opt(Number), UnitAlways("M"),
                 Opt(Number), UnitAlways("M")>>)
Pgrmm == Fixed(<<Member(Text, "")>>)
Pgrmz == Fixed(<<Member(Number, "0"), UnitAlways("f"),
                 Opt(Mapped({"1", "2", "3"}, Refuse))>>)
R00 == Fixed(Repeat(14, Member(Waypoint, "")))
Rma == Fixed(<<Opt(Letter({"a"}))>> \o Position \o Repeat(4, Opt(Number)) \o Magnetic)
Rmb == Layout(13..14,
              <<Opt(Status), Opt(Number), Opt(Side), Opt(Waypoint), Opt(Waypoint)>> \o Position
              \o <<Opt(Number), Opt(Number), Opt(Number), Opt(Status),
                   Opt(ModeIndicator)>>)
Rmc == Layout(11..12,
              <<Opt(Time), Opt(Letter({"a"}))>> \o Position
              \o <<Opt(Number), Opt(Number), Opt(Date)>> \o Magnetic
              \o <<Opt(ModeIndicator)>>)
Rot == Fixed(<<Opt(Number), Opt(Status)>>)
Rpm == Fixed(<<Opt(Mapped({"S", "E"}, Refuse)), With(1, Opt(Number)),
               Opt(Number), Opt(Number), Opt(Status)>>)
Rsa == Fixed(<<Opt(Number), With(1, Args({"A"}, Opt(Status))),
               Opt(Number), With(1, Args({"A"}, Opt(Status)))>>)
Rsd == LET origin == <<Member(Number, "0"), With(1, Member(Number, "0")),
                       With(2, Member(Number, "0")), With(3, Member(Number, "0"))>>
       IN  Fixed(origin \o origin
                 \o <<Member(Number, "0"), With(1, Member(Number, "0")),
                      Member(Number, "0"), With(1, Member(Letter({"V"}), "V")),
                      Member(Letter({"C"}), "C")>>)
\* waypoints: an empty one leaves an empty field, which is skipped when read
Rte ==
    [List(<<Member(Number, "1"), Member(Number, "1"), Member(Enum({"c", "w"}), "c"), Opt(Text)>>,
          <<Opt(Waypoint)>>, 4..(4 + MaxEntries))
       EXCEPT !.append = TRUE, !.calls = {0}]
\* frequencies with their modes; an empty field may give anything
UnsetLetter == Type({"a", "?"}, {"a", "?"})
Sfi ==
    [List(<<Member(Number, "0"), Member(Number, "0")>>,
          <<Member(UnsetNumber, ""), With(1, Member(UnsetLetter, ""))>>,
          {2 + 2 * n : n \in 0..MaxEntries})
       EXCEPT !.calls = 0..MaxEntries]
\* the bytes of a SeaTalk datagram
Stalk ==
    [List(<<>>, <<Member(Mapped({"0", "1"}, Refuse), "")>>, 1..MaxEntries)
       EXCEPT !.calls = 1..MaxEntries, !.least = 1]
Stn == Fixed(<<Member(Number, "0")>>)
Tds == Fixed(<<Member(Number, "0"), UnitAlways("M")>>)
Tep == Fixed(<<Member(Number, "0"), UnitAlways("D")>>)
Tfi == Fixed(Repeat(3, Member(Mapped({"0", "1", "2"}, "0"), "2")))
Tll == Fixed(<<Member(Number, "0")>> \o PositionMember
             \o <<Member(Text, ""), Member(Time, "0"), Member(TargetStatus, "T"),
                  Opt(Letter({"a"}))>>)
Tpc == Fixed(<<Member(Number, "0"), UnitAlways("M"), Member(Number, "0"),
               UnitAlways("M"), Member(Number, "0"), UnitAlways("M")>>)
Tpr == Fixed(<<Member(Number, "0"), UnitAlways("M"), Member(Number, "0"),
               Unread("P"), Member(Number, "0"), UnitAlways("M")>>)
Tpt == Fixed(<<Member(Number, "0"), UnitAlways("M"), Member(Number, "0"),
               Unread("P"), Member(Number, "0"), UnitAlways("M")>>)
\* fields 14 and 15 are allowed and not supported
Ttm == Layout(13..15,
              <<Opt(Number), Opt(Number), Opt(Number), With(1, Opt(Reference)),
                Opt(Number), Opt(Number), With(1, Opt(Reference)), Opt(Number),
                Opt(Number), Opt(Letter({"a"})), Opt(Text), Opt(Letter({"a"})),
                Opt(Letter({"a"}))>>)

Vbw == LET speed == <<Opt(Number), With(1, Opt(Number)), With(2, Opt(Status))>>
       IN  Fixed(speed \o speed)
Vdm == Fixed(<<Member(Number, "0"), Member(Number, "0"), Opt(Number), Opt(Channel),
               Member(Text, ""), With(1, Member(Number, "0"))>>)
Vdo == Vdm
\* the references are not checked after reading
Vdr == Fixed(<<Opt(Number), UnitBare("T", {"T", "M", "R"}), Opt(Number),
               UnitBare("M", {"T", "M", "R"}), Opt(Number), UnitBare("N", {"N"})>>)
Vhw == Fixed(<<Opt(Number), Unit("T"), Opt(Number), Unit("M"),
               Opt(Number), Unit("N"), Opt(Number), Unit("K")>>)
Vlw == Fixed(<<Opt(Number), Unit("N"), Opt(Number), Unit("N")>>)
Vpw == Fixed(<<Opt(Number), UnitBare("N", {"N"}), Opt(Number), UnitBare("M", {"M"})>>)
Vtg == Layout(8..9,
              <<Opt(Number), Unit("T"), Opt(Number), Unit("M"), Opt(Number),
                Unit("N"), Opt(Number), Unit("K"), Opt(ModeIndicator)>>)
Vwe == Fixed(<<Member(Number, "0")>>)
Vwr == Fixed(<<Opt(Number), With(1, Opt(Side)), Opt(Number), Unit("N"),
               Opt(Number), Unit("M"), Opt(Number), Unit("K")>>)

Wcv == Fixed(<<Opt(Number), Unit("N"), Opt(Waypoint)>>)
Wdc == Fixed(<<Member(Number, "0"), UnitAlways("N"), Member(Text, "")>>)
Wdr == Fixed(<<Member(Number, "0"), UnitAlways("N"), Member(Text, "")>>)
Wnc == Fixed(<<Opt(Number), Unit("N"), Opt(Number), Unit("K"), Opt(Waypoint), Opt(Waypoint)>>)
Wpl == Fixed(Position \o <<Opt(Waypoint)>>)
Xte == Layout(5..6,
              <<Opt(Status), Opt(Status), Opt(Number), Opt(Side),
                With(2, Args({"N"}, Opt(Distance))), Opt(ModeIndicator)>>)
Xtr == Fixed(<<Opt(Number), Opt(Side), With(2, Args({"N"}, Opt(Distance)))>>)
\* transducers, at any place; an empty field may give anything
Xdr ==
    List(<<>>,
         <<Member(UnsetLetter, ""), With(1, Member(UnsetNumber, "")),
           With(2, Member(UnsetLetter, "")), With(3, Member(Text, ""))>>,
         {4 * n : n \in 1..MaxEntries})

\* day, month and year make one member, which is unset if one of them is
Zda == Fixed(<<Opt(Time), Joint(0, Opt(Type({"1"}, {Refuse}))),
               Joint(1, Opt(Type({"1"}, {Refuse}))),
               Joint(2, Opt(Type({"15", "2015"}, {Refuse}))),
               Opt(Number), With(1, Opt(Number))>>)
Zdl == Fixed(<<Member(Duration, "0"), Member(Number, "0"), Member(PointType, "R")>>)
Zfi == Fixed(<<Member(Time, "0"), Member(Duration, "0"), Member(Text, "")>>)
Zfo == Fixed(<<Opt(Time), Opt(Duration), Opt(Waypoint)>>)
Zlz == Fixed(<<Member(Time, "0"), Member(Time, "0"), Member(Number, "0")>>)
Zpi == Fixed(<<Member(Time, "0"), Member(Time, "0"), Member(Text, "")>>)
Zta == Fixed(<<Member(Time, "0"), Member(Time, "0"), Member(Text, "")>>)
Zte == Fixed(<<Member(Time, "0"), Member(Duration, "0"), Member(Text, "")>>)
Ztg == Fixed(<<Opt(Time), Opt(Time), Opt(Waypoint)>>)
=============================================================================
