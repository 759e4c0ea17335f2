---------------------------- MODULE AisContents -----------------------------
(***************************************************************************)
(* The values of the AIS messages and what their setters and getters make  *)
(* of them.  A value is kept as raw numbers, one or, of a position, two,   *)
(* each of which has bits in the message; missing are the numbers which    *)
(* mean that it is not available, gives is what the getter returns then.   *)
(* The application counts in steps of the message (tenths of a knot, of a  *)
(* meter, of a degree Celsius ...), angles in 1e-6 degrees; a text is its  *)
(* number of characters.  The values that nothing is done to are those of  *)
(* AisNumbers.                                                             *)
(***************************************************************************)
EXTENDS Integers, Sequences

NoLimit == 2^30
Nothing == <<>>

Value(name, kind, bits, missing) ==
  [name |-> name, kind |-> kind, bits |-> bits, missing |-> missing, gives |-> Nothing,
   read |-> 0,        \* what the getter adds,
   write |-> 0,       \* and the setter
   most |-> NoLimit,  \* the setter takes this for what is more,
   valid |-> NoLimit, \* or this for not available
   per |-> 0,         \* steps of an angle: six in that many units
   new |-> 0,         \* what a new object has if nothing is missing
   into |-> name,     \* the member which the setter assigns,
   checked |-> name]  \* and which the getter compares with missing

\* A number, of a type without a sign.
Number(name, bits, missing) == Value(name, "number", <<bits>>, <<missing>>)

\* A number that is converted from double.
Real(name, bits, missing) == Value(name, "double", <<bits>>, <<missing>>)

\* A quantity with a unit; its setter throws if it is negative.
Quantity(name, bits, missing, most) ==
  [Value(name, "unit", <<bits>>, missing) EXCEPT !.most = most]

Text(name, characters) ==
  [Value(name, "text", <<characters>>, <<>>) EXCEPT !.most = characters]

\* A text whose getter does not take off the @ it is filled up with on the way.
Padded(name, characters) == [Text(name, characters) EXCEPT !.kind = "padded"]

Offset(value, read, write) == [value EXCEPT !.read = read, !.write = write]
Valid(value, most) == [value EXCEPT !.valid = most]
Gives(value, what) == [value EXCEPT !.gives = what]

\* Angles: the message has steps of 1/10000, 1/1000 or 1/10 of a minute.
I4 == 10
I3 == 100
I1 == 10000
Angle(name, per, bits, missing) == [Value(name, "angle", bits, missing) EXCEPT !.per = per]

\* What is not available comes out of these getters as 0 degrees: they return an
\* optional that holds a new object.
Longitude == Gives(Angle("longitude", I4, <<28>>, <<108600000>>), <<0>>)
Latitude == Gives(Angle("latitude", I4, <<27>>, <<54600000>>), <<0>>)
ShortLongitude == Gives(Angle("longitude", I1, <<18>>, <<108600>>), <<0>>)
ShortLatitude == Gives(Angle("latitude", I1, <<17>>, <<54600>>), <<0>>)
Corner(name) == Gives(Angle(name, I1, <<17, 18>>, <<54600, 108600>>), <<0, 0>>)
Position == Angle("position", I3, <<24, 25>>, <<8388607, 16777215>>)

Speed(name) == Quantity(name, 10, <<1023>>, 1022)

Dimension ==
  <<Quantity("to_bow", 9, <<>>, NoLimit), Quantity("to_stern", 9, <<>>, NoLimit),
    Quantity("to_port", 6, <<>>, NoLimit), Quantity("to_starboard", 6, <<>>, NoLimit)>>

-----------------------------------------------------------------------------
\* Position report class A.  The rate of turn knows itself that it is missing.
Contents01 ==
  <<Longitude, Latitude, Speed("sog"), Real("cog", 12, 3600), Number("hdg", 9, 511),
    Value("rot", "turn", <<8>>, <<>>)>>

\* Base station report.
Contents04 == <<Longitude, Latitude>>

\* Static and voyage related data.
Contents05 ==
  Dimension \o <<Text("callsign", 7), Text("shipname", 20), Text("destination", 20),
                 Value("draught", "ceiling", <<8>>, <<>>)>>

\* SAR aircraft position report; get_altitude looks at the speed.
Contents09 ==
  <<Longitude, Latitude, Speed("speed"),
    [Quantity("altitude", 12, <<4095>>, 4094) EXCEPT !.checked = "speed"]>>

\* DGNSS broadcast binary message.
Contents17 == <<ShortLongitude, ShortLatitude>>

\* Class B position report.
Contents18 ==
  <<Longitude, Latitude, Speed("sog"), Real("cog", 12, 3600), Number("hdg", 9, 511)>>

\* Extended class B position report.
Contents19 == Dimension \o <<Longitude, Latitude, Padded("shipname", 20), Speed("sog")>>

\* Aid to navigation report.
Contents21 ==
  Dimension \o <<Text("name", 20), Text("name_extension", 14), Longitude, Latitude>>

\* Channel management to an area, and group assignment command.
Contents22 == <<Corner("position_ne"), Corner("position_sw")>>
Contents23 == <<Corner("position_ne"), Corner("position_sw")>>

\* Static data report, parts A and B; set_vendor_id assigns the callsign.
Contents24A == <<Text("shipname", 20)>>
Contents24B ==
  Dimension \o <<[Text("vendor_id", 3) EXCEPT !.into = "callsign"], Text("callsign", 7)>>

\* Meteorological and hydrological data: what the getters and setters convert.
Weather ==
  <<Position, Valid(Number("day", 5, 31), 30), Valid(Number("hour", 5, 31), 23),
    Valid(Number("minute", 6, 63), 59), Offset(Real("temperature", 11, 2047), -600, 60),
    Offset(Real("dew_point", 10, 1023), -200, 20), Offset(Number("pressure", 9, 511), 800, -800),
    Offset(Real("water_level", 9, 511), -100, 10),
    Offset(Real("water_temperature", 10, 1023), -100, 10)>>

\* The other numbers, whose getters and setters only know the missing ones, and
\* those in tenths.
WeatherNumbers ==
  <<Number("wind_speed_avg", 7, 127), Number("wind_gust", 7, 127),
    Number("wind_direction", 9, 511), Number("wind_gust_direction", 9, 511),
    Number("humidity", 7, 127), Number("pressure_trend", 2, 3),
    Number("water_level_trend", 2, 3), Number("surface_current_direction", 9, 511),
    Number("current_2_direction", 9, 511), Number("current_2_depth", 5, 31),
    Number("current_3_direction", 9, 511), Number("current_3_depth", 5, 31),
    Number("wave_period", 6, 63), Number("wave_direction", 9, 511),
    Number("swell_period", 6, 63), Number("swell_direction", 9, 511),
    Number("sea_state", 4, 15), Number("precipitation", 3, 7), Number("ice", 2, 3)>>
WeatherTenths ==
  <<Real("visibility", 8, 255), Real("surface_current_speed", 8, 255),
    Real("current_2_speed", 8, 255), Real("current_3_speed", 8, 255),
    Real("wave_height", 8, 255), Real("swell_height", 8, 255), Real("salinity", 9, 511)>>

\* Inland ship static and voyage related data; the draught in hundredths.
Contents20010 ==
  <<Text("vessel_id", 8), [Value("length", "double", <<13>>, <<>>) EXCEPT !.most = 8000],
    [Value("beam", "double", <<10>>, <<>>) EXCEPT !.most = 1000],
    [Value("draught", "double", <<11>>, <<>>) EXCEPT !.most = 200]>>
=============================================================================
