--------------------------- MODULE SeatalkLayouts ---------------------------
(***************************************************************************)
(* Where the SeaTalk messages have their values.  A datagram is a sequence *)
(* of bytes; bytes are counted from 0, as in the source.  A member is read *)
(* from some pieces of bytes, most significant first, and written to some, *)
(* which need not be the same; kind says what else happens to it on the    *)
(* way, width how many bits the member has, most the largest value the     *)
(* datagram has room for.  constants are the bytes that are not zero       *)
(* before the members are written, required those parse insists on.        *)
(***************************************************************************)
EXTENDS Integers, Sequences

Piece(byte, low, bits) == [byte |-> byte, low |-> low, bits |-> bits]
ByteAt(i) == Piece(i, 0, 8)
Low(i) == Piece(i, 0, 4)
High(i) == Piece(i, 4, 4)
Word(high, low) == <<ByteAt(high), ByteAt(low)>>

Member(name, kind, width, most, reads, writes) ==
  [name |-> name, kind |-> kind, width |-> width, most |-> most,
   reads |-> reads, writes |-> writes]

\* A number that is written where it is read.
Number(name, width, most, pieces) == Member(name, "plain", width, most, pieces, pieces)

\* A bool, or a bit of a member that has several.
Flag(name, byte, bit) == Number(name, 1, 1, <<Piece(byte, bit, 1)>>)

\* The identifier comes first, then the attribute with the size, less 3.
Datagram(id, size, attribute, members) ==
  [id |-> id, size |-> size, constants |-> [i \in 0..(size - 1) |->
     IF i = 0 THEN id ELSE IF i = 1 THEN attribute ELSE 0],
   required |-> {}, members |-> members]

\* A layout with another constant.
WithByte(layout, i, value) == [layout EXCEPT !.constants[i] = value]

-----------------------------------------------------------------------------
\* Depth below transducer.
Message00 ==
  Datagram(0, 5, 2,
    <<Flag("anchor_alarm_active", 2, 7), Flag("metric_display_units", 2, 6),
      Flag("transducer_defective", 2, 2), Flag("depth_alarm_active", 2, 1),
      Flag("shallow_depth_alarm_active", 2, 0), Number("depth", 16, 65535, Word(4, 3))>>)

\* Equipment identification, first and second: six bytes.
EquipmentId(id) ==
  LET names == <<"id0", "id1", "id2", "id3", "id4", "id5">>
  IN Datagram(id, 8, 5, [i \in 1..6 |-> Number(names[i], 8, 255, <<ByteAt(i + 1)>>)])
Message01 == EquipmentId(1)
Message6c == EquipmentId(108)

\* Engine speed and pitch.  What is neither starboard nor port is undefined.
Message05 ==
  Datagram(5, 6, 3,
    <<Member("side", "side", 2, 2, <<Low(2)>>, <<ByteAt(2)>>),
      Member("rpm", "signed", 16, 32767, Word(3, 4), Word(3, 4)),
      Member("percent_pitch", "signed", 8, 127, <<ByteAt(5)>>, <<ByteAt(5)>>)>>)

\* Apparent wind angle, in tenths of a degree; on the line in halves, the more
\* significant byte first: get_data writes neither.
Message10 ==
  Datagram(16, 4, 1, <<Member("angle", "halves", 16, 3600, Word(2, 3), Word(3, 2))>>)

\* Apparent wind speed, in tenths; on the line the whole and the tenths apart:
\* get_data takes the bytes of the number for them.
Message11 ==
  LET pieces == <<Piece(2, 0, 7), Low(3)>>
  IN Datagram(17, 4, 1, <<Member("speed", "tenths", 16, 1279, pieces, pieces), Flag("unit", 2, 7)>>)

\* Speed through water, and over ground.
Message20 == Datagram(32, 4, 1, <<Number("speed", 16, 65535, Word(2, 3))>>)
Message52 == Datagram(82, 4, 1, <<Number("sog", 16, 65535, Word(2, 3))>>)

\* Trip and total mileage.
Message21 == Datagram(33, 5, 2, <<Number("distance", 32, 1048575, Word(2, 3) \o <<Low(4)>>)>>)
Message22 == Datagram(34, 5, 2, <<Number("distance", 32, 65535, Word(2, 3))>>)

\* Water temperature.
Message23 ==
  Datagram(35, 4, 1,
    <<Flag("sensor_defective", 1, 6), Number("temperature_celsius", 8, 255, <<ByteAt(2)>>),
      Number("temperature_fahrenheit", 8, 255, <<ByteAt(3)>>)>>)

\* Units of mileage and speed.
Message24 == Datagram(36, 5, 2, <<Number("unit", 8, 255, <<ByteAt(4)>>)>>)

\* Total and trip log; the bytes of the total are written in the other order.
Message25 ==
  Datagram(37, 7, 4,
    <<Member("total", "plain", 32, 1048575, <<High(1), ByteAt(3), ByteAt(2)>>,
                                            <<High(1), ByteAt(2), ByteAt(3)>>),
      Number("trip", 32, 1048575, <<Low(6), ByteAt(5), ByteAt(4)>>)>>)

\* Speed through water of two sensors.
Message26 ==
  Datagram(38, 7, 4,
    <<Number("speed1", 16, 65535, Word(2, 3)), Number("speed2", 16, 65535, Word(4, 5)),
      Flag("display_in_mph", 6, 1), Flag("avg_speed_calc_stopped", 6, 0),
      Flag("sensor1_valid", 6, 6), Flag("sensor2_valid", 6, 7),
      Number("status", 4, 15, <<Piece(6, 2, 4)>>)>>)

\* Water temperature, in tenths of a degree above -10.
Message27 ==
  Datagram(39, 4, 1, <<Member("temperature", "above", 32, 65435, Word(2, 3), Word(2, 3))>>)

\* Lamp intensity, and response level of an autopilot.
Message30 == Datagram(48, 3, 0, <<Number("value", 4, 15, <<Low(2)>>)>>)
Message87 == Datagram(135, 3, 0, <<Number("level", 4, 15, <<Low(2)>>)>>)

\* Cancel MOB condition.
Message36 ==
  [WithByte(Datagram(54, 3, 0, <<>>), 2, 1) EXCEPT !.required = {<<2, 1>>}]

\* Code lock data and display units, both without any.
Message38 == Datagram(56, 4, 1, <<>>)
Message65 == WithByte(Datagram(101, 3, 0, <<>>), 2, 2)

\* Latitude and longitude: degrees, hemisphere, hundredths of a minute.
Coordinate == <<ByteAt(2), Piece(3, 7, 1), Piece(3, 0, 7), ByteAt(4)>>
Message50 ==
  Datagram(80, 5, 2, <<Member("lat", "latitude", 32, 90 * 3600, Coordinate, Coordinate)>>)
Message51 ==
  Datagram(81, 5, 2, <<Member("lon", "longitude", 32, 180 * 3600, Coordinate, Coordinate)>>)

\* Magnetic course, and heading of a compass, in halves of a degree: quadrant,
\* double degrees, halves.
Course == <<Piece(1, 4, 2), Piece(2, 0, 6), Piece(1, 6, 2)>>
Message53 == Datagram(83, 3, 0, <<Member("cog", "course", 10, 719, Course, Course)>>)
Message89 ==
  WithByte(Datagram(137, 5, 2, <<Member("value", "heading", 10, 719, Course, Course)>>), 4, 32)

\* Time and date.
Message54 ==
  Datagram(84, 4, 1,
    <<Number("hour", 8, 255, <<ByteAt(3)>>), Number("minute", 8, 63, <<Piece(2, 2, 6)>>),
      Number("second", 8, 63, <<Piece(2, 0, 2), High(1)>>)>>)
Message56 ==
  Datagram(86, 4, 1,
    <<Number("year", 8, 255, <<ByteAt(3)>>), Number("month", 8, 15, <<High(1)>>),
      Number("day", 8, 255, <<ByteAt(2)>>)>>)

\* Position, in thousandths of a minute: hemisphere, degrees, minutes.
Message58 ==
  LET lat == <<Piece(1, 4, 1), ByteAt(2), ByteAt(3), ByteAt(4)>>
      lon == <<Piece(1, 5, 1), ByteAt(5), ByteAt(6), ByteAt(7)>>
  IN Datagram(88, 8, 5, <<Member("lat", "north", 32, 90 * 60000, lat, lat),
                         Member("lon", "east", 32, 180 * 60000, lon, lon)>>)

\* Countdown timer; the setter and parse take the nearest value in range.
Message59 ==
  Datagram(89, 5, 34,
    <<Member("hours", "clamped", 8, 9, <<Low(4)>>, <<Low(4)>>),
      Member("minutes", "clamped", 8, 59, <<ByteAt(3)>>, <<ByteAt(3)>>),
      Member("seconds", "clamped", 8, 59, <<ByteAt(2)>>, <<ByteAt(2)>>),
      Number("count_mode", 4, 15, <<High(4)>>)>>)

\* Wind alarm.
Message66 == Datagram(102, 3, 0, <<Number("value", 8, 255, <<ByteAt(2)>>)>>)

\* Keystroke; the key is repeated inverted.
Message86 ==
  Datagram(134, 4, 1,
    <<Number("org", 4, 15, <<High(1)>>),
      Member("key", "repeated", 8, 255, Word(2, 3), Word(2, 3))>>)

-----------------------------------------------------------------------------
Layouts ==
  {Message00, Message01, Message05, Message10, Message11, Message20, Message21, Message22,
   Message23, Message24, Message25, Message26, Message27, Message30, Message36, Message38,
   Message50, Message51, Message52, Message53, Message54, Message56, Message58, Message59,
   Message65, Message66, Message6c, Message86, Message87, Message89}

\* The register; message_23 is in it twice, message_24 is not.
KnownMessages == Layouts \ {Message24}
=============================================================================
