----------------------------- MODULE AisNumbers -----------------------------
(***************************************************************************)
(* The values of the AIS messages that setters and getters pass on as they *)
(* are: numbers, flags, enumerators and identities of stations; all values *)
(* of a message together.  What a program sets need not fit into the bits. *)
(* The optional destinations of message_07 and the reservations of         *)
(* message_20 are in AisMessages.                                          *)
(***************************************************************************)
EXTENDS AisContents

Plain(name, bits, new) == [Value(name, "plain", <<bits>>, <<>>) EXCEPT !.new = new]

\* an enumerator, up to the last one
Choice(name, bits, last, new) == [Plain(name, bits, new) EXCEPT !.kind = "choice", !.most = last]
Flag(name, new) == Choice(name, 1, 1, new)

\* the setter throws if the number is too much
Checked(name, bits, most) == [Plain(name, bits, 0) EXCEPT !.kind = "checked", !.most = most]

\* the identity of a station
Station(name) == [Plain(name, 30, 0) EXCEPT !.kind = "mmsi"]

\* a value without a setter
NoSetter == ""
Unset(value) == [value EXCEPT !.into = NoSetter]

Header == <<Plain("repeat_indicator", 2, 0), Station("mmsi")>>
Epfd == Choice("epfd_fix", 4, 8, 0)
ShipType == Choice("shiptype", 8, 99, 0)
Accuracy == Flag("position_accuracy", 0)
Raim == Flag("raim", 0)
Terminal == Flag("dte", 1)
Assigned == Flag("assigned", 0)
Timestamp == Plain("timestamp", 6, 60)

Numbers01 ==
  <<Choice("nav_status", 4, 15, 15), Accuracy, Timestamp, Choice("maneuver_indicator", 2, 2, 0),
    Raim, Plain("radio_status", 19, 0)>>
Numbers04 ==
  <<Plain("year", 14, 0), Plain("month", 4, 0), Plain("day", 5, 0), Plain("hour", 5, 24),
    Plain("minute", 6, 60), Plain("second", 6, 60), Accuracy, Epfd, Raim,
    Plain("radio_status", 19, 0)>>
Numbers05 ==
  <<Plain("ais_version", 2, 0), Plain("imo_number", 30, 0), ShipType, Epfd,
    Plain("eta_month", 4, 0), Plain("eta_day", 5, 0), Plain("eta_hour", 5, 24),
    Plain("eta_minute", 6, 60), Terminal>>
Numbers06 ==
  <<Plain("sequence_no", 2, 0), Station("dest_mmsi"), Flag("retransmit_flag", 0),
    Plain("dac", 10, 0), Plain("fid", 6, 0)>>
Numbers07 == <<Station("mmsi_1")>>
Numbers08 == <<Plain("dac", 10, 0), Plain("fid", 6, 0)>>
Numbers09 ==
  <<Accuracy, Plain("course", 12, 3600), Plain("utc_second", 6, 60), Terminal, Assigned, Raim,
    Plain("radio_status", 20, 0)>>

\* set_dest_mmsi assigns the identity of the sender
Numbers10 == <<[Station("dest_mmsi") EXCEPT !.into = "mmsi"]>>
Numbers12 == <<Checked("seqno", 2, 3), Station("dest_mmsi"), Flag("retransmit", 0)>>
Numbers18 ==
  <<Accuracy, Timestamp, Flag("cs_unit", 0), Flag("display_flag", 0), Flag("dsc_flag", 0),
    Flag("band_flag", 0), Flag("message_22_flag", 0), Assigned, Raim,
    Plain("radio_status", 20, 0)>>
Numbers19 ==
  <<Accuracy, Plain("cog", 12, 3600), Plain("hdg", 9, 511), Timestamp, ShipType, Epfd, Raim,
    Terminal, Assigned>>
Numbers21 ==
  <<Choice("aid_type", 5, 31, 0), Accuracy, Epfd, Plain("utc_second", 6, 0),
    Flag("off_position", 1), Plain("regional", 8, 0), Raim, Flag("virtual_aid_flag", 1), Assigned>>

\* Behind the position of a message to an area nothing arrives but addressed.
Numbers22 ==
  <<Plain("channel_a", 12, 0), Plain("channel_b", 12, 0), Plain("txrx_mode", 4, 0),
    Plain("power", 1, 0)>>
Numbers22Addressed ==
  Numbers22 \o <<Flag("band_a", 0), Flag("band_b", 0), Plain("zone_size", 3, 0),
                 Station("mmsi_1"), Station("mmsi_2")>>
Numbers23 ==
  <<Plain("station_type", 4, 0), Unset(ShipType), Plain("txrx_mode", 2, 0),
    Choice("interval", 4, 10, 0), Plain("quiet_time", 4, 0)>>
Numbers24B == <<ShipType, Plain("model", 4, 0), Plain("serial", 20, 0), Station("mothership_mmsi")>>
NumbersInland ==
  <<Plain("shiptype", 14, 8000), Plain("hazard", 3, 5), Choice("loaded", 2, 2, 0),
    Flag("speed_q", 0), Flag("course_q", 0), Flag("heading_q", 0)>>

-----------------------------------------------------------------------------
\* message_02 and message_03 are as message_01, message_11 as message_04, message_13
\* as message_07; part B and an addressed message_22 are types of their own.
Contents ==
  [message_01 |-> Header \o Contents01 \o Numbers01,
   message_04 |-> Header \o Contents04 \o Numbers04,
   message_05 |-> Header \o Contents05 \o Numbers05,
   message_06 |-> Header \o Numbers06,
   message_07 |-> Header \o Numbers07,
   message_08 |-> Header \o Numbers08,
   message_09 |-> Header \o Contents09 \o Numbers09,
   message_10 |-> Header \o Numbers10,
   message_12 |-> Header \o Numbers12,
   message_14 |-> Header,
   message_17 |-> Header \o Contents17,
   message_18 |-> Header \o Contents18 \o Numbers18,
   message_19 |-> Header \o Contents19 \o Numbers19,
   message_21 |-> Header \o Contents21 \o Numbers21,
   message_22 |-> Header \o Contents22 \o Numbers22,
   message_22_addressed |-> Header \o Numbers22Addressed,
   message_23 |-> Header \o Contents23 \o Numbers23,
   message_24_A |-> Header \o Contents24A,
   message_24_B |-> Header \o Contents24B \o Numbers24B,
   binary_001_11 |-> Weather \o WeatherNumbers \o WeatherTenths,
   binary_200_10 |-> Contents20010 \o NumbersInland]
=============================================================================
