----------------------------- MODULE AisLayouts -----------------------------
(***************************************************************************)
(* Where the AIS messages have their fields.  head are the bits get_data   *)
(* begins with, sizes those the constructor accepts, max the largest one;  *)
(* the fields are in the order in which get_data writes and the            *)
(* constructor reads them.  A part is a group of fields that is not always *)
(* written or read.                                                        *)
(***************************************************************************)
EXTENDS Integers, Sequences

Field(name, ofs, bits) ==
  [name |-> name, ofs |-> ofs, bits |-> bits, unit |-> bits, part |-> "always"]

\* A text of sixbits characters, written and read one by one.
Text(name, ofs, sixbits) ==
  [name |-> name, ofs |-> ofs, bits |-> 6 * sixbits, unit |-> 6, part |-> "always"]

Part(part, fields) == [i \in DOMAIN fields |-> [fields[i] EXCEPT !.part = part]]

\* Every message begins with these; get_data writes the type, make_message
\* reads it.
Header == <<Field("type", 0, 6), Field("repeat_indicator", 6, 2), Field("mmsi", 8, 30)>>

\* Position report class A; also message_02 and message_03.
Message01 ==
  [head |-> 168, sizes |-> 168..168, max |-> 168, tail |-> "none",
   fields |-> Header \o <<Field("nav_status", 38, 4), Field("rot", 42, 8), Field("sog", 50, 10),
                          Field("position_accuracy", 60, 1), Field("longitude_minutes", 61, 28),
                          Field("latitude_minutes", 89, 27), Field("cog", 116, 12),
                          Field("hdg", 128, 9), Field("timestamp", 137, 6),
                          Field("maneuver_indicator", 143, 2), Field("raim", 148, 1),
                          Field("radio_status", 149, 19)>>]

\* Base station report; also message_11.
Message04 ==
  [head |-> 168, sizes |-> 168..168, max |-> 168, tail |-> "none",
   fields |-> Header \o <<Field("year", 38, 14), Field("month", 52, 4), Field("day", 56, 5),
                          Field("hour", 61, 5), Field("minute", 66, 6), Field("second", 72, 6),
                          Field("position_accuracy", 78, 1), Field("longitude_minutes", 79, 28),
                          Field("latitude_minutes", 107, 27), Field("epfd_fix", 134, 4),
                          Field("raim", 148, 1), Field("radio_status", 149, 19)>>]

\* Static and voyage related data.
Message05 ==
  [head |-> 424, sizes |-> 422..424, max |-> 424, tail |-> "none",
   fields |-> Header \o <<Field("ais_version", 38, 2), Field("imo_number", 40, 30),
                          Text("callsign", 70, 7), Text("shipname", 112, 20),
                          Field("shiptype", 232, 8), Field("to_bow", 240, 9),
                          Field("to_stern", 249, 9), Field("to_port", 258, 6),
                          Field("to_starboard", 264, 6), Field("epfd_fix", 270, 4),
                          Field("eta_month", 274, 4), Field("eta_day", 278, 5),
                          Field("eta_hour", 283, 5), Field("eta_minute", 288, 6),
                          Field("draught", 294, 8), Text("destination", 302, 20)>>
     \o Part("dte", <<Field("dte", 422, 1)>>)]

\* Binary addressed message.
Message06 ==
  [head |-> 88, sizes |-> 88..1008, max |-> 1008, tail |-> "payload",
   fields |-> Header \o <<Field("sequence_no", 38, 2), Field("dest_mmsi", 40, 30),
                          Field("retransmit_flag", 70, 1), Field("dac", 72, 10),
                          Field("fid", 82, 6)>>]

\* Binary acknowledge: up to four destinations.
Message07 ==
  [head |-> 72, sizes |-> 72..168, max |-> 168, tail |-> "none",
   fields |-> Header \o <<Field("mmsi_1", 40, 30), Field("mmsi_seq_1", 70, 2)>>
     \o Part("mmsi_2", <<Field("mmsi_2", 72, 30), Field("mmsi_seq_2", 102, 2)>>)
     \o Part("mmsi_3", <<Field("mmsi_3", 104, 30), Field("mmsi_seq_3", 134, 2)>>)
     \o Part("mmsi_4", <<Field("mmsi_4", 136, 30), Field("mmsi_seq_4", 166, 2)>>)]

\* Binary broadcast message.
Message08 ==
  [head |-> 56, sizes |-> 56..1008, max |-> 1008, tail |-> "payload",
   fields |-> Header \o <<Field("dac", 40, 10), Field("fid", 50, 6)>>]

\* SAR aircraft position report.
Message09 ==
  [head |-> 168, sizes |-> 168..168, max |-> 168, tail |-> "none",
   fields |-> Header \o <<Field("altitude", 38, 12), Field("speed", 50, 10),
                          Field("position_accuracy", 60, 1), Field("longitude_minutes", 61, 28),
                          Field("latitude_minutes", 89, 27), Field("course", 116, 12),
                          Field("utc_second", 128, 6), Field("reserved", 134, 8),
                          Field("dte", 142, 1), Field("assigned", 146, 1), Field("raim", 147, 1),
                          Field("radio_status", 148, 20)>>]

\* UTC and date inquiry.
Message10 ==
  [head |-> 72, sizes |-> 72..72, max |-> 72, tail |-> "none",
   fields |-> Header \o <<Field("dest_mmsi", 40, 30)>>]

\* Addressed safety related message.
Message12 ==
  [head |-> 72, sizes |-> 72..1008, max |-> 1008, tail |-> "text",
   fields |-> Header \o <<Field("seqno", 38, 2), Field("dest_mmsi", 40, 30),
                          Field("retransmit", 70, 1)>>]

\* Safety related broadcast message.
Message14 ==
  [head |-> 40, sizes |-> 40..1008, max |-> 1008, tail |-> "text",
   fields |-> Header]

\* DGNSS broadcast binary message.
Message17 ==
  [head |-> 80, sizes |-> 80..816, max |-> 816, tail |-> "payload",
   fields |-> Header \o <<Field("longitude_minutes", 40, 18), Field("latitude_minutes", 58, 17)>>]

\* Class B position report.
Message18 ==
  [head |-> 168, sizes |-> 168..168, max |-> 168, tail |-> "none",
   fields |-> Header \o <<Field("sog", 46, 10), Field("position_accuracy", 56, 1),
                          Field("longitude_minutes", 57, 28), Field("latitude_minutes", 85, 27),
                          Field("cog", 112, 12), Field("hdg", 124, 9), Field("timestamp", 133, 6),
                          Field("cs_unit", 141, 1), Field("display_flag", 142, 1),
                          Field("dsc_flag", 143, 1), Field("band_flag", 144, 1),
                          Field("message_22_flag", 145, 1), Field("assigned", 146, 1),
                          Field("raim", 147, 1), Field("radio_status", 148, 20)>>]

\* Extended class B position report.
Message19 ==
  [head |-> 312, sizes |-> 312..312, max |-> 312, tail |-> "none",
   fields |-> Header \o <<Field("sog", 46, 10), Field("position_accuracy", 56, 1),
                          Field("longitude_minutes", 57, 28), Field("latitude_minutes", 85, 27),
                          Field("cog", 112, 12), Field("hdg", 124, 9), Field("timestamp", 133, 6),
                          Text("shipname", 143, 20), Field("shiptype", 263, 8),
                          Field("to_bow", 271, 9), Field("to_stern", 280, 9),
                          Field("to_port", 289, 6), Field("to_starboard", 295, 6),
                          Field("epfd_fix", 301, 4), Field("raim", 305, 1), Field("dte", 306, 1),
                          Field("assigned", 307, 1)>>]

\* Data link management: up to four reservations.
Message20 ==
  [head |-> 70, sizes |-> 70..160, max |-> 160, tail |-> "none",
   fields |-> Header \o <<Field("offset_number_1", 40, 12), Field("reserved_slots_1", 52, 4),
                          Field("timeout_1", 56, 3), Field("increment_1", 59, 11)>>
     \o Part("offset_number_2", <<Field("offset_number_2", 70, 12),
                                  Field("reserved_slots_2", 82, 4), Field("timeout_2", 86, 3),
                                  Field("increment_2", 89, 11)>>)
     \o Part("offset_number_3", <<Field("offset_number_3", 100, 12),
                                  Field("reserved_slots_3", 112, 4), Field("timeout_3", 116, 3),
                                  Field("increment_3", 119, 11)>>)
     \o Part("offset_number_4", <<Field("offset_number_4", 130, 12),
                                  Field("reserved_slots_4", 142, 4), Field("timeout_4", 146, 3),
                                  Field("increment_4", 149, 11)>>)]

\* Aid to navigation report.
Message21 ==
  [head |-> 272, sizes |-> 272..360, max |-> 360, tail |-> "text",
   fields |-> Header \o <<Field("aid_type", 38, 5), Text("name", 43, 20),
                          Field("position_accuracy", 163, 1), Field("longitude_minutes", 164, 28),
                          Field("latitude_minutes", 192, 27), Field("to_bow", 219, 9),
                          Field("to_stern", 228, 9), Field("to_port", 237, 6),
                          Field("to_starboard", 243, 6), Field("epfd_fix", 249, 4),
                          Field("utc_second", 253, 6), Field("off_position", 259, 1),
                          Field("regional", 260, 8), Field("raim", 268, 1),
                          Field("virtual_aid_flag", 269, 1), Field("assigned", 270, 1)>>]

\* Channel management, to an area or to two stations.
Message22 ==
  [head |-> 168, sizes |-> 168..168, max |-> 168, tail |-> "none",
   fields |-> Header \o <<Field("channel_a", 40, 12), Field("channel_b", 52, 12),
                          Field("txrx_mode", 64, 4), Field("power", 68, 1),
                          Field("addressed", 139, 1), Field("band_a", 140, 1),
                          Field("band_b", 141, 1), Field("zone_size", 142, 3)>>
     \o Part("broadcast", <<Field("ne_lon", 69, 18), Field("ne_lat", 87, 17),
                            Field("sw_lon", 104, 18), Field("sw_lat", 122, 17)>>)
     \o Part("addressed", <<Field("mmsi_1", 69, 30), Field("mmsi_2", 104, 30)>>)]

\* Group assignment command.
Message23 ==
  [head |-> 160, sizes |-> 160..160, max |-> 160, tail |-> "none",
   fields |-> Header \o <<Field("ne_lon", 40, 18), Field("ne_lat", 58, 17),
                          Field("sw_lon", 75, 18), Field("sw_lat", 93, 17),
                          Field("station_type", 110, 4), Field("shiptype", 114, 8),
                          Field("txrx_mode", 144, 2), Field("interval", 146, 4),
                          Field("quiet_time", 150, 4)>>]

\* Static data report, part A or part B.
Message24 ==
  [head |-> 168, sizes |-> {160, 168}, max |-> 168, tail |-> "none",
   fields |-> Header \o <<Field("part_number", 38, 2)>>
     \o Part("A", <<Text("shipname", 40, 20)>>)
     \o Part("B", <<Field("shiptype", 40, 8), Text("vendor_id", 48, 3), Field("model", 66, 4),
                    Field("serial", 70, 20), Text("callsign", 90, 7)>>)
     \o Part("dimension", <<Field("to_bow", 132, 9), Field("to_stern", 141, 9),
                            Field("to_port", 150, 6), Field("to_starboard", 156, 6)>>)
     \o Part("mothership", <<Field("mothership_mmsi", 132, 30)>>)]

\* Meteorological and hydrological data, in a message_08.
Binary00111 ==
  [head |-> 296, sizes |-> 296..296, max |-> 296, tail |-> "none",
   fields |-> <<Field("lat", 0, 24), Field("lon", 24, 25), Field("day", 49, 5),
                Field("hour", 54, 5), Field("minute", 59, 6), Field("wind_speed_avg", 65, 7),
                Field("wind_gust", 72, 7), Field("wind_direction", 79, 9),
                Field("wind_gust_direction", 88, 9), Field("temperature", 97, 11),
                Field("humidity", 108, 7), Field("dew_point", 115, 10),
                Field("pressure", 125, 9), Field("pressure_trend", 134, 2),
                Field("visibility", 136, 8), Field("water_level", 144, 9),
                Field("water_level_trend", 153, 2), Field("surface_current_speed", 155, 8),
                Field("surface_current_direction", 163, 9), Field("current_2_speed", 172, 8),
                Field("current_2_direction", 180, 9), Field("current_2_depth", 189, 5),
                Field("current_3_speed", 194, 8), Field("current_3_direction", 202, 9),
                Field("current_3_depth", 211, 5), Field("wave_height", 216, 8),
                Field("wave_period", 224, 6), Field("wave_direction", 230, 9),
                Field("swell_height", 239, 8), Field("swell_period", 247, 6),
                Field("swell_direction", 253, 9), Field("sea_state", 262, 4),
                Field("water_temperature", 266, 10), Field("precipitation_type", 276, 3),
                Field("sailinity", 279, 9), Field("ice_info", 288, 2)>>]

\* Inland ship static and voyage related data, in a message_08.
Binary20010 ==
  [head |-> 112, sizes |-> 112..112, max |-> 112, tail |-> "none",
   fields |-> <<Text("vessel_id", 0, 8), Field("length", 48, 13), Field("beam", 61, 10),
                Field("shiptype", 71, 14), Field("hazard", 85, 3), Field("draught", 88, 11),
                Field("loaded", 99, 2), Field("speed_q", 101, 1), Field("course_q", 102, 1),
                Field("heading_q", 103, 1)>>]

\* The messages make_message knows, and the binary data of a message_08.
Layout ==
  [message_01 |-> Message01, message_02 |-> Message01, message_03 |-> Message01,
   message_04 |-> Message04, message_05 |-> Message05, message_06 |-> Message06,
   message_07 |-> Message07, message_08 |-> Message08, message_09 |-> Message09,
   message_10 |-> Message10, message_11 |-> Message04, message_12 |-> Message12,
   message_13 |-> Message07, message_14 |-> Message14, message_17 |-> Message17,
   message_18 |-> Message18, message_19 |-> Message19, message_20 |-> Message20,
   message_21 |-> Message21, message_22 |-> Message22, message_23 |-> Message23,
   message_24 |-> Message24, binary_001_11 |-> Binary00111, binary_200_10 |-> Binary20010]
=============================================================================
