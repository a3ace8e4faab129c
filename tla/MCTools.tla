------------------------------- MODULE MCTools -------------------------------
(* Values of the constants of Tools for TLC: two LiDARs at the factory address *)
(* and one of another type; firmwares with and without the newer keys, one     *)
(* holding values no decoder accepts; calls of every kind.                     *)
EXTENDS Tools

CONSTANTS s1, s2, s3, ipA, ipB

Three == {[serial |-> s1, ip |-> ipA, type |-> "kMid360"],
          [serial |-> s2, ip |-> ipA, type |-> "kMid360"],
          [serial |-> s3, ip |-> ipB, type |-> "kUnknown"]}

(* Checksums a single altered byte changes; never 0 for a non-empty string. *)
RECURSIVE Sum(_, _, _)
Sum(bytes, i, j) ==
  IF i > j THEN 1 ELSE IF i = j THEN bytes[i]
  ELSE Sum(bytes, i, (i + j) \div 2) + Sum(bytes, (i + j) \div 2 + 1, j)
Sum16(bytes) == write_le(2, Sum(bytes, 1, Len(bytes)))
Sum32(bytes) == write_le(4, Sum(bytes, 1, Len(bytes)) + 1)

Window(a, b, c, d) == <<a, b, c, d, 0>>
Address(d, gw) == <<192, 168, 1, d, 255, 255, 255, 0, 192, 168, 1, gw>>

Factory ==
  [k \in Names |->
     CASE k = "kSn"            -> <<52, 55>> \o Zeros(14)
       [] k = "kProductInfo"   -> <<77, 105>> \o Zeros(62)
       [] k \in {"kPclDataType", "kWorkTgtMode", "kCurWorkState"} -> <<1>>
       [] k = "kLidarIpCfg"    -> Address(12, 1)
       [] k \in Fovs           -> encode_fov_config(Window(0, 360, -7, 52))
       [] k = "kTimeOffset"    -> write_le(-8, -3)
       [] k = "kCoreTemp"      -> write_le(-4, -100)
       [] k = "kLocalTimeNow"  -> write_le(8, 70000)
       [] k = "kLidarDiagStatus" -> <<33, 3>>
       [] OTHER                -> Zeros(key_value_length(k))]

Without(S) == [k \in Names \ S |-> Factory[k]]
Versioned == {[stored |-> f, ran |-> <<>>] :
                f \in {[Factory EXCEPT !.kImuDataEn = <<2>>, !.kTimeSyncType = <<7>>],
                       Without({"kImuSensorCfg"}), Without({"kTimeFilter", "kImuSensorCfg"})}}

Put(k, v) == [key |-> k, value |-> v]
Calls ==
  {[op |-> o] : o \in {"settings", "status", "fov", "time_sync_status", "work_state", "discovery_ack",
                       "factory_reset"}}
  \cup {[op |-> "get", keys |-> <<"kSn">>],
        [op |-> "get", keys |-> <<"kImuDataEn", "kDetectMode">>],
        [op |-> "get", keys |-> <<"kLidarDiagStatus", "kImuSensorCfg">>],
        [op |-> "reboot", timeout_ms |-> 100],
        [op |-> "set_gps_time", pps_time_ns |-> 70000],
        [op |-> "firmware_log", log_type |-> 0, enable |-> TRUE],
        [op |-> "debug_data", enable |-> TRUE, host_ip |-> <<192, 168, 1, 5>>, host_port |-> 60301]}
  \cup {[op |-> "set", kvs |-> <<kv>>] :
          kv \in {Put("kDetectMode", <<1>>), Put("kDetectMode", <<2>>), Put("kPclDataType", <<0>>),
                  Put("kImuDataEn", <<1>>), Put("kImuSensorCfg", <<1, 2, 7>>),
                  Put("kLidarIpCfg", Address(13, 1)), Put("kLidarIpCfg", Address(255, 1)),
                  Put("kInstallAttitude", <<-90, 0, 180, -5, 0, 7>>),
                  Put("kFuncIoCfg", <<0, 0, 2, 3>>)}}
  \cup {[op |-> "set_many", kvs |-> <<Put("kPatternMode", <<1>>), Put("kPclDataType", <<2>>)>>],
        [op |-> "set_many", kvs |-> <<Put("kTimeFilter", <<1>>), Put("kPatternMode", <<3>>)>>],
        [op |-> "set_fov", kvs |-> <<>>],
        [op |-> "set_fov", kvs |-> <<Put("kFovCfg1", Window(30, 20, 0, 10))>>],
        [op |-> "set_fov", kvs |-> <<Put("kFovCfg0", Window(10, 20, -10, 60)),
                                     Put("kFovCfgEn", <<TRUE, FALSE>>)>>]}
  \cup {[op |-> "info_push", kvs |-> <<Put("kPclDataType", <<1>>), Put("kDetectMode", <<0>>)>>],
        [op |-> "point_packet", type |-> 1, timestamp_ns |-> 70000,
         samples |-> <<<<-5, 1000, 70000, 9, 0>>, <<1, -1, 0, 255, 3>>>>],
        [op |-> "log_chunk", header |-> [log_type |-> 0, file_index |-> 2, flags |-> 1,
                                         trans_index |-> 300], data |-> <<1, 2, 3>>],
        [op |-> "log_chunk", header |-> [log_type |-> 1, file_index |-> 0, flags |-> 4,
                                         trans_index |-> 0], data |-> <<>>]}
==============================================================================
