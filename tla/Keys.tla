-------------------------------- MODULE Keys --------------------------------
(***************************************************************************)
(* The keys of the key-value list and their typed values                   *)
(* (src/include/livox/mid360/keys.hpp, src/src/keys.cpp): per key a code,  *)
(* a layout, the range its decoder accepts and the check a setter makes    *)
(* before any I/O.                                                         *)
(*                                                                         *)
(* A typed value is the sequence of its fields.  The angles of             *)
(* InstallAttitude are whole degrees: the representation of a float is not *)
(* modelled.  The 360S/360L keys have no codec, here as in the code.       *)
(***************************************************************************)
EXTENDS Wire

LOCAL INSTANCE SequencesExt

ReadOnly == 32768   \* bit 15 of a read-only key

Key == [kPclDataType |-> 0, kPatternMode |-> 1, kLidarIpCfg |-> 4, kStateInfoHostIpCfg |-> 5,
        kPointCloudHostIpCfg |-> 6, kImuHostIpCfg |-> 7, kLogHostIpCfg |-> 9,
        kInstallAttitude |-> 18, kFovCfg0 |-> 21, kFovCfg1 |-> 22, kFovCfgEn |-> 23,
        kDetectMode |-> 24, kFuncIoCfg |-> 25, kWorkTgtMode |-> 26, kImuDataEn |-> 28,
        kTimeFilter |-> 38, kImuSensorCfg |-> 43, kSn |-> ReadOnly, kProductInfo |-> ReadOnly + 1,
        kVersionApp |-> ReadOnly + 2, kVersionLoader |-> ReadOnly + 3,
        kVersionHardware |-> ReadOnly + 4, kMac |-> ReadOnly + 5, kCurWorkState |-> ReadOnly + 6,
        kCoreTemp |-> ReadOnly + 7, kPowerupCnt |-> ReadOnly + 8, kLocalTimeNow |-> ReadOnly + 9,
        kLastSyncTime |-> ReadOnly + 10, kTimeOffset |-> ReadOnly + 11,
        kTimeSyncType |-> ReadOnly + 12, kLidarDiagStatus |-> ReadOnly + 14,
        kFwType |-> ReadOnly + 16, kHmsCode |-> ReadOnly + 17]
Names == DOMAIN Key

(* The keys of which kinds of value. *)
Strings == {"kSn", "kProductInfo"}
HostIps == {"kStateInfoHostIpCfg", "kPointCloudHostIpCfg", "kImuHostIpCfg", "kLogHostIpCfg"}
Fovs == {"kFovCfg0", "kFovCfg1"}
Versions == {"kVersionApp", "kVersionLoader", "kVersionHardware"}
Bools == {"kImuDataEn", "kTimeFilter"}

-----------------------------------------------------------------------------
(* Enumerators. *)
WorkState == {1, 2, 4, 5, 6, 8, 9}
DataType == 0 .. 3
ScanPattern == 0 .. 2
DetectMode == 0 .. 1
FuncOut == 0 .. 2
ImuOutputRate == 0 .. 3
ImuAccelRange == 0 .. 3
ImuGyroRange == 0 .. 7
TimeSyncType == 0 .. 2
DiagLevel == 0 .. 3
FwType == 0 .. 1

(* Structures. *)
Ones(n) == [i \in 1 .. n |-> 1]
HostIpConfig == <<1, 1, 1, 1, 2, 2>>          \* ip, dst_port, src_port
LidarIpConfig == Ones(12)                     \* ip, netmask, gateway
InstallAttitude == <<-4, -4, -4, -4, -4, -4>>
FovConfig == <<-4, -4, -4, -4, 4>>            \* yaw start, stop, pitch start, stop, rsvd
HmsCodes == FlattenSeq([i \in 1 .. 8 |-> <<1, 1, 2>>])   \* level, reserved, abnormal_id

-----------------------------------------------------------------------------
(* Decoders: the value's length, then the range of its fields. *)
Decode(v, widths, InRange(_)) ==
  IF Len(v) # Size(widths) THEN Err("kWrongLength")
  ELSE IF ~InRange(Unpack(v, 0, widths)) THEN Err("kOutOfRange")
  ELSE [value |-> Unpack(v, 0, widths)]
AnyValue(f) == TRUE
decode_scalar(v, width) == Decode(v, <<width>>, AnyValue)
decode_enum_u8(v, enumerators) == Decode(v, <<1>>, LAMBDA f : f[1] \in enumerators)
decode_host_ip_config(v) == Decode(v, HostIpConfig, AnyValue)
decode_lidar_ip_config(v) == Decode(v, LidarIpConfig, AnyValue)
decode_install_attitude(v) == Decode(v, InstallAttitude, AnyValue)
decode_fov_config(v) == Decode(v, FovConfig, AnyValue)
func_io_config_valid(c) == c[1] = 0 /\ c[2] = 0 /\ c[3] \in FuncOut /\ c[4] \in FuncOut
decode_func_io_config(v) == Decode(v, Ones(4), func_io_config_valid)
imu_sensor_config_valid(c) ==
  c[1] \in ImuOutputRate /\ c[2] \in ImuAccelRange /\ c[3] \in ImuGyroRange
decode_imu_sensor_config(v) == Decode(v, Ones(3), imu_sensor_config_valid)
decode_version(v) == Decode(v, Ones(4), AnyValue)
decode_mac(v) == Decode(v, Ones(6), AnyValue)
decode_work_state(v) == decode_enum_u8(v, WorkState)
decode_data_type(v) == decode_enum_u8(v, DataType \ {0})
decode_fov_enable(v) ==   \* <<fov0, fov1>>
  LET d == decode_enum_u8(v, 0 .. 3)
  IN IF failed(d) THEN d ELSE [value |-> <<d.value[1] % 2 = 1, d.value[1] \div 2 = 1>>]
decode_diag_status(v) ==  \* <<system, scan, ranging, communication>>
  LET d == decode_scalar(v, 2)
      nibble(shift) == (d.value[1] \div 2 ^ shift) % 16
      levels == <<nibble(0), nibble(4), nibble(8), nibble(12)>>
  IN IF failed(d) THEN d
     ELSE IF \E i \in DOMAIN levels : levels[i] \notin DiagLevel THEN Err("kOutOfRange")
     ELSE [value |-> levels]
decode_hms_codes(v) == Decode(v, HmsCodes, AnyValue)

(* Encoders. *)
encode_fov_enable(e) == <<(IF e[1] THEN 1 ELSE 0) + (IF e[2] THEN 2 ELSE 0)>>
encode_host_ip_config(c) == Pack(c, HostIpConfig)
encode_lidar_ip_config(c) == Pack(c, LidarIpConfig)
encode_install_attitude(a) == Pack(a, InstallAttitude)
encode_fov_config(f) == Pack(f, FovConfig)
encode_func_io_config(c) == Pack(c, Ones(4))
encode_imu_sensor_config(c) == Pack(c, Ones(3))
encode_u8(c) == Pack(c, Ones(1))

(* key_traits *)
decode(k, v) ==
  CASE k = "kPclDataType"                      -> decode_data_type(v)
    [] k = "kPatternMode"                      -> decode_enum_u8(v, ScanPattern)
    [] k = "kLidarIpCfg"                       -> decode_lidar_ip_config(v)
    [] k \in HostIps                           -> decode_host_ip_config(v)
    [] k = "kInstallAttitude"                  -> decode_install_attitude(v)
    [] k \in Fovs                              -> decode_fov_config(v)
    [] k = "kFovCfgEn"                         -> decode_fov_enable(v)
    [] k = "kDetectMode"                       -> decode_enum_u8(v, DetectMode)
    [] k = "kFuncIoCfg"                        -> decode_func_io_config(v)
    [] k \in {"kWorkTgtMode", "kCurWorkState"} -> decode_work_state(v)
    [] k \in Bools                             -> decode_enum_u8(v, 0 .. 1)
    [] k = "kImuSensorCfg"                     -> decode_imu_sensor_config(v)
    [] k \in Strings                           -> [value |-> decode_string(v)]
    [] k \in Versions                          -> decode_version(v)
    [] k = "kMac"                              -> decode_mac(v)
    [] k = "kCoreTemp"                         -> decode_scalar(v, -4)
    [] k = "kPowerupCnt"                       -> decode_scalar(v, 4)
    [] k \in {"kLocalTimeNow", "kLastSyncTime"} -> decode_scalar(v, 8)
    [] k = "kTimeOffset"                       -> decode_scalar(v, -8)
    [] k = "kTimeSyncType"                     -> decode_enum_u8(v, TimeSyncType)
    [] k = "kLidarDiagStatus"                  -> decode_diag_status(v)
    [] k = "kFwType"                           -> decode_enum_u8(v, FwType)
    [] k = "kHmsCode"                          -> decode_hms_codes(v)

encode(k, c) ==
  CASE k = "kLidarIpCfg"      -> encode_lidar_ip_config(c)
    [] k \in HostIps          -> encode_host_ip_config(c)
    [] k = "kInstallAttitude" -> encode_install_attitude(c)
    [] k \in Fovs             -> encode_fov_config(c)
    [] k = "kFovCfgEn"        -> encode_fov_enable(c)
    [] k = "kFuncIoCfg"       -> encode_func_io_config(c)
    [] k = "kImuSensorCfg"    -> encode_imu_sensor_config(c)
    [] OTHER                  -> encode_u8(c)

(* Fixed length of a value. *)
key_value_length(k) ==
  CASE k \in HostIps \cup {"kLocalTimeNow", "kLastSyncTime", "kTimeOffset"}  -> 8
    [] k \in Versions \cup {"kFuncIoCfg", "kCoreTemp", "kPowerupCnt"}        -> 4
    [] k \in Fovs -> 20        [] k = "kInstallAttitude" -> 24   [] k = "kLidarIpCfg" -> 12
    [] k = "kMac" -> 6         [] k = "kLidarDiagStatus" -> 2    [] k = "kImuSensorCfg" -> 3
    [] k = "kSn" -> 16         [] k = "kProductInfo" -> 64       [] k = "kHmsCode" -> 32
    [] OTHER -> 1

(* The first entry with the key, if any. *)
find_key(kvs, k) ==
  LET at == {i \in DOMAIN kvs : kvs[i].key = Key[k]}
  IN IF at = {} THEN Err("missing") ELSE [raw |-> kvs[CHOOSE i \in at : \A j \in at : i <= j].value]

-----------------------------------------------------------------------------
(* What a setter checks before any I/O. *)
fov_in_range(f) ==
  f[1] \in 0 .. 360 /\ f[2] \in f[1] .. 360 /\ f[3] \in -10 .. 60 /\ f[4] \in f[3] .. 60

install_attitude_valid(a) == \A i \in 1 .. 3 : a[i] \in -180 .. 180

(* An address as the set of its one bits, 31 the first of the address. *)
Bits(a) == {i \in 0 .. 31 : (a[4 - i \div 8] \div 2 ^ (i % 8)) % 2 = 1}

lidar_ip_config_valid(c) ==
  LET ip == Bits(SubSeq(c, 1, 4))
      mask == Bits(SubSeq(c, 5, 8))
      gw == Bits(SubSeq(c, 9, 12))
      host == (0 .. 31) \ mask
      net == ip \cap mask
  IN /\ \E prefix \in 1 .. 30 : host = 0 .. 31 - prefix
     /\ ip \notin {{}, 0 .. 31, net, net \cup host}
     /\ gw # {} => gw \cap mask = net /\ gw \notin {ip, net, net \cup host}
=============================================================================
