------------------------------ MODULE Settings ------------------------------
(***************************************************************************)
(* One command of a Device, byte for byte: the typed setters and getters   *)
(* (device.hpp, device.cpp, lidar_info.cpp), the request Session sends and *)
(* what it makes of the ACK (session.cpp).  Retries, cancelling and late   *)
(* ACKs are Session's (Session.tla): a request here is sent once, and the  *)
(* call times out when nothing is left on the wire.                        *)
(*                                                                         *)
(* The LiDAR is external.  It takes a configuration as a whole or not at   *)
(* all, keeps imu_data_en and time_filter as written, and answers an       *)
(* inquire that names a key its firmware lacks with 0x20 and the keys it   *)
(* has (#228).  A datagram may be lost, cut, padded or have a byte         *)
(* altered, and the LiDAR may send a payload cut short in a sound frame.   *)
(***************************************************************************)
EXTENDS Keys, FiniteSets

LOCAL INSTANCE SequencesExt

CONSTANTS
  Ops,        \* the calls: records [op, ...], see Start
  Firmwares,  \* what the LiDAR starts with: [stored : keys it has -> bytes, ran : last command]
  MaxOps,     \* bound on calls
  MaxFaults   \* bound on damaged datagrams

VARIABLES
  op,        \* the call in progress
  asked,     \* the keys its inquire names
  wire,      \* the datagram in flight: [to, bytes]
  seq_num,   \* of the last request
  firmware,  \* the LiDAR
  returned,    \* what the last call returned
  before,    \* the LiDAR when the call began (history)
  ops, faults, sound   \* calls and damages so far; no damage in this call (history)

settingsVars == <<op, asked, wire, seq_num, firmware, returned, before, ops, faults, sound>>

NoOp == [op |-> "none"]
Quiet == [to |-> "nobody", bytes |-> <<>>]
Nothing == [op |-> NoOp, is |-> Err("nothing")]

(* A Session just connected. *)
Connected ==
  /\ op = NoOp /\ asked = <<>> /\ wire = Quiet /\ seq_num = 0 /\ returned = Nothing
  /\ before = firmware /\ ops = 0 /\ faults = 0 /\ sound = TRUE

SettingsInit == firmware \in Firmwares /\ Connected

(* Session::connect() to a LiDAR. *)
NewSession(f) ==
  /\ op' = NoOp /\ asked' = <<>> /\ wire' = Quiet /\ seq_num' = 0 /\ returned' = Nothing
  /\ firmware' = f /\ before' = f /\ ops' = 0 /\ faults' = 0 /\ sound' = TRUE

-----------------------------------------------------------------------------
(* Keys of the compound reads. *)
kIdentityKeys ==
  <<"kSn", "kProductInfo", "kVersionApp", "kVersionLoader", "kVersionHardware", "kMac">>
kSettingsKeys ==
  <<"kPclDataType", "kPatternMode", "kLidarIpCfg", "kStateInfoHostIpCfg", "kPointCloudHostIpCfg",
    "kImuHostIpCfg", "kInstallAttitude", "kFovCfg0", "kFovCfg1", "kFovCfgEn", "kDetectMode",
    "kFuncIoCfg", "kWorkTgtMode", "kImuDataEn", "kTimeFilter", "kImuSensorCfg">>
kStatusKeys ==
  <<"kCurWorkState", "kCoreTemp", "kPowerupCnt", "kLocalTimeNow", "kLastSyncTime", "kTimeOffset",
    "kTimeSyncType", "kLidarDiagStatus", "kFwType", "kHmsCode">>
kFovKeys == <<"kFovCfg0", "kFovCfg1", "kFovCfgEn">>
kTimeSyncKeys == <<"kLocalTimeNow", "kLastSyncTime", "kTimeOffset", "kTimeSyncType">>

Partial == {"identity", "settings", "status", "fov"}      \* what does not decode is left out
Complete == {"get", "time_sync_status", "work_state"}     \* what does not decode is an error
Sets == {"set", "set_fov", "set_many"}
Simple == {"reboot", "factory_reset", "set_gps_time", "firmware_log", "debug_data"}
Received == {"info_push", "point_packet", "log_chunk"}    \* sent by the LiDAR unasked

Keys(o) ==
  CASE o.op = "identity"         -> kIdentityKeys
    [] o.op = "settings"         -> kSettingsKeys
    [] o.op = "status"           -> kStatusKeys
    [] o.op = "fov"              -> kFovKeys
    [] o.op = "time_sync_status" -> kTimeSyncKeys
    [] o.op = "work_state"       -> <<"kCurWorkState">>
    [] o.op = "get"              -> o.keys
    [] OTHER                     -> <<>>

Codes(keys) == [i \in DOMAIN keys |-> Key[keys[i]]]

(* The encoded key-value list of typed values. *)
Raw(kvs) == [i \in DOMAIN kvs |-> [key |-> Key[kvs[i].key], value |-> encode(kvs[i].key, kvs[i].value)]]

CmdId(o) ==
  CASE o.op \in Sets               -> 256
    [] o.op \in Partial \cup Complete -> 257
    [] o.op = "reboot"             -> 512
    [] o.op = "factory_reset"      -> 513
    [] o.op = "set_gps_time"       -> 514
    [] o.op = "firmware_log"       -> 769
    [] o.op = "debug_data"         -> 771
    [] o.op = "discovery_ack"      -> 0

Payload(o, keys) ==
  CASE o.op \in Sets               -> encode_param_config_request(Raw(o.kvs))
    [] o.op \in Partial \cup Complete -> encode_param_inquire_request(Codes(keys))
    [] o.op = "reboot"             -> encode_reboot_request(o.timeout_ms)
    [] o.op = "factory_reset"      -> encode_factory_reset_request
    [] o.op = "set_gps_time"       -> encode_set_gps_timestamp_request(o.pps_time_ns)
    [] o.op = "firmware_log"       -> encode_firmware_log_control(o)
    [] o.op = "debug_data"         -> encode_debug_data_control(o)
    [] o.op = "discovery_ack"      -> <<>>

Datagram(to, seq, cmd_id, cmd_type, data) ==
  [to |-> to,
   bytes |-> build_command_frame([seq_num |-> seq, cmd_id |-> cmd_id, cmd_type |-> cmd_type,
                                  sender_type |-> 0, data |-> data]).bytes]

Request(o, keys) ==
  /\ seq_num' = seq_num + 1
  /\ wire' = Datagram("lidar", seq_num + 1, CmdId(o), kReq, Payload(o, keys))

Conclude(r) == op' = NoOp /\ asked' = <<>> /\ returned' = [op |-> op, is |-> r]

-----------------------------------------------------------------------------
(* What the named setters accept before any I/O; set<K>() and set_many() take every value. *)
set_point_format(v) == v # <<0>>
set_detect_mode(v) == v[1] <= 1
set_imu_sensor_config(v) == v[1] <= 3 /\ v[2] <= 3 /\ v[3] <= 7
set_lidar_ip_config(v) == lidar_ip_config_valid(v)
set_install_attitude(v) == install_attitude_valid(v)
set_func_io_config(v) == func_io_config_valid(v)
set_fov(kvs) ==
  /\ kvs # <<>>
  /\ \A i \in DOMAIN kvs : kvs[i].key \in Fovs => fov_in_range(kvs[i].value)

Accepts(k, v) ==
  CASE k = "kPclDataType"     -> set_point_format(v)
    [] k = "kDetectMode"      -> set_detect_mode(v)
    [] k = "kImuSensorCfg"    -> set_imu_sensor_config(v)
    [] k = "kLidarIpCfg"      -> set_lidar_ip_config(v)
    [] k = "kInstallAttitude" -> set_install_attitude(v)
    [] k = "kFuncIoCfg"       -> set_func_io_config(v)
    [] OTHER                  -> TRUE

invalid_argument(o) ==
  \/ o.op = "set" /\ ~Accepts(o.kvs[1].key, o.kvs[1].value)
  \/ o.op = "set_fov" /\ ~set_fov(o.kvs)

Start(o) ==
  /\ op = NoOp /\ o.op \notin Received
  /\ ops' = ops + 1 /\ before' = firmware /\ sound' = TRUE
  /\ IF invalid_argument(o)
       THEN /\ returned' = [op |-> o, is |-> Err("kInvalidArgument")]
            /\ UNCHANGED <<op, asked, wire, seq_num>>
       ELSE /\ op' = o /\ asked' = Keys(o) /\ returned' = Nothing
            /\ Request(o, Keys(o))
  /\ UNCHANGED <<firmware, faults>>

-----------------------------------------------------------------------------
(* The LiDAR. *)
Named(code) == {k \in DOMAIN firmware.stored : Key[k] = code}

Taken(kv) ==
  \E k \in Named(kv.key) :
    /\ Key[k] < ReadOnly /\ Len(kv.value) = key_value_length(k)
    /\ k \in Bools \/ ~failed(decode(k, kv.value))

Configured(kvs) ==
  [firmware EXCEPT !.stored =
     [k \in DOMAIN @ |-> IF failed(find_key(kvs, k)) THEN @[k] ELSE find_key(kvs, k).raw]]

Has(codes) == SelectSeq(codes, LAMBDA c : Named(c) # {})
StoredList(codes) ==
  [i \in DOMAIN codes |-> [key |-> codes[i],
                           value |-> firmware.stored[CHOOSE k \in Named(codes[i]) : TRUE]]]

(* Next state and ACK payload for a request; kvs and codes are the lists its payload may hold. *)
Set(kvs, bad) ==
  IF bad # <<>> THEN [lidar |-> firmware, data |-> Pack(<<32, bad[1].key>>, <<1, 2>>)]
  ELSE [lidar |-> Configured(kvs),
        data |-> <<IF \E i \in DOMAIN kvs : kvs[i].key = Key.kLidarIpCfg THEN 33 ELSE 0, 0, 0>>]

Get(codes, has) ==
  [lidar |-> firmware,
   data |-> Pack(<<IF has = codes THEN 0 ELSE 32, Len(has)>>, <<1, 2>>)
            \o append_key_value_list(StoredList(has))]

Reply(f, kvs, codes) ==
  CASE f.cmd_id = 256 -> Set(kvs, SelectSeq(kvs, LAMBDA kv : ~Taken(kv)))
    [] f.cmd_id = 257 -> Get(codes, Has(codes))
    [] f.cmd_id = 0 ->
         [lidar |-> firmware,
          data |-> <<0, 9>> \o firmware.stored.kSn \o SubSeq(firmware.stored.kLidarIpCfg, 1, 4)
                   \o write_le(2, 56100)]
    [] OTHER -> [lidar |-> [firmware EXCEPT !.ran = <<f.cmd_id, f.data>>], data |-> <<0>>]

(* The ACK; as a fault, its payload is cut short. *)
Acknowledge(f, a) ==
  /\ firmware' = a.lidar
  /\ \E n \in 0 .. Len(a.data) :
       /\ wire' = Datagram("host", f.seq_num, f.cmd_id, kAck, SubSeq(a.data, 1, n))
       /\ \/ n = Len(a.data) /\ UNCHANGED <<faults, sound>>
          \/ n < Len(a.data) /\ faults < MaxFaults
             /\ faults' = faults + 1 /\ sound' = FALSE

OnRequest(f) ==
  IF failed(f) THEN wire' = Quiet /\ UNCHANGED <<firmware, faults, sound>>
  ELSE Acknowledge(f, Reply(f, parse_info_push(f.data).values,
                            Unpack(f.data, 4, [i \in 1 .. read_le(f.data, 0, 2) |-> 2])))

Serve ==
  /\ wire.to = "lidar"
  /\ OnRequest(parse_command_frame(wire.bytes))
  /\ UNCHANGED <<op, asked, seq_num, returned, before, ops>>

(* What the LiDAR sends unasked: a state push, a data packet, a chunk of its firmware log. *)
PointPacket(o) ==
  LET data == FlattenSeq([i \in DOMAIN o.samples |-> Pack(o.samples[i], DataLayout[o.type + 1])])
      tail == write_le(8, o.timestamp_ns) \o data
      total == kDataPacketHeaderSize + Len(data)
  IN Pack(<<0, total, 1, Len(o.samples), 0, 0, o.type, 0>>, <<1, 2, 2, 2, 2, 1, 1, 1>>)
     \o Zeros(12) \o crc32(tail) \o tail

Unasked(o) ==
  /\ op = NoOp /\ o.op \in Received
  /\ op' = o /\ returned' = Nothing /\ ops' = ops + 1 /\ before' = firmware /\ sound' = TRUE
  /\ wire' = CASE o.op = "point_packet" -> [to |-> "host", bytes |-> PointPacket(o)]
               [] o.op = "info_push" ->
                    Datagram("host", 0, 258, kReq, encode_param_config_request(Raw(o.kvs)))
               [] o.op = "log_chunk" ->
                    Datagram("host", 0, 768, kReq, encode_firmware_log_push(o.header, o.data))
  /\ UNCHANGED <<asked, seq_num, firmware, faults>>

-----------------------------------------------------------------------------
(* The network. *)
Damaged(bytes) ==
  {SubSeq(bytes, 1, n) : n \in 0 .. Len(bytes) - 1} \cup {Append(bytes, 0)}
    \cup {[bytes EXCEPT ![i] = (@ + 1) % 256] : i \in DOMAIN bytes}

Damage ==
  /\ wire # Quiet /\ faults < MaxFaults
  /\ \/ wire' = Quiet
     \/ \E b \in Damaged(wire.bytes) : wire' = [wire EXCEPT !.bytes = b]
  /\ faults' = faults + 1 /\ sound' = FALSE
  /\ UNCHANGED <<op, asked, seq_num, firmware, returned, before, ops>>

-----------------------------------------------------------------------------
(* session_detail: what an ACK payload amounts to. *)
rejected(ret_code, error_key) ==
  [error |-> "kLidarRejected", ret_code |-> ret_code, error_key |-> error_key]

(* Mutant: the return code is not looked at. *)
to_config_ack_any(data) ==
  LET a == parse_param_config_ack(data)
  IN IF failed(a) THEN Err("kBadResponse") ELSE [reboot_required |-> a.ret_code = 33]

to_config_ack(data) ==
  LET a == parse_param_config_ack(data)
  IN IF failed(a) THEN Err("kBadResponse")
     ELSE IF a.ret_code \notin {0, 33} THEN rejected(a.ret_code, a.error_key)
     ELSE [reboot_required |-> a.ret_code = 33]

(* a.values[1], or the key of the first one missing when the LiDAR does not know all. *)
FirstKey(a) == IF a.values = <<>> THEN 0 ELSE a.values[1].key
ErrorKey(a, requested) ==
  LET answered(c) == \E i \in DOMAIN a.values : a.values[i].key = c /\ a.values[i].value # <<>>
      missing == SelectSeq(requested, LAMBDA c : ~answered(c))
  IN IF a.ret_code = 32 /\ missing # <<>> THEN missing[1] ELSE FirstKey(a)
Inquired(a, error_key) ==
  IF failed(a) THEN Err("kBadResponse")
  ELSE IF a.ret_code # 0 THEN rejected(a.ret_code, error_key) ELSE [values |-> a.values]

(* Mutant: the key named is the first one answered, as for the other return codes. *)
to_inquire_result_first(a, requested) == Inquired(a, FirstKey(a))

to_inquire_result(a, requested) == Inquired(a, ErrorKey(a, requested))

to_simple_ack(data) ==
  LET a == parse_simple_ack(data)
  IN IF failed(a) THEN Err("kBadResponse")
     ELSE IF a.ret_code # 0 THEN rejected(a.ret_code, 0) ELSE a

to_discovery_ack(data) ==
  LET a == parse_discovery_ack(data)
  IN IF failed(a) THEN Err("kBadResponse")
     ELSE IF a.ret_code # 0 THEN rejected(a.ret_code, 0) ELSE a

(* The typed values of an inquire.  What is missing or does not decode is left out, ... *)
decode_found(k, raw) == IF failed(raw) THEN raw ELSE decode(k, raw.raw)
decode_opt(kvs, k) == decode_found(k, find_key(kvs, k))
Decodable(d) == [typed |-> [k \in {j \in DOMAIN d : ~failed(d[j])} |-> d[k].value]]
Typed(keys, kvs) == Decodable([k \in ToSet(keys) |-> decode_opt(kvs, k)])
decode_identity(kvs) == Typed(kIdentityKeys, kvs)
decode_settings(kvs) == Typed(kSettingsKeys, kvs)
decode_status(kvs) == Typed(kStatusKeys, kvs)
fov(kvs) == Typed(kFovKeys, kvs)

(* ... or is the call's error. *)
AllOf(keys, d) ==
  LET bad == SelectSeq(keys, LAMBDA k : k \notin DOMAIN d.typed)
  IN IF bad = <<>> THEN d ELSE [error |-> "kDecodeFailed", key |-> bad[1]]
get_many(keys, kvs) == AllOf(keys, Typed(keys, kvs))
time_sync_status(kvs) ==
  LET absent == SelectSeq(kTimeSyncKeys, LAMBDA k : failed(find_key(kvs, k)))
  IN IF absent = <<>> THEN get_many(kTimeSyncKeys, kvs)
     ELSE [error |-> "kDecodeFailed", key |-> absent[1]]
OrBad(r) == IF failed(r) THEN Err("kBadResponse") ELSE r
to_work_state(kvs) == OrBad(get_many(<<"kCurWorkState">>, kvs))

Decoded(o, kvs) ==
  CASE o.op = "identity"         -> decode_identity(kvs)
    [] o.op = "settings"         -> decode_settings(kvs)
    [] o.op = "status"           -> decode_status(kvs)
    [] o.op = "fov"              -> fov(kvs)
    [] o.op = "time_sync_status" -> time_sync_status(kvs)
    [] o.op = "work_state"       -> to_work_state(kvs)
    [] o.op = "get"              -> get_many(o.keys, kvs)

(* match_ack() of the datagram, then the call's conclusion; settings() drops the key the LiDAR *)
(* names and asks again.                                                                       *)
OnInquire(r) ==
  LET left == SelectSeq(asked, LAMBDA k : Key[k] # r.error_key)
  IN IF ~failed(r) THEN Conclude(Decoded(op, r.values)) /\ wire' = Quiet /\ UNCHANGED seq_num
     ELSE IF op.op = "settings" /\ r.error = "kLidarRejected" /\ r.ret_code = 32 /\ left # asked
       THEN asked' = left /\ Request(op, left) /\ UNCHANGED <<op, returned>>
     ELSE Conclude(r) /\ wire' = Quiet /\ UNCHANGED seq_num

OnFrame(view) ==
  IF failed(view) \/ view.cmd_type # kAck \/ view.seq_num # seq_num \/ view.cmd_id # CmdId(op)
    THEN wire' = Quiet /\ UNCHANGED <<op, asked, seq_num, returned>>
  ELSE IF op.op \in Partial \cup Complete
    THEN OnInquire(to_inquire_result(parse_param_inquire_ack(view.data), Codes(asked)))
  ELSE /\ Conclude(CASE op.op \in Sets -> to_config_ack(view.data)
                   [] op.op \in Simple -> to_simple_ack(view.data)
                   [] op.op = "discovery_ack" -> to_discovery_ack(view.data))
       /\ wire' = Quiet /\ UNCHANGED seq_num

OnAnswer ==
  /\ wire.to = "host" /\ op.op \notin Received
  /\ OnFrame(parse_command_frame(wire.bytes))
  /\ UNCHANGED <<firmware, before, ops, faults, sound>>

(* A push, a data packet or a log chunk. *)
on_point(packet) ==
  IF failed(packet) THEN packet
  ELSE [timestamp_ns |-> packet.timestamp_ns, samples |-> decode_all(packet, packet.data_type)]
on_push(frame) ==
  IF failed(frame) \/ frame.cmd_id # 258 THEN Err("bad_packets") ELSE parse_info_push(frame.data)
on_chunk(push) ==
  IF failed(push) THEN push
  ELSE [data |-> push.data,
        ack |-> IF push.flags % 2 = 1
                  THEN encode_firmware_log_push_ack(push @@ [ret_code |-> 0]) ELSE <<>>]
on_log(frame) ==
  IF failed(frame) \/ frame.cmd_type = kAck \/ frame.cmd_id # 768 THEN Err("bad_log_packets")
  ELSE on_chunk(parse_firmware_log_push(frame.data))

OnUnasked ==
  /\ wire.to = "host" /\ op.op \in Received
  /\ Conclude(CASE op.op = "point_packet" -> on_point(parse_data_packet(wire.bytes, TRUE))
              [] op.op = "info_push" -> on_push(parse_command_frame(wire.bytes))
              [] op.op = "log_chunk" -> on_log(parse_command_frame(wire.bytes)))
  /\ wire' = Quiet /\ UNCHANGED <<seq_num, firmware, before, ops, faults, sound>>

Timeout ==
  /\ op # NoOp /\ wire = Quiet
  /\ Conclude(Err("kTimeout"))
  /\ UNCHANGED <<wire, seq_num, firmware, before, ops, faults, sound>>

SettingsNext ==
  \/ ops < MaxOps /\ \E o \in Ops : Start(o) \/ Unasked(o)
  \/ Serve \/ Damage \/ OnAnswer \/ OnUnasked \/ Timeout

SettingsSpec == SettingsInit /\ [][SettingsNext]_settingsVars

-----------------------------------------------------------------------------
Succeeded(kinds) == returned.op.op \in kinds /\ ~failed(returned.is)
Held(k) == IF k \in DOMAIN firmware.stored THEN decode(k, firmware.stored[k]) ELSE Err("absent")

(* A read that succeeds returns, decoded, what the LiDAR holds: whatever the network and the     *)
(* LiDAR did to the ACK, no value is cut, taken from another key or made up, and a getter of one *)
(* or several keys returns all of them (Device::get_many(), identity(), settings(), status(),    *)
(* fov(), time_sync_status(), Session::work_state(), Session::discovery_ack()).                  *)
ReadsStored ==
  /\ Succeeded(Partial \cup Complete) =>
       /\ \A k \in DOMAIN returned.is.typed :
            Held(k) = [value |-> returned.is.typed[k]]
       /\ returned.op.op \in Complete => DOMAIN returned.is.typed = ToSet(Keys(returned.op))
  /\ Succeeded({"discovery_ack"}) =>
       /\ serial_number_view(returned.is) = Held("kSn").value
       /\ returned.is.lidar_ip = SubSeq(Held("kLidarIpCfg").value, 1, 4)

(* A setter or command that succeeds has taken effect: every value set reads back as it was      *)
(* given, and the LiDAR ran the command with its arguments.  One refused, by the setter's check  *)
(* or by the LiDAR, changed nothing, and the error names one of its own keys (device.hpp:395     *)
(* "the LiDAR applies all or rejects the whole request").                                        *)
CallTakesEffect ==
  /\ Succeeded(Sets) => \A i \in DOMAIN returned.op.kvs :
       Held(returned.op.kvs[i].key) = [value |-> returned.op.kvs[i].value]
  /\ Succeeded(Simple) => firmware.ran = <<CmdId(returned.op), Payload(returned.op, <<>>)>>
  /\ failed(returned.is) /\ returned.is.error \in {"kInvalidArgument", "kLidarRejected"} =>
       firmware = before
  /\ failed(returned.is) /\ returned.is.error = "kLidarRejected" /\ returned.op.op \in Sets =>
       \E i \in DOMAIN returned.op.kvs : Key[returned.op.kvs[i].key] = returned.is.error_key

(* settings() reads every firmware: unless a datagram was damaged it succeeds, with exactly the  *)
(* keys the firmware has and the decoders accept.                                                *)
SettingsComplete ==
  returned.op.op = "settings" /\ sound =>
    /\ ~failed(returned.is)
    /\ DOMAIN returned.is.typed =
         {k \in ToSet(kSettingsKeys) : ~failed(Held(k))}

(* A push, a data packet or a log chunk that parses is the one sent, and the ACK of a chunk      *)
(* names that chunk (parse_info_push(), parse_data_packet(), parse_firmware_log_push()).         *)
ReceivedIsSent ==
  /\ Succeeded({"info_push"}) => returned.is.values = Raw(returned.op.kvs)
  /\ Succeeded({"point_packet"}) =>
       returned.is = [timestamp_ns |-> returned.op.timestamp_ns, samples |-> returned.op.samples]
  /\ Succeeded({"log_chunk"}) =>
       LET ack == parse_firmware_log_push_ack(returned.is.ack)
           sent == returned.op.header
       IN /\ returned.is.data = returned.op.data
          /\ IF sent.flags % 2 = 0 THEN returned.is.ack = <<>>
             ELSE <<ack.log_type, ack.file_index, ack.trans_index>> =
                    <<sent.log_type, sent.file_index, sent.trans_index>>

(* What the host makes of a datagram is what the LiDAR put in it.                                *)
ReadsTrue == ReadsStored /\ ReceivedIsSent
=============================================================================
