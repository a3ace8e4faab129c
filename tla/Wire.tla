-------------------------------- MODULE Wire --------------------------------
(***************************************************************************)
(* The wire formats (src/src/protocol.cpp, src/src/firmware_log.cpp,       *)
(* src/src/debug_data.cpp): little-endian bytes, the command frame with    *)
(* its two checksums, the data packet, the key-value list and the payloads *)
(* of the requests, ACKs and pushes.                                       *)
(*                                                                         *)
(* A byte string is a sequence of 0 .. 255 and offsets count from 0 as in  *)
(* the code.  A parser returns a record; one with the field error is the   *)
(* unexpected of std::expected.  The checksums are parameters: all that is *)
(* used of them is that they are functions of the bytes they cover.        *)
(***************************************************************************)
EXTENDS Integers, Sequences

LOCAL INSTANCE SequencesExt

CONSTANTS crc16(_), crc32(_)   \* as 2 and as 4 bytes

Err(e) == [error |-> e]
failed(r) == "error" \in DOMAIN r

-----------------------------------------------------------------------------
(* bytes.hpp.  A negative width stands for a signed integer of that many bytes. *)
write_le(width, n) ==
  LET w == IF width < 0 THEN -width ELSE width
      q[i \in 1 .. w] == IF i = 1 THEN n ELSE q[i - 1] \div 256
  IN [i \in 1 .. w |-> q[i] % 256]

read_le(in, offset, width) ==
  LET w == IF width < 0 THEN -width ELSE width
      top == in[offset + w] - IF width < 0 /\ in[offset + w] > 127 THEN 256 ELSE 0
      v[i \in 1 .. w] == IF i = w THEN top ELSE in[offset + i] + 256 * v[i + 1]
  IN v[1]

Zeros(n) == [i \in 1 .. n |-> 0]

(* Fields laid out one after the other. *)
Offset(widths, i) ==
  LET o[k \in 1 .. i] ==
        IF k = 1 THEN 0 ELSE o[k - 1] + IF widths[k - 1] < 0 THEN -widths[k - 1] ELSE widths[k - 1]
  IN o[i]
Size(widths) == Offset(Append(widths, 0), Len(widths) + 1)
Pack(values, widths) == FlattenSeq([i \in DOMAIN widths |-> write_le(widths[i], values[i])])
Unpack(in, offset, widths) ==
  [i \in DOMAIN widths |-> read_le(in, offset + Offset(widths, i), widths[i])]

-----------------------------------------------------------------------------
(* Command frame: sof, version, length, seq_num, cmd_id, cmd_type, sender_type, 6 reserved bytes, *)
(* crc16 of these 18 bytes, crc32 of the data (0 without data), data.                             *)
kCommandHeaderSize == 24
kCommandFrameMaxSize == 1400
kReq == 0
kAck == 1

build_command_frame(spec) ==
  LET total == kCommandHeaderSize + Len(spec.data)
      head == Pack(<<170, 0, total, spec.seq_num, spec.cmd_id, spec.cmd_type, spec.sender_type>>,
                   <<1, 1, 2, 4, 2, 1, 1>>) \o Zeros(6)
  IN IF total > kCommandFrameMaxSize THEN Err("kDataTooLarge")
     ELSE [bytes |-> head \o crc16(head)
                     \o (IF spec.data = <<>> THEN Zeros(4) ELSE crc32(spec.data)) \o spec.data]

parse_command_frame(frame) ==
  LET length == read_le(frame, 2, 2)
      data == SubSeq(frame, kCommandHeaderSize + 1, length)
      h == Unpack(frame, 4, <<4, 2, 1, 1>>)
  IN IF Len(frame) < kCommandHeaderSize THEN Err("kTooShort")
     ELSE IF frame[1] # 170 THEN Err("kBadSof")
     ELSE IF frame[2] # 0 THEN Err("kBadVersion")
     ELSE IF length < kCommandHeaderSize \/ length > kCommandFrameMaxSize \/ length > Len(frame)
       THEN Err("kLengthMismatch")
     ELSE IF crc16(SubSeq(frame, 1, 18)) # SubSeq(frame, 19, 20) THEN Err("kBadCrc16")
     ELSE IF SubSeq(frame, 21, 24) # (IF data = <<>> THEN Zeros(4) ELSE crc32(data))
       THEN Err("kBadCrc32")
     ELSE [seq_num |-> h[1], cmd_id |-> h[2], cmd_type |-> h[3], sender_type |-> h[4],
           data |-> data]

-----------------------------------------------------------------------------
(* Data packet: version, length, time_interval, dot_num, udp_cnt, frame_cnt, data_type, time_type, *)
(* 12 reserved bytes, crc32 of timestamp and data (0: none), timestamp, data.                      *)
kDataPacketHeaderSize == 36
DataLayout == <<<<-4, -4, -4, -4, -4, -4>>, <<-4, -4, -4, 1, 1>>, <<-2, -2, -2, 1, 1>>,
                <<4, 2, 2, 1, 1>>>>
sample_size(data_type) == Size(DataLayout[data_type + 1])

(* Mutant: the comparison is the wrong way round, a checksum that is there is never compared. *)
data_crc_ok_skipped(packet, length) ==
  LET crc == SubSeq(packet, 25, 28)
  IN crc # Zeros(4) \/ crc32(SubSeq(packet, 29, length)) = crc

(* The checksum of timestamp and data; 0 stands for none. *)
data_crc_ok(packet, length) ==
  LET crc == SubSeq(packet, 25, 28)
  IN crc = Zeros(4) \/ crc32(SubSeq(packet, 29, length)) = crc

parse_data_packet(packet, verify_crc) ==
  LET h == Unpack(packet, 0, <<1, 2, 2, 2, 2, 1, 1, 1>>)
      data == SubSeq(packet, kDataPacketHeaderSize + 1, h[2])
  IN IF Len(packet) < kDataPacketHeaderSize THEN Err("kTooShort")
     ELSE IF h[1] # 0 THEN Err("kBadVersion")
     ELSE IF h[2] < kDataPacketHeaderSize \/ h[2] > Len(packet) THEN Err("kLengthMismatch")
     ELSE IF h[7] > 3 THEN Err("kUnknownDataType")
     ELSE IF Len(data) # h[4] * sample_size(h[7]) THEN Err("kBadDotNum")
     ELSE IF verify_crc /\ ~data_crc_ok(packet, h[2])
       THEN Err("kBadCrc32")
     ELSE [time_interval |-> h[3], dot_num |-> h[4], udp_cnt |-> h[5], frame_cnt |-> h[6],
           data_type |-> h[7], time_type |-> h[8], timestamp_ns |-> read_le(packet, 28, 8),
           data |-> data]

(* decode_cartesian32() and its like: the i-th sample, from 0. *)
decode_sample(p, i) ==
  Unpack(p.data, i * sample_size(p.data_type), DataLayout[p.data_type + 1])

decode_all(p, expect) ==
  IF p.data_type # expect THEN <<>> ELSE [i \in 1 .. p.dot_num |-> decode_sample(p, i - 1)]

-----------------------------------------------------------------------------
(* Key-value lists: key u16, length u16, value. *)
append_key_value_list(kvs) ==
  FlattenSeq([i \in DOMAIN kvs |->
    Pack(<<kvs[i].key, Len(kvs[i].value)>>, <<2, 2>>) \o kvs[i].value])

(* Mutant: an entry whose value the buffer cuts off is taken as far as it goes. *)
parse_key_value_list_cut(in, key_num) ==
  LET entry[n \in 0 .. key_num] ==
        IF n = 0 THEN [off |-> 0, kvs |-> <<>>]
        ELSE LET e == entry[n - 1] IN
             IF failed(e) THEN e
             ELSE IF Len(in) - e.off < 4 THEN Err("kTruncated")
             ELSE LET len == read_le(in, e.off + 2, 2)
                      end == IF e.off + 4 + len < Len(in) THEN e.off + 4 + len ELSE Len(in)
                  IN [off |-> end,
                      kvs |-> Append(e.kvs, [key |-> read_le(in, e.off, 2),
                                             value |-> SubSeq(in, e.off + 5, end)])]
      all == entry[key_num]
  IN IF failed(all) THEN all ELSE IF all.off # Len(in) THEN Err("kKeyNumMismatch") ELSE all

parse_key_value_list(in, key_num) ==
  LET entry[n \in 0 .. key_num] ==
        IF n = 0 THEN [off |-> 0, kvs |-> <<>>]
        ELSE LET e == entry[n - 1]
                 len == read_le(in, e.off + 2, 2)
             IN IF failed(e) THEN e
                ELSE IF Len(in) - e.off < 4 \/ Len(in) - e.off - 4 < len THEN Err("kTruncated")
                ELSE [off |-> e.off + 4 + len,
                      kvs |-> Append(e.kvs, [key |-> read_le(in, e.off, 2),
                                             value |-> SubSeq(in, e.off + 5, e.off + 4 + len)])]
      all == entry[key_num]
  IN IF failed(all) THEN all ELSE IF all.off # Len(in) THEN Err("kKeyNumMismatch") ELSE all

-----------------------------------------------------------------------------
(* Request payloads. *)
encode_param_config_request(kvs) == Pack(<<Len(kvs), 0>>, <<2, 2>>) \o append_key_value_list(kvs)
encode_param_inquire_request(keys) ==
  Pack(<<Len(keys), 0>>, <<2, 2>>) \o FlattenSeq([i \in DOMAIN keys |-> write_le(2, keys[i])])
encode_reboot_request(timeout_ms) == write_le(2, timeout_ms)
encode_factory_reset_request == Zeros(16)
encode_set_gps_timestamp_request(pps_time_ns) == Pack(<<2, pps_time_ns>>, <<1, 8>>)

(* ACK and push payloads. *)
parse_simple_ack(data) == IF data = <<>> THEN Err("kTruncated") ELSE [ret_code |-> data[1]]
parse_param_config_ack(data) ==
  IF Len(data) < 3 THEN Err("kTruncated")
  ELSE [ret_code |-> data[1], error_key |-> read_le(data, 1, 2)]
parse_param_inquire_ack(data) ==
  LET l == parse_key_value_list(SubSeq(data, 4, Len(data)), read_le(data, 1, 2))
  IN IF Len(data) < 3 THEN Err("kTruncated")
     ELSE IF failed(l) THEN l ELSE [ret_code |-> data[1], values |-> l.kvs]
parse_info_push(data) ==
  LET l == parse_key_value_list(SubSeq(data, 5, Len(data)), read_le(data, 0, 2))
  IN IF Len(data) < 4 THEN Err("kTruncated") ELSE IF failed(l) THEN l ELSE [values |-> l.kvs]

(* The text before the first NUL. *)
decode_string(v) ==
  SubSeq(v, 1, CHOOSE n \in 0 .. Len(v) :
                 (n = Len(v) \/ v[n + 1] = 0) /\ \A i \in 1 .. n : v[i] # 0)
serial_number_view(a) == decode_string(a.serial_number)
parse_discovery_ack(data) ==
  IF Len(data) < 24 THEN Err("kTruncated")
  ELSE [ret_code |-> data[1], dev_type |-> data[2], serial_number |-> SubSeq(data, 3, 18),
        lidar_ip |-> SubSeq(data, 19, 22), cmd_port |-> read_le(data, 22, 2)]

(* The firmware log: control, chunk and the ACK of a chunk. *)
encode_firmware_log_control(req) == <<req.log_type, IF req.enable THEN 1 ELSE 0>>
LogPushLayout == <<1, 1, 1, 1, 4, 2, 4, 2>>
parse_firmware_log_push(data) ==
  LET h == Unpack(data, 0, LogPushLayout)
      present == Len(data) - Size(LogPushLayout)
  IN IF present < 0 THEN Err("kTooShort")
     ELSE IF h[8] > present THEN Err("kTruncated")
     ELSE IF h[8] < present THEN Err("kLengthMismatch")
     ELSE [log_type |-> h[1], file_index |-> h[2], flags |-> h[4], trans_index |-> h[7],
           data |-> SubSeq(data, Size(LogPushLayout) + 1, Len(data))]
encode_firmware_log_push(h, data) ==
  Pack(<<h.log_type, h.file_index, 0, h.flags, 0, 0, h.trans_index, Len(data)>>, LogPushLayout)
    \o data
encode_firmware_log_push_ack(ack) ==
  Pack(<<ack.ret_code, ack.log_type, ack.file_index, ack.trans_index>>, <<1, 1, 1, 4>>)
parse_firmware_log_push_ack(data) ==
  LET f == Unpack(data, 0, <<1, 1, 1, 4>>)
  IN IF Len(data) < 7 THEN Err("kTooShort")
     ELSE [ret_code |-> f[1], log_type |-> f[2], file_index |-> f[3], trans_index |-> f[4]]

encode_debug_data_control(req) ==
  <<IF req.enable THEN 1 ELSE 0>> \o req.host_ip \o Pack(<<req.host_port, 0>>, <<2, 2>>)
=============================================================================
