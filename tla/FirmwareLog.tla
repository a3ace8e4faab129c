----------------------------- MODULE FirmwareLog -----------------------------
(***************************************************************************)
(* The firmware log: start_firmware_log() and stop_firmware_log() with     *)
(* their own request over the Context's log socket, the receive thread's   *)
(* on_log() (src/src/device.cpp) and the LogWriter of                      *)
(* examples/collect_firmware_log.cpp.                                      *)
(*                                                                         *)
(* The calls are serialised by cmd_mutex: one is in progress at a time.  A *)
(* chunk is its file and its trans_index.  Of the network: a request, an   *)
(* ACK, a chunk or its ACK may be lost; an ACK of the LiDAR may arrive     *)
(* late and more than once.  The LiDAR is external: it resends a chunk     *)
(* whose ACK it misses (api.md, "Verified on hardware").                   *)
(***************************************************************************)
EXTENDS Naturals, Sequences

CONSTANTS
  SeqMod,        \* 2^32 in the code
  FileMod,       \* 2^8: file_index is a byte
  Attempts,      \* RequestOptions::attempts
  AckFirst,      \* the LiDAR asks for an ACK of the chunks below this index
  EndAsks,       \* ... and of a "file end" chunk
  OldAcks,       \* seqs acknowledged to an earlier Device of this Context, still in flight
  MaxCalls, MaxCancels, MaxChunks, MaxFiles,   \* bounds
  Absent

(* What an ACK may say: the last is one that does not parse. *)
Answers == {"kSuccess", "rejected", "bad"}

ASSUME FirmwareLogAssumption ==
  /\ SeqMod \in Nat /\ SeqMod > MaxCalls + 1 /\ FileMod \in Nat \ {0} /\ Attempts \in Nat
  /\ AckFirst \in Nat /\ EndAsks \in BOOLEAN /\ OldAcks \subseteq 0 .. SeqMod - 1
  /\ MaxCalls \in Nat /\ MaxCancels \in Nat /\ MaxChunks \in Nat /\ MaxFiles \in Nat
  /\ Absent \notin Answers

VARIABLES
  (* the command thread and what it shares with the receive thread *)
  pc, enable, attempt, result,
  log_next_seq, log_seq_wanted, log_ack, log_cancel, log_requested,
  acks,            \* of the LiDAR, in flight
  (* the LiDAR *)
  collecting, files, next,
  resend,          \* the chunk whose ACK it misses
  (* the receive thread and its callback *)
  log_track, gapped, writer, disk,
  calls, cancels, chunks   \* what is left of the bounds

commandVars == <<pc, enable, attempt, result, log_next_seq, log_seq_wanted, log_ack, log_cancel,
                 log_requested, acks, calls, cancels>>
lidarVars == <<files, next, resend, chunks>>
logVars == <<log_track, gapped, writer, disk>>
collectionVars == <<commandVars, collecting, lidarVars, logVars>>

LogInit ==
  /\ pc = "idle" /\ enable = FALSE /\ attempt = 0 /\ result = Absent
  /\ log_next_seq = 1 /\ log_seq_wanted = 0 /\ log_ack = Absent
  /\ log_cancel = FALSE /\ log_requested = FALSE
  /\ acks = OldAcks \X {"kSuccess"}
  /\ collecting = FALSE /\ files = 0 /\ next = 0 /\ resend = Absent
  /\ log_track = [active |-> FALSE, file_index |-> 0, last_trans |-> 0]
  /\ gapped = [i \in 0 .. FileMod - 1 |-> FALSE]
  /\ writer = [open |-> FALSE, file_index |-> 0]
  /\ disk = [i \in 0 .. FileMod - 1 |-> <<>>]
  /\ calls = MaxCalls /\ cancels = MaxCancels /\ chunks = MaxChunks

-----------------------------------------------------------------------------
(* send_log_control_locked().                                              *)

(* Mutant: every request has the same sequence number. *)
NextSeqSame(seq) == seq

(* 0 is skipped when the counter wraps. *)
NextSeq(seq) == IF (seq + 1) % SeqMod = 0 THEN 1 ELSE (seq + 1) % SeqMod

(* A new sequence number; the receive thread is told what to wait for. *)
Begin(e) ==
  /\ pc = "idle" /\ calls > 0
  /\ calls' = calls - 1
  /\ pc' = "send" /\ enable' = e /\ attempt' = 0 /\ result' = Absent
  /\ log_next_seq' = NextSeq(log_next_seq)
  /\ log_seq_wanted' = log_next_seq /\ log_ack' = Absent
  /\ UNCHANGED <<log_cancel, log_requested, acks, cancels, collecting, lidarVars, logVars>>

Return(r) == pc' = "idle" /\ result' = r

(* The top of the loop: cancelled, or sent.  The LiDAR executes the request and acknowledges   *)
(* it, rejects it, sends something else, or does not receive it; or the socket fails.          *)
Send ==
  /\ pc = "send"
  /\ IF log_cancel
       THEN /\ Return("kCancelled") /\ log_cancel' = FALSE
            /\ UNCHANGED <<attempt, acks, collecting, lidarVars>>
       ELSE /\ attempt' = attempt + 1
            /\ UNCHANGED log_cancel
            /\ \/ /\ Return("kTransport") /\ UNCHANGED <<acks, collecting, lidarVars>>
               \/ /\ pc' = "wait" /\ UNCHANGED result
                  /\ \/ UNCHANGED <<acks, collecting, lidarVars>>
                     \/ \E a \in Answers \ {"kSuccess"} :
                          /\ acks' = acks \cup {<<log_seq_wanted, a>>}
                          /\ UNCHANGED <<collecting, lidarVars>>
                     \/ /\ acks' = acks \cup {<<log_seq_wanted, "kSuccess">>}
                        /\ collecting' = enable
                        /\ IF enable /\ ~collecting
                             THEN files' = files + 1 /\ next' = 0 /\ resend' = Absent
                             ELSE UNCHANGED <<files, next, resend>>
                        /\ UNCHANGED chunks
  /\ UNCHANGED <<enable, log_next_seq, log_seq_wanted, log_ack, log_requested, calls, cancels,
                 logVars>>

(* The wait ends: an ACK, a cancel or the timeout. *)
Wake ==
  /\ pc = "wait"
  /\ IF log_ack # Absent
       THEN /\ Return(log_ack)
            /\ log_requested' = IF log_ack = "kSuccess" THEN enable ELSE log_requested
            /\ UNCHANGED log_cancel
       ELSE /\ UNCHANGED log_requested
            /\ log_cancel' = FALSE
            /\ CASE log_cancel -> Return("kCancelled")
                 [] ~log_cancel /\ attempt >= Attempts -> Return("kTimeout")
                 [] OTHER -> pc' = "send" /\ UNCHANGED result
  /\ UNCHANGED <<enable, attempt, log_next_seq, log_seq_wanted, log_ack, acks, calls, cancels,
                 collecting, lidarVars, logVars>>

(* cancel(), the half of it that this call consumes. *)
Cancel ==
  /\ cancels > 0
  /\ cancels' = cancels - 1 /\ log_cancel' = TRUE
  /\ UNCHANGED <<pc, enable, attempt, result, log_next_seq, log_seq_wanted, log_ack,
                 log_requested, acks, calls, collecting, lidarVars, logVars>>

(* on_log(): the ACK waited for is kept, the first one only; it stays in flight, to come again. *)
OnAck ==
  /\ \E a \in acks :
       /\ a[1] = log_seq_wanted /\ log_ack = Absent
       /\ log_ack' = a[2]
  /\ UNCHANGED <<pc, enable, attempt, result, log_next_seq, log_seq_wanted, log_cancel,
                 log_requested, acks, calls, cancels, collecting, lidarVars, logVars>>

-----------------------------------------------------------------------------
(* The pushes.                                                             *)

(* Mutant: a chunk that comes again is no gap. *)
IsGapForward(c) == log_track.active /\ log_track.file_index = c.file_index /\ c.trans_index # 0
                   /\ c.trans_index > log_track.last_trans + 1

(* The check starts over with a "file begin" (trans_index 0) and with a new file. *)
IsGap(c) == log_track.active /\ log_track.file_index = c.file_index /\ c.trans_index # 0
            /\ c.trans_index # log_track.last_trans + 1

(* LogWriter::on_chunk(): the file is opened and truncated, then the chunk appended. *)
Opens(c) == c.trans_index = 0 \/ ~writer.open \/ writer.file_index # c.file_index

(* on_log() with a chunk. *)
OnPush(c) ==
  LET f == c.file_index
      kept == IF Opens(c) THEN <<>> ELSE disk[f]
  IN
  /\ log_track' = [active |-> ~c.end, file_index |-> f, last_trans |-> c.trans_index]
  /\ gapped' = [gapped EXCEPT ![f] = (@ /\ ~Opens(c)) \/ IsGap(c)]
  /\ writer' = [open |-> TRUE, file_index |-> f]
  /\ disk' = [disk EXCEPT ![f] = Append(kept, [file |-> c.file, trans |-> c.trans_index])]

Chunk(end) == [file |-> files, file_index |-> files % FileMod, trans_index |-> next, end |-> end]

(* The LiDAR sends the next chunk: lost or received, its ACK lost or received. *)
LidarPushes(end) ==
  /\ collecting /\ chunks > 0 /\ resend = Absent
  /\ chunks' = chunks - 1
  /\ end => files < MaxFiles /\ (next >= AckFirst \/ EndAsks)
  /\ LET asks == next < AckFirst IN
     \/ /\ OnPush(Chunk(end))
        /\ resend' \in {Absent} \cup IF asks THEN {Chunk(end)} ELSE {}
     \/ /\ resend' = IF asks THEN Chunk(end) ELSE Absent
        /\ UNCHANGED logVars
  /\ IF end THEN files' = files + 1 /\ next' = 0 ELSE UNCHANGED files /\ next' = next + 1
  /\ UNCHANGED <<commandVars, collecting>>

(* It sends a chunk again, or gives up. *)
LidarResends ==
  /\ collecting /\ resend # Absent
  /\ \/ resend' = Absent /\ UNCHANGED <<chunks, logVars>>
     \/ /\ chunks > 0 /\ chunks' = chunks - 1
        /\ OnPush(resend)
        /\ resend' \in {Absent, resend}
  /\ UNCHANGED <<commandVars, collecting, files, next>>

(* ensure_open(), by the main thread. *)
EnsureOpen ==
  /\ ~writer.open /\ log_requested
  /\ writer' = [open |-> TRUE, file_index |-> 0]
  /\ disk' = [disk EXCEPT ![0] = <<>>]
  /\ UNCHANGED <<commandVars, collecting, lidarVars, log_track, gapped>>

LogNext ==
  \/ \E e \in BOOLEAN : Begin(e)
  \/ Send \/ Wake \/ Cancel \/ OnAck
  \/ \E end \in BOOLEAN : LidarPushes(end)
  \/ LidarResends \/ EnsureOpen

LogSpec == LogInit /\ [][LogNext]_collectionVars

-----------------------------------------------------------------------------
(* A call that succeeded means what it says: until the next call the LiDAR collects *)
(* if and only if it was a start, whatever ACKs of earlier calls arrive late        *)
(* (device.cpp:496, 576-579), and the replay after a reconnect agrees.              *)
CollectionKnown ==
  pc = "idle" /\ result = "kSuccess" => collecting = enable /\ log_requested = enable

(* A file that has its "file begin" and for which no gap was reported holds the     *)
(* chunks 0, 1, 2, ... once each, resent ones included (device.cpp:523-540).        *)
GapsReported ==
  \A i \in DOMAIN disk :
    disk[i] # <<>> /\ Head(disk[i]).trans = 0 /\ ~gapped[i] =>
      \A k \in DOMAIN disk[i] : disk[i][k].trans = k - 1

(* api.md:809: the sample "writes one file per firmware log file": a chunk on disk  *)
(* stays there while the LiDAR goes on to other files.                              *)
FileKept ==
  [][\A i \in DOMAIN disk : disk[i] # <<>> /\ disk'[i] # <<>> =>
       Head(disk'[i]).file = Head(disk[i]).file]_collectionVars
==============================================================================
