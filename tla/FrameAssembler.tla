--------------------------- MODULE FrameAssembler ---------------------------
(***************************************************************************)
(* How the point packets of one LiDAR become Frames:                       *)
(* src/src/frame_assembler.cpp (DropCounter, TimeMapper, FrameAssembler)   *)
(* and Frame, FramePolicy of include/livox/mid360/frame.hpp.               *)
(*                                                                         *)
(* The LiDAR numbers its packets (udp_cnt, frame_cnt) and stamps them with *)
(* a clock that synchronisation may move.  The network delivers any of the *)
(* last InFlight packets in any order, more than once or never.  Both are  *)
(* the environment, external to the code.                                  *)
(*                                                                         *)
(* Widths are constants: UdpMod stands for 2^16, MaxOffset for 2^32 - 1,   *)
(* FrameMod for 2^8.  A point is its offset and the header of its packet;  *)
(* coordinates are left out.                                               *)
(***************************************************************************)
EXTENDS Integers, Sequences, FiniteSets

CONSTANTS
  UdpMod,           \* number of values of udp_cnt, even
  FrameMod,         \* number of values of frame_cnt
  MaxOffset,        \* largest Point::offset_ns
  Span,             \* time_interval * 100: first to last sample of a packet
  Policies,         \* the FramePolicy values in use
  TimestampPolicy,  \* "kLidar", "kHostOffsetOnce" or "kHostReceive"
  DotNums,          \* header dot_num values
  DataTypes,        \* point formats
  TimeTypes,        \* "kNoSync" and the synchronised ones
  Steps,            \* host time between two packets
  Skews,            \* LiDAR clock minus host clock, over time
  FrameEnds,        \* subset of BOOLEAN: may the LiDAR begin a new frame
  PerFrameReset,    \* the LiDAR restarts udp_cnt at 0 with every frame
  UdpStart,         \* first udp_cnt
  MaxPackets,       \* bound on packets sent
  MaxArrivals,      \* bound on packets received
  MaxCalls,         \* bound on the other operations called
  InFlight,         \* packets the network may still deliver, and reorder
  Start,            \* host time at the beginning
  None

ASSUME FrameAssemblerAssumption ==
  /\ UdpMod \in Nat /\ FrameMod \in Nat \ {0} /\ UdpMod > 1
  /\ DotNums \subseteq Nat /\ Steps \subseteq Nat /\ Skews \subseteq Int
  /\ UdpStart \in Nat /\ InFlight \in Nat /\ Start \in Int
  /\ Span \in Nat /\ MaxOffset \in Nat /\ Span <= MaxOffset
  /\ Policies \subseteq [mode : {"kFrameCounter", "kTimeWindow"}, window : Nat \ {0}]
  /\ 0 \in Skews /\ \A k \in Skews : Start + k > 0
  /\ None \notin Int \cup DataTypes \cup TimeTypes

VARIABLES
  policy,                  \* policy_
  time,                    \* time_: offset_ and synced_
  drops,                   \* drops_: have_ and last_
  counters,                \* counters_
  cur,                     \* cur_
  next_index,              \* next_index_
  prev,                    \* have_prev_, prev_frame_cnt_, prev_data_type_
  frame_cnt_changed_ever,  \* frame_cnt_changed_ever_
  fallback,                \* fallback_
  first_time,              \* first_time_, None when empty
  window_start,            \* window_start_
  out,                     \* the frames the last operation returned (0 or 1)
  lidar,                   \* the sender: next packet number, udp, frame, clock
  now,                     \* host time
  net,                     \* packets the network may deliver
  arrivals, calls,         \* packets received, other operations called
  hist, truth              \* history, see below

state == <<policy, time, drops, counters, cur, next_index, prev,
           frame_cnt_changed_ever, fallback, first_time, window_start>>
vars == <<state, out, lidar, now, net, arrivals, calls, hist, truth>>

(***************************************************************************)
(* hist follows the assembler, for the properties only: `top`, the         *)
(* unbounded number behind drops.last; `delivered`, points in returned     *)
(* frames; `origin` and `since`, the window start at the last close that   *)
(* was not by time and the frames closed by time after it; `frame`, the    *)
(* unbounded frame number behind prev.frame_cnt, and `windowed`, whether   *)
(* that packet joined its frame by the time window; `packet`, the packet   *)
(* of the last push, and `skipped`, whether push discarded it as late.     *)
(*                                                                         *)
(* truth follows the packets, by the numbers the LiDAR gave them and no    *)
(* rule of the code: `newest`, the highest number received since rebase(), *)
(* None before the first; `lost`, the numbers passed over; `late`, the     *)
(* packets not above the newest; `misread`, whether a packet that was not  *)
(* the next one ever looked like the restart of udp_cnt with a frame.      *)
(***************************************************************************)

EmptyFrame == [points |-> <<>>, index |-> 0, base_time |-> 0, end_time |-> 0,
               packets |-> 0, dropped |-> 0, frame_cnt |-> 0,
               source_type |-> None, time_type |-> None]

Init ==
  /\ policy \in Policies
  /\ time = [offset |-> None, synced |-> FALSE]
  /\ drops = [have |-> FALSE, last |-> 0]
  /\ counters = [packets |-> 0, points |-> 0, frames |-> 0, dropped |-> 0,
                 reordered |-> 0, frame_cnt_fallback |-> 0, type_switch_gaps |-> 0]
  /\ cur = EmptyFrame
  /\ next_index = 0
  /\ prev = [have |-> FALSE, frame_cnt |-> 0, data_type |-> "kImu"]
  /\ frame_cnt_changed_ever = FALSE
  /\ fallback = FALSE
  /\ first_time = None
  /\ window_start = 0
  /\ out = <<>>
  /\ lidar = [n |-> 0, udp |-> UdpStart, frame |-> 0, skew |-> 0,
              data_type |-> None, time_type |-> None]
  /\ now = Start
  /\ net = {}
  /\ arrivals = 0
  /\ calls = 0
  /\ hist = [top |-> 0, delivered |-> 0, origin |-> 0, since |-> 0, frame |-> 0,
             windowed |-> FALSE, packet |-> None, skipped |-> FALSE]
  /\ truth = [newest |-> None, lost |-> 0, late |-> 0, misread |-> FALSE]

\* The history after a step that pushes no packet.
Quiet == [hist EXCEPT !.packet = None, !.skipped = FALSE]

-----------------------------------------------------------------------------
(* The LiDAR and the network (external) *)

\* The LiDAR sends its next packet, of a new frame or not.  A Mid-360 skips one
\* udp_cnt when the point format changes; the documentation of the header restarts
\* udp_cnt with the frame.
Begins(new) == new /\ lidar.n > 0

SentFrame(new) == lidar.frame + (IF Begins(new) THEN 1 ELSE 0)

SentUdp(new, d) ==
  IF Begins(new) /\ PerFrameReset THEN 0
  ELSE lidar.udp + (IF lidar.data_type \notin {d, None} THEN 1 ELSE 0)

Sent(new, d, t, timestamp, dots) ==
  [n |-> lidar.n, udp |-> SentUdp(new, d), udp_cnt |-> SentUdp(new, d) % UdpMod,
   frame |-> SentFrame(new), frame_cnt |-> SentFrame(new) % FrameMod,
   timestamp |-> timestamp, dot_num |-> dots, data_type |-> d, time_type |-> t]

Send ==
  /\ lidar.n < MaxPackets
  /\ \E step \in Steps, new \in FrameEnds, d \in DataTypes, t \in TimeTypes,
        k \in Skews, dots \in DotNums :
       /\ t = lidar.time_type => k = lidar.skew \/ t # "kNoSync"
       /\ now' = now + step
       /\ net' = {h \in net : h.n > lidar.n - InFlight}
                   \cup {Sent(new, d, t, now + step + k, dots)}
       /\ lidar' = [n |-> lidar.n + 1, udp |-> SentUdp(new, d) + 1,
                    frame |-> SentFrame(new), skew |-> k, data_type |-> d,
                    time_type |-> t]
  /\ out' = <<>>
  /\ hist' = Quiet
  /\ UNCHANGED <<state, arrivals, calls, truth>>

-----------------------------------------------------------------------------
(* DropCounter and TimeMapper *)

\* Mutant: half a cycle is taken as reordered.
ObserveAtHalf(udp_cnt, frame_changed) ==
  LET gap == (udp_cnt - (drops.last + 1)) % UdpMod
      in_sequence == ~drops.have \/ gap = 0 \/ (udp_cnt = 0 /\ frame_changed)
      reordered == ~in_sequence /\ gap >= UdpMod \div 2
  IN [dropped |-> IF in_sequence \/ reordered THEN 0 ELSE gap,
      reordered |-> reordered,
      drops |-> IF reordered THEN drops ELSE [have |-> TRUE, last |-> udp_cnt]]

\* DropCounter::observe
Observe(udp_cnt, frame_changed) ==
  LET gap == (udp_cnt - (drops.last + 1)) % UdpMod
      in_sequence == ~drops.have \/ gap = 0 \/ (udp_cnt = 0 /\ frame_changed)
      reordered == ~in_sequence /\ gap > UdpMod \div 2
  IN [dropped |-> IF in_sequence \/ reordered THEN 0 ELSE gap,
      reordered |-> reordered,
      drops |-> IF reordered THEN drops ELSE [have |-> TRUE, last |-> udp_cnt]]

\* TimeMapper::map
Map(h, recv_time) ==
  LET measure == time.offset = None \/ time.synced
      offset == IF measure THEN recv_time - h.timestamp ELSE time.offset
  IN CASE TimestampPolicy = "kLidar" -> [t0 |-> h.timestamp, time |-> time]
       [] TimestampPolicy = "kHostReceive" -> [t0 |-> recv_time, time |-> time]
       [] OTHER ->
            IF h.time_type # "kNoSync"
              THEN [t0 |-> h.timestamp, time |-> [time EXCEPT !.synced = TRUE]]
              ELSE [t0 |-> h.timestamp + offset,
                    time |-> [offset |-> offset, synced |-> FALSE]]

-----------------------------------------------------------------------------
(* FrameAssembler *)

time_window_active == policy.mode = "kTimeWindow" \/ fallback

\* take_frame(): `f` is returned, numbered.
Taken(f) == [f EXCEPT !.index = next_index]

FrameChanged(h) == prev.have /\ h.frame_cnt # prev.frame_cnt

\* A gap of one at a change of the point format is the LiDAR's skip, not a loss.
TypeSwitch(h) ==
  /\ Observe(h.udp_cnt, FrameChanged(h)).dropped = 1
  /\ prev.have /\ h.data_type # prev.data_type

Dropped(h) ==
  IF TypeSwitch(h) THEN 0 ELSE Observe(h.udp_cnt, FrameChanged(h)).dropped

\* Mutant: any packet of another frame is late.
LateAnyFrame(h) == FrameChanged(h) /\ ~time_window_active

\* A late packet of an earlier frame.
Late(h) ==
  /\ Observe(h.udp_cnt, FrameChanged(h)).reordered
  /\ FrameChanged(h)
  /\ ~time_window_active

\* The counters every packet moves, accepted or late.
Counted(h) ==
  [counters EXCEPT
     !.type_switch_gaps = @ + (IF TypeSwitch(h) THEN 1 ELSE 0),
     !.dropped = @ + Dropped(h),
     !.reordered = @ + (IF Observe(h.udp_cnt, FrameChanged(h)).reordered THEN 1 ELSE 0)]

\* The number behind drops.last, which a packet that looks like the restart moves too.
Restarts(h) == ~drops.have \/ (h.udp_cnt = 0 /\ FrameChanged(h))

Behind(h) == ~Restarts(h) /\ h.udp <= hist.top

Witnessed(h) ==
  [hist EXCEPT !.top = IF Behind(h) THEN @ ELSE h.udp, !.packet = h, !.skipped = FALSE]

\* The packet by its true number.
Overtaken(h) == truth.newest # None /\ h.udp <= truth.newest

Missing(h) ==
  IF truth.newest = None \/ Overtaken(h) THEN 0 ELSE h.udp - truth.newest - 1

Misread(h) ==
  /\ truth.newest # None /\ h.udp # truth.newest + 1
  /\ h.udp_cnt = 0 /\ FrameChanged(h)

Received(h) ==
  [newest |-> IF Overtaken(h) THEN truth.newest ELSE h.udp,
   lost |-> truth.lost + Missing(h),
   late |-> truth.late + (IF Overtaken(h) THEN 1 ELSE 0),
   misread |-> truth.misread \/ Misread(h)]

\* push() returns at once: an IMU packet, or one without points.
NoPoints(h) == h.data_type = "kImu" \/ h.dot_num = 0

PushEmpty(h) ==
  /\ NoPoints(h)
  /\ out' = <<>>
  /\ hist' = Quiet
  /\ UNCHANGED <<state, truth>>

\* push() discards a late packet of an earlier frame.
PushLate(h) ==
  /\ ~NoPoints(h)
  /\ Late(h)
  /\ time' = Map(h, now).time
  /\ drops' = Observe(h.udp_cnt, FrameChanged(h)).drops
  /\ counters' = Counted(h)
  /\ out' = <<>>
  /\ hist' = [Witnessed(h) EXCEPT !.skipped = TRUE]
  /\ truth' = Received(h)
  /\ UNCHANGED <<policy, cur, next_index, prev, frame_cnt_changed_ever, fallback,
                 first_time, window_start>>

\* Mutants: a close is missing.
ForcedCloseNoFormat(h, t0) ==
  \/ h.time_type # cur.time_type
  \/ t0 + policy.window <= cur.base_time
  \/ t0 >= cur.base_time /\ t0 - cur.base_time + Span > MaxOffset
ForcedCloseNoStepBack(h, t0) ==
  \/ h.data_type # cur.source_type
  \/ h.time_type # cur.time_type
  \/ t0 >= cur.base_time /\ t0 - cur.base_time + Span > MaxOffset

\* The closes common to both modes: point format, time base, a clock stepped back
\* by a window or more, an offset that would not fit.
ForcedClose(h, t0) ==
  \/ h.data_type # cur.source_type
  \/ h.time_type # cur.time_type
  \/ t0 + policy.window <= cur.base_time
  \/ t0 >= cur.base_time /\ t0 - cur.base_time + Span > MaxOffset

NewFrame(h, t0) ==
  [EmptyFrame EXCEPT !.base_time = t0, !.end_time = t0, !.frame_cnt = h.frame_cnt,
                     !.source_type = h.data_type, !.time_type = h.time_type]

\* sample_timestamp_ns(): the time of sample i of the packet, from 1.
Sample(h, t0, i) ==
  t0 + (IF h.dot_num <= 1 \/ i = 1 THEN 0 ELSE (Span * (i - 1)) \div (h.dot_num - 1))

\* append(): a point before the base time of the frame has offset 0; one beyond the
\* width of the field has the largest.
Offset(base_time, ts) ==
  LET off == IF ts >= base_time THEN ts - base_time ELSE 0
  IN IF off <= MaxOffset THEN off ELSE MaxOffset

SamplePoints(base_time, h, t0, by_window) ==
  [i \in 1..h.dot_num |->
     [offset |-> Offset(base_time, Sample(h, t0, i)), ts |-> Sample(h, t0, i),
      frame_cnt |-> h.frame_cnt, data_type |-> h.data_type, time_type |-> h.time_type,
      by_window |-> by_window]]

\* The packet and its points join `f`.
Appended(f, h, t0, by_window) ==
  LET last == Sample(h, t0, h.dot_num)
  IN [f EXCEPT !.points = @ \o SamplePoints(f.base_time, h, t0, by_window),
               !.end_time = IF last > @ THEN last ELSE @,
               !.dropped = @ + Dropped(h),
               !.packets = @ + 1]

\* Mutant: every window starts at the packet that opens it.
WindowStartAtPacket(on_grid, t0) == t0

\* The start of the window of a new frame: on the grid of the previous window when
\* that one was closed by time, at the packet otherwise.
WindowStart(on_grid, t0) ==
  IF on_grid
    THEN window_start + policy.window * ((t0 - window_start) \div policy.window)
    ELSE t0

\* The time of the packet, and the earliest one since set_policy().
T0(h) == Map(h, now).t0

FirstTime(h) ==
  IF first_time = None THEN T0(h) ELSE IF T0(h) < first_time THEN T0(h) ELSE first_time

\* frame_cnt has not changed for two windows: from now on frames close by time.
Watching == policy.mode = "kFrameCounter" /\ ~fallback

FallsBack(h) ==
  /\ Watching
  /\ ~FrameChanged(h)
  /\ ~frame_cnt_changed_ever
  /\ T0(h) >= FirstTime(h) + 2 * policy.window

ByWindow(h) == time_window_active \/ FallsBack(h)

\* Whether the packet closes the partial frame, and whether the window of the next
\* frame continues the grid of the closed one.
Partial == cur.points # <<>>

Expired(h) == ByWindow(h) /\ T0(h) >= window_start + policy.window

Forced(h) == Partial /\ ForcedClose(h, T0(h))

Closes(h) ==
  /\ Partial
  /\ Forced(h) \/ (IF ByWindow(h) THEN Expired(h) ELSE FrameChanged(h))

OnGrid(h) == Closes(h) /\ Expired(h) /\ ~Forced(h)

Fresh(h) == Closes(h) \/ ~Partial

\* push() adds the packet, to the current frame or to a new one.
PushAccept(h) ==
  /\ ~NoPoints(h)
  /\ ~Late(h)
  /\ time' = Map(h, now).time
  /\ drops' = Observe(h.udp_cnt, FrameChanged(h)).drops
  /\ first_time' = FirstTime(h)
  /\ frame_cnt_changed_ever' = (frame_cnt_changed_ever \/ (Watching /\ FrameChanged(h)))
  /\ fallback' = (fallback \/ FallsBack(h))
  /\ out' = IF Closes(h) THEN <<Taken(cur)>> ELSE <<>>
  /\ next_index' = next_index + (IF Closes(h) THEN 1 ELSE 0)
  /\ window_start' = IF Fresh(h) THEN WindowStart(OnGrid(h), T0(h)) ELSE window_start
  /\ cur' = Appended(IF Fresh(h) THEN NewFrame(h, T0(h)) ELSE cur, h, T0(h), ByWindow(h))
  /\ counters' = [Counted(h) EXCEPT
                    !.frames = @ + (IF Closes(h) THEN 1 ELSE 0),
                    !.packets = @ + 1,
                    !.points = @ + h.dot_num,
                    !.frame_cnt_fallback = @ + (IF FallsBack(h) THEN 1 ELSE 0)]
  /\ prev' = [have |-> TRUE, frame_cnt |-> h.frame_cnt, data_type |-> h.data_type]
  /\ hist' = [Witnessed(h) EXCEPT
                !.delivered = @ + (IF Closes(h) THEN Len(cur.points) ELSE 0),
                !.origin = IF Fresh(h) /\ ~OnGrid(h) THEN T0(h) ELSE @,
                !.since = IF OnGrid(h) THEN @ + 1 ELSE IF Fresh(h) THEN 0 ELSE @,
                !.frame = h.frame,
                !.windowed = ByWindow(h) \/ (@ /\ h.udp <= hist.top)]
  /\ truth' = Received(h)
  /\ UNCHANGED policy

\* The network delays no packet by, and loses no run of, half a cycle of udp_cnt
\* (external: 2^15 packets are 15 s of a Mid-360; a longer gap is a reconnection,
\* after which rebase() is called).
WithinHalfCycle(h) ==
  drops.have /\ ~PerFrameReset
    => h.udp - hist.top - 1 \in (1 - UdpMod \div 2)..(UdpMod \div 2)

\* An IMU packet, which push() ignores.
ImuPacket == [udp |-> hist.top + 1, data_type |-> "kImu", dot_num |-> 1]

\* A packet arrives: push() is called with it.
Arrive ==
  /\ arrivals < MaxArrivals
  /\ arrivals' = arrivals + 1
  /\ \E h \in net \cup {ImuPacket} :
       /\ WithinHalfCycle(h)
       /\ \/ PushEmpty(h)
          \/ PushLate(h)
          \/ PushAccept(h)
  /\ UNCHANGED <<lidar, now, net, calls>>

\* flush()
Flush ==
  /\ out' = IF Partial THEN <<Taken(cur)>> ELSE <<>>
  /\ cur' = IF Partial THEN EmptyFrame ELSE cur
  /\ next_index' = next_index + (IF Partial THEN 1 ELSE 0)
  /\ counters' = [counters EXCEPT !.frames = @ + (IF Partial THEN 1 ELSE 0)]
  /\ hist' = [Quiet EXCEPT !.delivered = @ + Len(cur.points)]
  /\ UNCHANGED <<policy, time, drops, prev, frame_cnt_changed_ever, fallback,
                 first_time, window_start, truth>>

\* discard()
Discard ==
  /\ counters' = [counters EXCEPT !.points = @ - Len(cur.points)]
  /\ cur' = [cur EXCEPT !.points = <<>>, !.packets = 0, !.dropped = 0]
  /\ out' = <<>>
  /\ hist' = Quiet
  /\ UNCHANGED <<policy, time, drops, next_index, prev, frame_cnt_changed_ever,
                 fallback, first_time, window_start, truth>>

\* rebase(): TimeMapper::reset and DropCounter::reset
Rebase ==
  /\ time' = [offset |-> None, synced |-> FALSE]
  /\ drops' = [drops EXCEPT !.have = FALSE]
  /\ out' = <<>>
  /\ hist' = Quiet
  /\ truth' = [truth EXCEPT !.newest = None]
  /\ UNCHANGED <<policy, counters, cur, next_index, prev, frame_cnt_changed_ever,
                 fallback, first_time, window_start>>

\* set_policy()
SetPolicy ==
  /\ policy' \in Policies
  /\ fallback' = FALSE
  /\ frame_cnt_changed_ever' = FALSE
  /\ first_time' = None
  /\ out' = <<>>
  /\ hist' = [Quiet EXCEPT !.origin = window_start, !.since = 0]
  /\ UNCHANGED <<time, drops, counters, cur, next_index, prev, window_start, truth>>

Call ==
  /\ calls < MaxCalls
  /\ calls' = calls + 1
  /\ \/ Flush
     \/ Discard
     \/ Rebase
     \/ SetPolicy
  /\ UNCHANGED <<lidar, now, net, arrivals>>

Next == Send \/ Arrive \/ Call

Spec == Init /\ [][Next]_vars

-----------------------------------------------------------------------------
(* Properties *)

Points ==
  Seq([offset : 0..MaxOffset, ts : Int, frame_cnt : 0..FrameMod - 1,
       data_type : DataTypes, time_type : TimeTypes, by_window : BOOLEAN])

\* Every member of the assembler has its type; counters never go below zero.
TypeOK ==
  /\ policy \in Policies
  /\ time.offset \in Int \cup {None} /\ time.synced \in BOOLEAN
  /\ drops \in [have : BOOLEAN, last : 0..UdpMod - 1]
  /\ \A c \in DOMAIN counters : counters[c] \in Nat
  /\ \A f \in {cur} \cup {out[i] : i \in DOMAIN out} :
       /\ f.points \in Points
       /\ f.index \in Nat /\ f.packets \in Nat /\ f.dropped \in Nat
       /\ f.base_time \in Nat /\ f.end_time \in Nat
       /\ f.source_type \in DataTypes \cup {None}
       /\ f.time_type \in TimeTypes \cup {None}
  /\ next_index \in Nat
  /\ prev.have \in BOOLEAN /\ prev.frame_cnt \in 0..FrameMod - 1
  /\ frame_cnt_changed_ever \in BOOLEAN /\ fallback \in BOOLEAN
  /\ first_time \in Int \cup {None} /\ window_start \in Nat

\* The points counted are the points returned plus the points of the partial frame,
\* so that the subtraction in discard() never wraps, and frames are numbered without
\* a hole: whatever flush(), discard(), rebase() and set_policy() do between packets.
PointsConserved ==
  /\ counters.points = hist.delivered + Len(cur.points)
  /\ counters.frames = next_index
  /\ \A i \in DOMAIN out : out[i].index = next_index - 1 /\ out[i].points # <<>>

\* The counters agree with the numbers the LiDAR gave its packets: every number passed
\* over is counted once, as a drop or as the skip at a change of format, and every
\* packet not above the newest as reordered.  Not so when a packet with udp_cnt 0 of
\* another frame comes late or after a loss: FramesAsTold.cfg.
DropsCountedEver ==
  /\ counters.dropped + counters.type_switch_gaps = truth.lost
  /\ counters.reordered = truth.late

\* They agree, across every wrap of the 16-bit number, as long as no packet has been
\* misread as the restart of udp_cnt with a frame (frame_assembler.cpp:26).
DropsCounted == ~truth.misread => DropsCountedEver

\* No point is counted twice or lost from the statistics, and no packet while none was
\* misread.
CountsExact == PointsConserved /\ DropsCounted

\* A frame has one point format and one time base, the ones of its header; and unless
\* a point joined it by the time window, all its points come from one frame_cnt.
FrameUniform ==
  \A f \in {cur} \cup {out[i] : i \in DOMAIN out} :
    \A i \in DOMAIN f.points :
      /\ f.points[i].data_type = f.source_type
      /\ f.points[i].time_type = f.time_type
      /\ (\A j \in DOMAIN f.points : ~f.points[j].by_window)
           => f.points[i].frame_cnt = f.frame_cnt

\* The clamp of offset_ns in append() only ever acts on points before the base time:
\* no offset is cut off at the width of the field, and the end time is the latest
\* point's or, when all are earlier, the base time.
OffsetsExact ==
  \A f \in {cur} \cup {out[i] : i \in DOMAIN out} :
    /\ \A i \in DOMAIN f.points :
         /\ f.points[i].offset = (IF f.points[i].ts >= f.base_time
                                    THEN f.points[i].ts - f.base_time ELSE 0)
         /\ f.points[i].ts <= f.end_time
    /\ f.points # <<>> => f.end_time - f.base_time <= MaxOffset

\* The header of a frame is true of each of its points.
HeaderTrue == FrameUniform /\ OffsetsExact

\* Time windows do not drift (#260): after any number of frames closed by time the
\* window start is on the grid of the first one and has advanced by at least one
\* window per frame, and it never lies after the base time of the frame.
NoDrift ==
  cur.points # <<>> =>
    /\ window_start <= cur.base_time
    /\ window_start >= hist.origin + hist.since * policy.window
    /\ hist.since > 0 => (window_start - hist.origin) % policy.window = 0

\* Under the time window, a packet that joins a frame lies less than a window after
\* the window start and less than a window before the base time, whatever the order
\* of arrival and the steps of the clock.
WindowHolds ==
  [][LET p == cur'.points[Len(cur'.points)]
     IN (counters'.packets > counters.packets /\ p.by_window)
          => /\ p.ts - Span < window_start' + policy.window
             /\ p.ts + policy.window > cur'.base_time]_vars

\* A packet that push() discards as "a late packet of a frame already delivered"
\* (#131) is from an earlier frame than the packet accepted last, unless that one was
\* accepted by the time window, which takes late packets too, before set_policy().
DiscardedIsOlder ==
  hist.skipped /\ ~hist.windowed => hist.packet.frame < hist.frame

\* The point counter of DeviceStats is "monotonic since open()".
PointsMonotonic == [][counters'.points >= counters.points]_vars

\* In kFrameCounter mode a packet behind the newest one, of another frame, "neither
\* splits the current frame nor starts a frame of its own" (#131).
LateNeverSplits ==
  [][LET h == hist'.packet
     IN (/\ h # None
         /\ truth.newest # None /\ prev.have
         /\ h.udp < truth.newest /\ h.frame # hist.frame
         /\ policy.mode = "kFrameCounter" /\ ~fallback')
        => cur' = cur /\ out' = <<>>]_vars

=============================================================================
