------------------------------ MODULE Recording ------------------------------
(***************************************************************************)
(* Recording and replay: Lvx2Writer driven by the record tool, then        *)
(* Lvx2Reader driven by Lvx2Player (src/src/lvx2.cpp,                      *)
(* src/tools/cli/record.cpp, replay.cpp).                                  *)
(*                                                                         *)
(* A file is a sequence of cells: a header takes two, so that it can be    *)
(* cut, the points of a package one.  A package is known by its position   *)
(* among the accepted ones.  A write may stop short; a killed recording    *)
(* leaves a prefix of what was written.  The assembler of a played device  *)
(* is the number of packages in its partial frame; it closes frames where  *)
(* it likes and discards the packages that are late, those of a frame it   *)
(* has closed: FrameAssembler has its rules.  Which are late the recorded  *)
(* packages decide, since every pass has a new assembler and reads the     *)
(* same packages.  Times are in units of one frame's duration over         *)
(* Duration and wrap at TimeMod.                                           *)
(***************************************************************************)
EXTENDS Integers, Sequences, FiniteSets

CONSTANTS
  Devices,       \* the devices of the file, a set of lidar_ids
  LidarId,       \* Lvx2PlayOptions::lidar_id, or Unset
  Times,         \* timestamps a packet may carry
  TimeMod,       \* 2^64 in the code
  Jump,          \* kClockJumpNs
  Duration,      \* frame_duration_ms
  MaxPackets, MaxLoops,   \* bounds
  Unset

ASSUME RecordingAssumption ==
  /\ LidarId \in Devices \cup {Unset} /\ Times \subseteq 0 .. TimeMod - 1
  /\ Jump \in Nat /\ Duration \in Nat \ {0} /\ TimeMod \in Nat /\ 2 * Jump < TimeMod
  /\ MaxPackets \in Nat /\ MaxLoops \in Nat /\ Unset \notin Int

HeaderSize == 2
PackageSize == HeaderSize + 1

VARIABLES
  phase,         \* recording, recorded, playing, played
  file,          \* what is in the file, as written
  frame, frame_slot, frame_index, offset, clocks, latest,   \* of the writer
  write_error,
  accepted,      \* packages written, in order: their devices
  late,          \* those of them that an assembler discards
  slots,         \* history: the slots of the frames in the file
  cut,           \* the recording was killed
  reader, device, loops, stopping   \* of the player

writerVars == <<frame, frame_slot, frame_index, offset, clocks, latest, write_error, accepted,
                late, slots>>
playerVars == <<reader, device, loops, stopping>>
recordingVars == <<phase, file, writerVars, cut, playerVars>>

NoReader == [at |-> 0, offset |-> 0, body |-> <<>>, pos |-> 0, truncated |-> FALSE, got |-> <<>>]
NoDevice == [partial |-> 0, points |-> 0, discarded |-> 0, packets |-> 0]

(* Lvx2Writer::open() has written the file header. *)
RecordingInit ==
  /\ phase = "recording"
  /\ file = <<[kind |-> "file", part |-> 1], [kind |-> "file", part |-> 2]>>
  /\ frame = <<>> /\ frame_slot = Unset /\ frame_index = 0 /\ offset = HeaderSize
  /\ clocks = [d \in Devices |-> [base |-> Unset, prev |-> 0]] /\ latest = 0
  /\ write_error = FALSE /\ accepted = <<>> /\ late = {} /\ slots = <<>> /\ cut = FALSE
  /\ reader = NoReader /\ device = [d \in Devices |-> NoDevice] /\ loops = 0 /\ stopping = FALSE

-----------------------------------------------------------------------------
(* The writer.                                                             *)

Package(i) == <<[kind |-> "package", id |-> i, part |-> 1], [kind |-> "package", id |-> i, part |-> 2],
                [kind |-> "points", id |-> i]>>

Header(next) ==
  [p \in 1 .. HeaderSize |->
     [kind |-> "frame", part |-> p, current |-> offset, next |-> next, index |-> frame_index]]

(* flush_frame(): header, then packages; the state moves on only when both are written.  The *)
(* frame that follows begins with `rest`.                                                     *)
Flushed(rest, slot) ==
  LET next == offset + HeaderSize + Len(frame) IN
  /\ file' = file \o Header(next) \o frame
  /\ offset' = next /\ frame_index' = frame_index + 1
  /\ slots' = Append(slots, frame_slot)
  /\ frame' = rest /\ frame_slot' = slot

FlushFails ==
  LET cells == Header(offset + HeaderSize + Len(frame)) \o frame IN
  /\ \E n \in 0 .. Len(cells) - 1 : file' = file \o SubSeq(cells, 1, n)
  /\ UNCHANGED <<offset, frame_index, slots, frame, frame_slot>>

Distance(a, b) == IF a > b THEN a - b ELSE b - a

(* Mutant: a clock that jumps stays where it was on the time line. *)
RejoinsOnce(d, ts) == clocks[d].base = Unset

(* A device's clock joins the time line with its first package and after a jump. *)
Rejoins(d, ts) == clocks[d].base = Unset \/ Distance(ts, clocks[d].prev) > Jump

(* The cast to int64. *)
Signed(x) == IF x >= TimeMod \div 2 THEN x - TimeMod ELSE x

(* Mutant: a package of another slot flushes the open frame, an earlier slot too. *)
PastAny(slot) == frame_slot # Unset /\ slot # frame_slot

(* The package is past the open frame. *)
Past(slot) == frame_slot # Unset /\ slot > frame_slot

(* The on_packet callback of record: after an error nothing is written. *)
Recorded == phase = "recording" /\ ~write_error

(* A package may be late when its device has one before it. *)
MayBeLate(d) == {{}} \cup {{Len(accepted) + 1} : i \in {j \in DOMAIN accepted : accepted[j] = d}}

(* Lvx2Writer::write(). *)
Write(d, ts) ==
  LET base == IF Rejoins(d, ts) THEN (ts - latest) % TimeMod ELSE clocks[d].base
      time == Signed((ts - base) % TimeMod)
      slot == IF time <= 0 THEN 0 ELSE time \div Duration
      package == Package(Len(accepted) + 1)
  IN
  /\ Recorded /\ Len(accepted) < MaxPackets
  /\ clocks' = [clocks EXCEPT ![d] = [base |-> base, prev |-> ts]]
  /\ latest' = IF time > latest THEN time ELSE latest
  /\ \/ /\ Past(slot)
        /\ FlushFails
        /\ write_error' = TRUE
        /\ UNCHANGED <<accepted, late>>
     \/ /\ accepted' = Append(accepted, d)
        /\ \E new \in MayBeLate(d) : late' = late \cup new
        /\ UNCHANGED write_error
        /\ IF Past(slot) THEN Flushed(package, slot)
           ELSE /\ frame' = frame \o package
                /\ frame_slot' = IF frame_slot = Unset THEN slot ELSE frame_slot
                /\ UNCHANGED <<file, offset, frame_index, slots>>
  /\ UNCHANGED <<phase, cut, playerVars>>

(* Lvx2Writer::close(): the open frame is flushed, also after an error. *)
Close ==
  /\ phase = "recording"
  /\ phase' = "recorded"
  /\ IF frame = <<>> THEN UNCHANGED <<file, offset, frame_index, slots, frame, frame_slot, write_error>>
     ELSE \/ Flushed(<<>>, Unset) /\ UNCHANGED write_error
          \/ FlushFails /\ write_error' = TRUE
  /\ UNCHANGED <<clocks, latest, accepted, late, cut, playerVars>>

(* The recording is killed: what was flushed so far is there, or a part of it. *)
Killed ==
  /\ phase = "recording" /\ ~write_error
  /\ phase' = "recorded" /\ cut' = TRUE
  /\ \E n \in 0 .. Len(file) : file' = SubSeq(file, 1, n)
  /\ UNCHANGED <<writerVars, playerVars>>

-----------------------------------------------------------------------------
(* The reader and the player.                                              *)

Played(d) == LidarId \in {Unset, d}

(* Lvx2Reader::open(), the fields that are read later. *)
Opened == [NoReader EXCEPT !.at = HeaderSize, !.offset = HeaderSize]

Fail == phase' = "failed" /\ UNCHANGED <<file, writerVars, cut, playerVars>>

(* Lvx2Player::open() and the start of run(). *)
Open ==
  /\ phase = "recorded"
  /\ \/ /\ Len(file) < HeaderSize /\ Fail
     \/ /\ Len(file) >= HeaderSize
        /\ phase' = "playing" /\ reader' = Opened
        /\ UNCHANGED <<file, writerVars, cut, device, loops, stopping>>

(* The end of a pass: the partial frames are flushed and the pass counted; with `loop` the file *)
(* is opened again and the assemblers are new.                                                   *)
FlushedFrames ==
  [d \in Devices |-> [device[d] EXCEPT !.points = @ + device[d].partial, !.partial = 0]]

(* Mutant: the partial frames end with the assemblers. *)
DroppedFrames == [d \in Devices |-> [device[d] EXCEPT !.partial = 0]]

PassEnds == FlushedFrames

EndPass(r) ==
  /\ device' = PassEnds
  /\ loops' = loops + 1
  /\ \/ phase' = "played" /\ reader' = r
     \/ loops + 1 < MaxLoops /\ reader' = Opened /\ UNCHANGED phase
  /\ UNCHANGED <<file, writerVars, cut, stopping>>

(* Mutant: a body that is cut is not noticed. *)
CutBodyIgnored(size, left) == FALSE

CutBody(size, left) == left < size

(* Mutant: the position in the frame is not reset. *)
PosKept == reader.pos

(* The position in a frame just loaded. *)
PosLoaded == 0

(* load_frame(), when less than a package header is left of the body. *)
LoadFrame ==
  LET r == [reader EXCEPT !.truncated = @ \/ reader.pos # Len(reader.body)]
      left == Len(file) - reader.at
      h == file[reader.at + 1]
      size == h.next - h.current - HeaderSize
      n == IF left - HeaderSize < size THEN left - HeaderSize ELSE size
  IN
  /\ phase = "playing" /\ ~stopping /\ reader.pos + HeaderSize > Len(reader.body)
  /\ \/ left = 0 /\ EndPass(r)
     \/ left \in 1 .. HeaderSize - 1 /\ EndPass([r EXCEPT !.truncated = TRUE])
     \/ /\ left >= HeaderSize
        /\ \/ h.kind = "frame" /\ h.part = 1 /\ h.current = reader.offset
              /\ reader' = [r EXCEPT !.at = @ + HeaderSize + n, !.offset = h.next, !.pos = PosLoaded,
                                     !.body = SubSeq(file, reader.at + HeaderSize + 1,
                                                     reader.at + HeaderSize + n),
                                     !.truncated = @ \/ CutBody(size, left - HeaderSize)]
              /\ UNCHANGED <<phase, file, writerVars, cut, device, loops, stopping>>
           \/ ~(h.kind = "frame" /\ h.part = 1 /\ h.current = reader.offset) /\ Fail

(* The package at pos is what the writer put there. *)
Intact ==
  LET h == reader.body[reader.pos + 1] IN
  h.kind = "package" /\ h.part = 1 /\ reader.body[reader.pos + 2] = [h EXCEPT !.part = 2]

(* push() discards a late package.  In a file with a failed write a package may come twice, *)
(* and any but the first that is taken may be late.                                         *)
Discards(id) ==
  IF write_error THEN IF device[accepted[id]].partial > 0 THEN BOOLEAN ELSE {FALSE}
  ELSE {id \in late}

(* A device that is not played is skipped, the others count the package and give it to their *)
(* assembler, which discards it or takes it and may close its frame before it does.          *)
Feed(id) ==
  LET d == accepted[id]
      counted == [device[d] EXCEPT !.packets = @ + 1]
  IN
  IF Played(d)
    THEN \E discarded \in Discards(id) :
           IF discarded THEN device' = [device EXCEPT ![d] = [counted EXCEPT !.discarded = @ + 1]]
           ELSE \/ device' = [device EXCEPT ![d] = [counted EXCEPT !.partial = @ + 1]]
                \/ device' = [device EXCEPT ![d] =
                                [counted EXCEPT !.points = @ + device[d].partial, !.partial = 1]]
    ELSE UNCHANGED device

(* next_packet() and the step of run() with the package. *)
NextPacket ==
  LET pos == reader.pos IN
  /\ phase = "playing" /\ ~stopping /\ pos + HeaderSize <= Len(reader.body)
  /\ \/ /\ Intact /\ pos + PackageSize <= Len(reader.body)
        /\ reader' = [reader EXCEPT !.pos = pos + PackageSize,
                                    !.got = Append(@, reader.body[pos + 1].id)]
        /\ Feed(reader.body[pos + 1].id)
        /\ UNCHANGED <<phase, file, writerVars, cut, loops, stopping>>
     \/ /\ Intact /\ pos + PackageSize > Len(reader.body)
        /\ EndPass([reader EXCEPT !.truncated = TRUE])
     \/ ~Intact /\ Fail    \* what the bytes of something else spell: an error, or
     \/ /\ ~Intact         \* a package nobody wrote
        /\ reader' = [reader EXCEPT !.pos = Len(reader.body), !.got = Append(@, 0)]
        /\ UNCHANGED <<phase, file, writerVars, cut, device, loops, stopping>>

(* A stop request; run() flushes and does not count the pass. *)
Stop ==
  /\ phase = "playing" /\ ~stopping
  /\ stopping' = TRUE
  /\ UNCHANGED <<phase, file, writerVars, cut, reader, device, loops>>

Stopped ==
  /\ phase = "playing" /\ stopping
  /\ phase' = "played"
  /\ device' = PassEnds
  /\ UNCHANGED <<file, writerVars, cut, reader, loops, stopping>>

RecordingNext ==
  \/ \E d \in Devices, ts \in Times : Write(d, ts)
  \/ Close \/ Killed \/ Open \/ LoadFrame \/ NextPacket \/ Stop \/ Stopped

RecordingSpec == RecordingInit /\ [][RecordingNext]_recordingVars

-----------------------------------------------------------------------------
(* The packages read are those written, in their order, from the first on: no frame *)
(* chain the writer leaves, complete or cut anywhere, makes the reader skip, repeat  *)
(* or invent one (lvx2.cpp:179-202 against 398-435, 511-567).  After a failed write   *)
(* close() writes the frame once more behind the part that was written, and it does   *)
(* not hold: NothingInvented.                                                         *)
ReadsWhatWasWritten ==
  ~write_error => /\ Len(reader.got) <= Len(accepted)
                  /\ \A i \in DOMAIN reader.got : reader.got[i] = i

NothingInvented == \A i \in DOMAIN reader.got : reader.got[i] = i

(* The complete packages of the file. *)
Complete ==
  {i \in DOMAIN accepted : \E k \in DOMAIN file : file[k].kind = "points" /\ file[k].id = i}

(* lvx2.md: "A file cut mid-frame (e.g. a recording that was killed) yields every    *)
(* complete package and then sets `truncated()`"; a file that was closed yields all   *)
(* packages and does not set it.                                                      *)
CutIsTold ==
  phase = "played" /\ ~stopping /\ ~write_error =>
    /\ Len(reader.got) = Cardinality(Complete)
    /\ ~cut => Len(reader.got) = Len(accepted) /\ ~reader.truncated
    /\ reader.truncated <=> (\E k \in 0 .. Len(file) - 1 :
         LET h == file[Len(file) - k] IN h.kind = "frame" /\ h.part = 1 /\ h.next > Len(file)
         /\ \A j \in 0 .. k - 1 : file[Len(file) - j].kind # "frame" \/ file[Len(file) - j].part = 2)

(* The frames of a file only move forward (lvx2.cpp:313-322, 326-337), whatever the  *)
(* clocks do.                                                                         *)
FramesForward ==
  \A i \in 1 .. Len(slots) - 1 : slots[i] < slots[i + 1]

(* A recording is read back as it was written, in its order, up to where it was cut. *)
ReadBack == ReadsWhatWasWritten /\ CutIsTold /\ FramesForward

(* The time line follows the clocks: one package never moves it on by more than a    *)
(* jump, also when a LiDAR restarts or its clock is set, forward or back, over the    *)
(* wrap of the unsigned difference included (lvx2.cpp:313-322).                       *)
TimeLineSteady == [][latest' - latest \in 0 .. Jump]_recordingVars

(* Every pass plays the whole of each chosen device, and the same: the packages of    *)
(* the file are counted once per pass, and their points are delivered in frames        *)
(* except for those of late packages, which no frame takes, when no write failed       *)
(* (lvx2.cpp:651-771, frame_assembler.cpp:173).                                        *)
AllPlayed ==
  phase = "played" =>
    \A d \in Devices :
      LET mine == {i \in Complete : accepted[i] = d}
          passes == IF Played(d) THEN loops ELSE 0
      IN
      /\ device[d].points + device[d].discarded = device[d].packets
      /\ ~stopping /\ ~write_error => /\ device[d].packets = passes * Cardinality(mine)
                                      /\ device[d].discarded = passes * Cardinality(mine \cap late)
==============================================================================
