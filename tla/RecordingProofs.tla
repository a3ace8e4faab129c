--------------------------- MODULE RecordingProofs ---------------------------
(***************************************************************************)
(* Proofs about Recording, for every set of devices, every choice of time  *)
(* stamps and every number of packages and passes: the time line of a      *)
(* recording (ClockInv), the file that the writer leaves, complete or cut  *)
(* anywhere (FileInv, SlotInv), what a reader makes of it (ReaderInv) and  *)
(* what the devices of the player get (DeviceInv, CountInv).               *)
(***************************************************************************)
EXTENDS Recording, TLAPS

-----------------------------------------------------------------------------
(* The clocks: the time of a device's last package on the time line. *)
TimeOf(d) == Signed((clocks[d].prev - clocks[d].base) % TimeMod)

(* A device's time is at most the latest.  It cannot have wandered below the least signed time by *)
(* steps within a jump, unless the time line is at its end anyway.                                *)
ClockInv ==
  /\ accepted \in Seq(Devices) /\ Len(accepted) <= MaxPackets /\ write_error \in BOOLEAN
  /\ DOMAIN clocks = Devices
  /\ latest \in 0 .. TimeMod \div 2
  /\ \A d \in Devices : clocks[d].base # Unset =>
       /\ clocks[d].base \in 0 .. TimeMod - 1 /\ clocks[d].prev \in 0 .. TimeMod - 1
       /\ TimeOf(d) <= latest
       /\ ~write_error => \/ TimeOf(d) + Len(accepted) * Jump >= 0
                          \/ latest + Jump >= (TimeMod \div 2) - 1

(* The remainder of a difference of two times is the difference, or TimeMod more. *)
LEMMA Wraps ==
  ASSUME NEW m \in Nat, m > 0, NEW a \in Int, -m < a, a < m
  PROVE  /\ a >= 0 => a % m = a
         /\ a < 0 => a % m = a + m
<1>1. CASE a >= 0
  <2>1. a = 0 * m + a /\ a \in 0 .. m - 1
    BY <1>1
  <2>2. QED
    BY <1>1, <2>1
<1>2. CASE a < 0
  <2>1. a = (-1) * m + (a + m) /\ a + m \in 0 .. m - 1
    BY <1>2
  <2>2. QED
    BY <1>2, <2>1
<1>3. QED
  BY <1>1, <1>2, Zenon

(* The signed difference of two times is the difference up to a wrap. *)
LEMMA SignedDiff ==
  ASSUME NEW M \in Nat, TimeMod = M, NEW D \in Nat, D = M \div 2, D < M,
         NEW a \in 0 .. M - 1, NEW b \in 0 .. M - 1
  PROVE  /\ Signed((a - b) % TimeMod) \in (D - M) .. (D - 1)
         /\ \/ Signed((a - b) % TimeMod) = a - b
            \/ Signed((a - b) % TimeMod) = a - b - M
            \/ Signed((a - b) % TimeMod) = a - b + M
<1>1. /\ a - b >= 0 => (a - b) % M = a - b
      /\ a - b < 0 => (a - b) % M = a - b + M
  BY Wraps
<1>2. PICK u \in 0 .. M - 1 : u = (a - b) % M /\ (u = a - b \/ u = a - b + M)
  BY <1>1
<1>3. Signed((a - b) % TimeMod) = (IF u >= D THEN u - M ELSE u)
  BY <1>2, Zenon DEF Signed
<1>4. QED
  BY <1>2, <1>3

(* A clock that joins is at the latest time, unless that is past the largest signed one. *)
LEMMA JoinStep ==
  ASSUME NEW t \in 0 .. TimeMod - 1, NEW l \in 0 .. TimeMod \div 2, NEW M \in Nat, TimeMod = M, M > 0
  PROVE  LET b == (t - l) % TimeMod
             y == Signed((t - b) % TimeMod)
         IN  /\ b \in 0 .. TimeMod - 1
             /\ y \in Int /\ y <= l
             /\ y >= 0 \/ l >= TimeMod \div 2
<1>1. l < M /\ l \in Nat
  OBVIOUS
<1>2. /\ t - l >= 0 => (t - l) % M = t - l
      /\ t - l < 0 => (t - l) % M = t - l + M
  BY <1>1, Wraps
<1>3. PICK b \in 0 .. M - 1 : b = (t - l) % M
  BY <1>1, <1>2
<1>4. /\ t - b >= 0 => (t - b) % M = t - b
      /\ t - b < 0 => (t - b) % M = t - b + M
  BY Wraps
<1>5. (t - b) % M = l
  BY <1>1, <1>2, <1>3, <1>4
<1>6. QED
  BY <1>1, <1>3, <1>5 DEF Signed

(* Two such differences to the same base. *)
LEMMA DiffStep ==
  ASSUME NEW M \in Nat, NEW D \in Nat, NEW b \in 0 .. M - 1, NEW p \in 0 .. M - 1, NEW t \in 0 .. M - 1,
         NEW x \in (D - M) .. (D - 1), x = p - b \/ x = p - b - M \/ x = p - b + M,
         NEW y \in (D - M) .. (D - 1), y = t - b \/ y = t - b - M \/ y = t - b + M
  PROVE  /\ x \in Int /\ D - M <= x /\ x < D
         /\ y \in Int /\ D - M <= y /\ y < D
         /\ y = x + (t - p) \/ y = x + (t - p) - M \/ y = x + (t - p) + M
OBVIOUS

LEMMA StillBehind ==
  ASSUME NEW x \in Int, NEW l \in Int, NEW k \in Int, NEW J \in Nat, NEW D \in Nat, NEW E \in Int,
         x <= l, l <= k, x + E >= 0 \/ l + J >= D - 1
  PROVE  x <= k /\ (x + (E + J) >= 0 \/ k + J >= D - 1)
OBVIOUS

LEMMA LaterStill ==
  ASSUME NEW l \in Int, NEW k \in Int, NEW J \in Nat, NEW D \in Nat, l <= k, l + J >= D - 1
  PROVE  k + J >= D - 1
OBVIOUS

(* The signed time of the next package, in terms of that of the last. *)
LEMMA TimeBounds ==
  ASSUME NEW M \in Nat, NEW D \in Nat, NEW J \in Nat, NEW E \in Nat, NEW l \in 0 .. D,
         NEW x \in Int, NEW y \in Int, NEW t \in Int, NEW p \in Int,
         2 * D <= M, E + J <= D, t - p <= J, p - t <= J, x <= l, y < D, D - M <= y,
         x + E >= 0 \/ l + J >= D - 1,
         y = x + (t - p) \/ y = x + (t - p) - M \/ y = x + (t - p) + M
  PROVE  /\ y <= D /\ y <= l + J
         /\ y + (E + J) >= 0 \/ l + J >= D - 1
OBVIOUS

(* No clock can wander half the range of its times in steps within a jump. *)
ShortRecording == MaxPackets * Jump <= TimeMod \div 2

(* The base and the time that write() computes. *)
BaseAt(d, t) == IF Rejoins(d, t) THEN (t - latest) % TimeMod ELSE clocks[d].base

TimeAt(d, t) == Signed((t - BaseAt(d, t)) % TimeMod)

(* What write() does to a clock and to the time line. *)
LEMMA ClockStep ==
  ASSUME ClockInv, ShortRecording,
         NEW d \in Devices, NEW t \in Times, Len(accepted) < MaxPackets, ~write_error
  PROVE  /\ BaseAt(d, t) \in 0 .. TimeMod - 1
         /\ TimeAt(d, t) \in Int /\ TimeAt(d, t) <= TimeMod \div 2 /\ TimeAt(d, t) <= latest + Jump
         /\ \/ TimeAt(d, t) + (Len(accepted) + 1) * Jump >= 0
            \/ latest + Jump >= (TimeMod \div 2) - 1
<1>0. PICK M \in Nat : TimeMod = M /\ M > 0 /\ t \in 0 .. M - 1
  BY RecordingAssumption
<1>1. PICK n \in Nat : n = Len(accepted) /\ n + 1 <= MaxPackets
  BY RecordingAssumption DEF ClockInv
<1>2. PICK J \in Nat, E \in Nat :
        J = Jump /\ E = n * Jump /\ E + J = (Len(accepted) + 1) * Jump
  <2>1. Jump \in Nat /\ n * Jump \in Nat
    BY <1>1, RecordingAssumption
  <2>2. n * Jump + Jump = (n + 1) * Jump
    BY <2>1
  <2>3. QED
    BY <2>1, <2>2, <1>1, Zenon
<1>3. PICK D \in Nat : D = TimeMod \div 2 /\ D = M \div 2 /\ D < M /\ 2 * D <= M
  BY <1>0
<1>4. E + J <= D
  <2>1. \A x \in Nat : n + 1 <= x => (n + 1) * J <= x * J
    BY <1>1, <1>2
  <2>2. QED
    BY <2>1, <1>1, <1>2, <1>3, RecordingAssumption DEF ShortRecording
<1>5. latest \in 0 .. D
  BY <1>3, Zenon DEF ClockInv
<1>6. PICK b : b = BaseAt(d, t)
  BY Zenon
<1>7. PICK y : y = TimeAt(d, t) /\ y = Signed((t - b) % TimeMod)
  BY <1>6, Zenon DEF TimeAt
<1>8. SUFFICES /\ b \in 0 .. M - 1
               /\ y \in Int /\ y <= D /\ y <= latest + J
               /\ y + (E + J) >= 0 \/ latest + J >= D - 1
  BY <1>0, <1>2, <1>3, <1>6, <1>7, Zenon
<1>9. CASE Rejoins(d, t)
  <2>1. b = (t - latest) % TimeMod
    BY <1>6, <1>9, Zenon DEF BaseAt
  <2>2. /\ b \in 0 .. M - 1 /\ y \in Int /\ y <= latest
        /\ y >= 0 \/ latest >= D
    BY <2>1, <1>0, <1>3, <1>5, <1>7, JoinStep, Zenon
  <2>3. QED
    BY <2>2, <1>5
<1>10. CASE ~Rejoins(d, t)
  <2>1. clocks[d].base # Unset /\ b = clocks[d].base
    BY <1>6, <1>10, Zenon DEF Rejoins, BaseAt
  <2>2. PICK p \in 0 .. M - 1 : p = clocks[d].prev
    BY <2>1, <1>0, Zenon DEF ClockInv
  <2>3. b \in 0 .. M - 1
    BY <2>1, <1>0, Zenon DEF ClockInv
  <2>4. t - p <= J /\ p - t <= J /\ t \in Int /\ p \in Int
    BY <1>10, <1>0, <1>2, <2>2 DEF Rejoins, Distance
  <2>5. PICK x : x = TimeOf(d) /\ x = Signed((p - b) % TimeMod)
    BY <2>1, <2>2, Zenon DEF TimeOf
  <2>6. /\ x \in Int /\ D - M <= x /\ x < D
        /\ y \in Int /\ D - M <= y /\ y < D
        /\ y = x + (t - p) \/ y = x + (t - p) - M \/ y = x + (t - p) + M
    <3>1. x \in (D - M) .. (D - 1) /\ (x = p - b \/ x = p - b - M \/ x = p - b + M)
      <4>1. /\ Signed((p - b) % TimeMod) \in (D - M) .. (D - 1)
            /\ \/ Signed((p - b) % TimeMod) = p - b
               \/ Signed((p - b) % TimeMod) = p - b - M
               \/ Signed((p - b) % TimeMod) = p - b + M
        BY <2>2, <2>3, <1>0, <1>3, SignedDiff, Zenon
      <4>2. QED
        BY <4>1, <2>5, Zenon
    <3>2. y \in (D - M) .. (D - 1) /\ (y = t - b \/ y = t - b - M \/ y = t - b + M)
      <4>1. /\ Signed((t - b) % TimeMod) \in (D - M) .. (D - 1)
            /\ \/ Signed((t - b) % TimeMod) = t - b
               \/ Signed((t - b) % TimeMod) = t - b - M
               \/ Signed((t - b) % TimeMod) = t - b + M
        BY <2>3, <1>0, <1>3, SignedDiff, Zenon
      <4>2. QED
        BY <4>1, <1>7, Zenon
    <3>3. QED
      <4>1. M \in Nat /\ D \in Nat /\ b \in 0 .. M - 1 /\ p \in 0 .. M - 1 /\ t \in 0 .. M - 1
        BY <2>2, <2>3, <1>0, <1>3, Zenon
      <4>2. QED
        BY <3>1, <3>2, <4>1, DiffStep
  <2>7. x <= latest /\ (x + E >= 0 \/ latest + J >= D - 1)
    BY <2>1, <2>5, <1>1, <1>2, <1>3, Zenon DEF ClockInv
  <2>8. QED
    BY <2>3, <2>4, <2>6, <2>7, <1>3, <1>4, <1>5, TimeBounds, Zenon
<1>11. QED
  BY <1>9, <1>10, Zenon

LEMMA ClockInit == RecordingInit => ClockInv
<1>1. SUFFICES ASSUME RecordingInit PROVE ClockInv
  BY Zenon
<1>2. accepted = <<>> /\ write_error = FALSE /\ latest = 0 /\ TimeMod \in Nat /\ MaxPackets \in Nat
  BY <1>1, RecordingAssumption, Zenon DEF RecordingInit
<1>3. DOMAIN clocks = Devices /\ \A d \in Devices : clocks[d].base = Unset
  BY <1>1, Zenon DEF RecordingInit
<1>4. 0 \in 0 .. TimeMod \div 2 /\ <<>> \in Seq(Devices) /\ Len(<<>>) <= MaxPackets
  BY <1>2
<1>5. QED
  BY <1>2, <1>3, <1>4, Zenon DEF ClockInv

(* Only write() moves the clocks, and it moves the time line on by no more than a jump. *)
LEMMA ClockNext ==
  ASSUME ClockInv, ShortRecording, [RecordingNext]_recordingVars
  PROVE  ClockInv' /\ (latest' = latest \/ latest' - latest \in 0 .. Jump)
<1>1. ASSUME NEW d \in Devices, NEW t \in Times, Write(d, t)
      PROVE  ClockInv' /\ (latest' = latest \/ latest' - latest \in 0 .. Jump)
  <2>1. PICK b, y : b = BaseAt(d, t) /\ y = TimeAt(d, t)
    BY Zenon
  <2>2. /\ ~write_error /\ Len(accepted) < MaxPackets
        /\ clocks' = [clocks EXCEPT ![d] = [base |-> b, prev |-> t]]
        /\ latest' = IF y > latest THEN y ELSE latest
        /\ \/ write_error' = TRUE /\ accepted' = accepted
           \/ write_error' = write_error /\ accepted' = Append(accepted, d)
    BY <1>1, <2>1, Zenon DEF Write, Recorded, BaseAt, TimeAt
  <2>3. PICK M \in Nat, D \in Nat, J \in Nat :
          M = TimeMod /\ D = TimeMod \div 2 /\ J = Jump /\ t \in 0 .. M - 1 /\ M > 0 /\ D < M
    BY RecordingAssumption
  <2>4. PICK n \in Nat : n = Len(accepted) /\ accepted \in Seq(Devices)
    BY DEF ClockInv
  <2>5. PICK F \in Nat : F = (n + 1) * Jump /\ F = n * Jump + Jump
    <3>1. Jump \in Nat
      BY RecordingAssumption, Zenon
    <3>2. QED
      BY <3>1
  <2>6. /\ b \in 0 .. M - 1 /\ y \in Int /\ y <= D /\ y <= latest + J
        /\ y + F >= 0 \/ latest + J >= D - 1
    BY <2>1, <2>2, <2>3, <2>4, <2>5, ClockStep, Zenon
  <2>7. latest \in 0 .. D /\ DOMAIN clocks = Devices
    BY <2>3, Zenon DEF ClockInv
  <2>8. latest' \in 0 .. D /\ latest' - latest \in 0 .. J /\ y <= latest' /\ latest <= latest'
    BY <2>2, <2>6, <2>7
  <2>9. /\ accepted' \in Seq(Devices) /\ Len(accepted') <= MaxPackets /\ write_error' \in BOOLEAN
        /\ ~write_error' => Len(accepted') = n + 1
    <3>1. MaxPackets \in Nat /\ n < MaxPackets /\ n <= MaxPackets
      BY <2>2, <2>4, RecordingAssumption
    <3>2. Append(accepted, d) \in Seq(Devices) /\ Len(Append(accepted, d)) = n + 1
      BY <2>4
    <3>3. QED
      <4>1. n + 1 <= MaxPackets
        BY <3>1
      <4>2. CASE write_error' = TRUE /\ accepted' = accepted
        BY <4>2, <3>1, <2>4, Zenon
      <4>3. CASE write_error' = write_error /\ accepted' = Append(accepted, d)
        <5>1. accepted' \in Seq(Devices) /\ Len(accepted') = n + 1
          BY <4>3, <3>2, Zenon
        <5>2. write_error' = FALSE
          BY <4>3, <2>2, Zenon DEF ClockInv
        <5>3. QED
          BY <5>1, <5>2, <4>1, Zenon
      <4>4. QED
        BY <4>2, <4>3, <2>2, Zenon
  <2>10. DOMAIN clocks' = Devices
    BY <2>2, <2>7, Zenon
  <2>11. ASSUME NEW e \in Devices, clocks'[e].base # Unset
         PROVE  /\ clocks'[e].base \in 0 .. M - 1 /\ clocks'[e].prev \in 0 .. M - 1
                /\ TimeOf(e)' <= latest'
                /\ ~write_error' => \/ TimeOf(e)' + Len(accepted') * Jump >= 0
                                    \/ latest' + J >= D - 1
    <3>1. CASE e = d
      <4>1. clocks'[e].base = b /\ clocks'[e].prev = t
        BY <3>1, <2>2, <2>7, Zenon
      <4>2. TimeOf(e)' = y
        BY <4>1, <2>1, Zenon DEF TimeOf, TimeAt, Signed
      <4>3. ~write_error' => Len(accepted') * Jump = F
        BY <2>5, <2>9, Zenon
      <4>4. (y + F >= 0 \/ latest + J >= D - 1) => (y + F >= 0 \/ latest' + J >= D - 1)
        <5>1. J \in Nat /\ D \in Nat /\ latest \in Int /\ latest' \in Int /\ latest <= latest'
          BY <2>3, <2>7, <2>8
        <5>2. latest + J >= D - 1 => latest' + J >= D - 1
          BY <5>1, LaterStill, Zenon
        <5>3. QED
          BY <5>2, Zenon
      <4>5. QED
        BY <4>1, <4>2, <4>3, <4>4, <2>3, <2>6, <2>8, Zenon
    <3>2. CASE e # d
      <4>1. clocks'[e] = clocks[e]
        BY <3>2, <2>2, <2>7, Zenon
      <4>2. TimeOf(e)' = TimeOf(e)
        BY <4>1, Zenon DEF TimeOf, Signed
      <4>3. PICK x : x = TimeOf(e)
        BY Zenon
      <4>4. /\ clocks[e].base \in 0 .. M - 1 /\ clocks[e].prev \in 0 .. M - 1
            /\ x <= latest /\ (x + n * Jump >= 0 \/ latest + J >= D - 1)
        BY <4>1, <4>3, <2>2, <2>3, <2>4, <2>11, Zenon DEF ClockInv
      <4>5. x \in Int
        <5>1. D = M \div 2
          BY <2>3, Zenon
        <5>2. Signed((clocks[e].prev - clocks[e].base) % TimeMod) \in (D - M) .. (D - 1)
          BY <4>4, <5>1, <2>3, SignedDiff, Zenon
        <5>3. QED
          BY <5>2, <4>3 DEF TimeOf
      <4>6. ~write_error' => Len(accepted') * Jump = F
        BY <2>5, <2>9
      <4>7. x <= latest' /\ (x + F >= 0 \/ latest' + J >= D - 1)
        <5>1. PICK E \in Int : E = n * Jump /\ F = E + J
          BY <2>3, <2>5
        <5>2. QED
          <6>1. E \in Int /\ F = E + J /\ (x + E >= 0 \/ latest + J >= D - 1)
            BY <5>1, <4>4, Zenon
          <6>2. J \in Nat /\ D \in Nat /\ latest \in Int /\ latest' \in Int /\ latest <= latest'
            BY <2>3, <2>7, <2>8
          <6>3. QED
            BY <6>1, <6>2, <4>4, <4>5, StillBehind, Zenon
      <4>8. QED
        BY <4>1, <4>2, <4>3, <4>4, <4>6, <4>7, Zenon
    <3>3. QED
      BY <3>1, <3>2, Zenon
  <2>12. QED
    BY <2>3, <2>8, <2>9, <2>10, <2>11, Zenon DEF ClockInv
<1>2. CASE UNCHANGED <<clocks, latest, accepted, write_error>>
  BY <1>2, Zenon DEF ClockInv, TimeOf, Signed
<1>3. CASE Close
  <2>1. /\ UNCHANGED <<clocks, latest, accepted>>
        /\ write_error' = write_error \/ write_error' = TRUE
    BY <1>3, Zenon DEF Close
  <2>2. QED
    BY <2>1, Zenon DEF ClockInv, TimeOf, Signed
<1>4. CASE Killed \/ Open \/ LoadFrame \/ NextPacket \/ Stop \/ Stopped \/ UNCHANGED recordingVars
  <2>1. UNCHANGED <<clocks, latest, accepted, write_error>>
    BY <1>4, Zenon DEF Killed, Open, LoadFrame, NextPacket, Stop, Stopped, Fail, EndPass, recordingVars, writerVars
  <2>2. QED
    BY <1>2, <2>1, Zenon
<1>5. QED
  BY <1>1, <1>3, <1>4, Zenon DEF RecordingNext

(* The time line moves on by no more than a jump at a time (write(), lvx2.cpp:313-322), for every *)
(* number of devices and every choice of time stamps, over the wrap of the unsigned difference    *)
(* included, as long as no clock can wander half the range of its times.                          *)
THEOREM RecordingTimeLineSteady == ShortRecording => (RecordingSpec => TimeLineSteady)
<1>1. SUFFICES ASSUME ShortRecording PROVE RecordingSpec => TimeLineSteady
  BY Zenon
<1>2. RecordingInit => ClockInv
  BY ClockInit, Zenon
<1>3. ClockInv /\ [RecordingNext]_recordingVars => ClockInv'
  BY <1>1, ClockNext, Zenon
<1>4. ClockInv /\ [RecordingNext]_recordingVars => [latest' - latest \in 0 .. Jump]_recordingVars
  <2>1. SUFFICES ASSUME ClockInv, RecordingNext PROVE latest' - latest \in 0 .. Jump
    BY Zenon DEF recordingVars
  <2>2. latest' = latest \/ latest' - latest \in 0 .. Jump
    BY <2>1, <1>1, ClockNext, Zenon
  <2>3. latest \in Int /\ Jump \in Nat
    BY <2>1, RecordingAssumption DEF ClockInv
  <2>4. QED
    BY <2>2, <2>3
<1>5. QED
  BY <1>2, <1>3, <1>4, PTL DEF RecordingSpec, TimeLineSteady

-----------------------------------------------------------------------------
(* The file: its cells, and how the writer lays the frames out. *)
Cells ==
  [kind : {"file"}, part : {1, 2}]
    \cup [kind : {"frame"}, part : {1, 2}, current : Nat, next : Nat, index : Nat]
    \cup [kind : {"package"}, id : Nat, part : {1, 2}]
    \cup [kind : {"points"}, id : Nat]

(* Cell r, from 0, of the packages one after the other. *)
Cell(r) == Package((r \div 3) + 1)[(r % 3) + 1]

(* A frame header at cell k of the file f. *)
HeaderIn(f, k) == f[k].kind = "frame" /\ f[k].part = 1

(* The number of package cells before the frame at cell k: the others are headers. *)
FirstOf(f, k) == k - 3 - 2 * f[k].index

(* The frame of f at cell k, which may be cut, of a file of e cells and j frames. *)
FrameIn(f, k, e, j) ==
  /\ f[k].current = k - 1 /\ f[k].index \in Nat
  /\ f[k].next \in Nat /\ f[k].next >= k + 4 /\ f[k].next <= e
  /\ (f[k].next - k - 1) % 3 = 0 /\ FirstOf(f, k) >= 0 /\ FirstOf(f, k) % 3 = 0
  /\ k + 1 \in DOMAIN f => f[k + 1].kind = "frame" /\ f[k + 1].part = 2
  /\ \A c \in DOMAIN f : k + 2 <= c /\ c <= f[k].next => f[c] = Cell(FirstOf(f, k) + (c - k - 2))
  /\ f[k].next + 1 \in DOMAIN f => /\ HeaderIn(f, f[k].next + 1)
                                   /\ f[f[k].next + 1].index = f[k].index + 1
  /\ f[k].next = e => f[k].index + 1 = j

(* A file of e cells, j frames and packages up to n, or what is left of it. *)
Layout(f, e, j, n) ==
  /\ f \in Seq(Cells) /\ e \in Nat /\ j \in Nat /\ Len(f) <= e /\ (e = 2 => j = 0)
  /\ \A k \in DOMAIN f : k <= 2 => f[k].kind = "file"
  /\ 3 \in DOMAIN f => HeaderIn(f, 3) /\ f[3].index = 0
  /\ \A k \in DOMAIN f : HeaderIn(f, k) => FrameIn(f, k, e, j)
  /\ \A k \in DOMAIN f : f[k].kind \in {"package", "points"} => f[k].id \in 1 .. n

(* The open frame has the last packages, the file those before them. *)
OpenFrame(fr, e, j, n) ==
  /\ fr \in Seq(Cells) /\ Len(fr) % 3 = 0 /\ Len(fr) <= 3 * n
  /\ \A c \in DOMAIN fr : fr[c] = Cell(3 * n - Len(fr) + c - 1)
  /\ e = 2 + 2 * j + 3 * n - Len(fr)

(* The file ends where the writer thinks it does, or was cut; the next frame goes to its end. *)
FileInv ==
  /\ Layout(file, offset, frame_index, Len(accepted))
  /\ accepted \in Seq(Devices)
  /\ ~cut => Len(file) = offset /\ OpenFrame(frame, offset, frame_index, Len(accepted))
  /\ phase = "recording" => ~cut
  /\ phase # "recording" /\ ~cut => frame = <<>>

(* The frames in the file are of earlier slots than the open frame, which has packages. *)
SlotInv ==
  /\ accepted \in Seq(Devices) /\ latest \in Int /\ DOMAIN clocks = Devices
  /\ \A d \in Devices : clocks[d].base \in Int \cup {Unset} /\ clocks[d].prev \in Int
  /\ slots \in Seq(Nat) /\ \A i \in 1 .. Len(slots) - 1 : slots[i] < slots[i + 1]
  /\ phase = "recording" =>
       /\ frame \in Seq(Cells) /\ (frame = <<>> <=> frame_slot = Unset)
       /\ frame_slot = Unset => slots = <<>>
       /\ frame_slot # Unset => frame_slot \in Nat /\ \A i \in 1 .. Len(slots) : slots[i] < frame_slot

LEMMA CellIs ==
  ASSUME NEW q \in Nat
  PROVE  /\ Cell(3 * q) = [kind |-> "package", id |-> q + 1, part |-> 1]
         /\ Cell(3 * q + 1) = [kind |-> "package", id |-> q + 1, part |-> 2]
         /\ Cell(3 * q + 2) = [kind |-> "points", id |-> q + 1]
         /\ Cell(3 * q) = Package(q + 1)[1]
         /\ Cell(3 * q + 1) = Package(q + 1)[2]
         /\ Cell(3 * q + 2) = Package(q + 1)[3]
<1>1. /\ (3 * q) \div 3 = q /\ (3 * q) % 3 = 0
      /\ (3 * q + 1) \div 3 = q /\ (3 * q + 1) % 3 = 1
      /\ (3 * q + 2) \div 3 = q /\ (3 * q + 2) % 3 = 2
  OBVIOUS
<1>2. QED
  BY <1>1 DEF Cell, Package

LEMMA CellFacts ==
  ASSUME NEW r \in Nat
  PROVE  /\ Cell(r) \in Cells /\ Cell(r).kind \in {"package", "points"}
         /\ Cell(r).id = (r \div 3) + 1
         /\ Cell(r).kind = "points" <=> r % 3 = 2
<1>1. PICK q \in Nat : q = r \div 3 /\ (r = 3 * q \/ r = 3 * q + 1 \/ r = 3 * q + 2)
  OBVIOUS
<1>2. CASE r = 3 * q
  <2>1. Cell(r) = [kind |-> "package", id |-> q + 1, part |-> 1]
    BY <1>2, CellIs, Zenon
  <2>2. r % 3 = 0 /\ q + 1 \in Nat /\ q + 1 = (r \div 3) + 1
    BY <1>1, <1>2
  <2>3. QED
    BY <2>1, <2>2 DEF Cells
<1>3. CASE r = 3 * q + 1
  <2>1. Cell(r) = [kind |-> "package", id |-> q + 1, part |-> 2]
    BY <1>3, CellIs, Zenon
  <2>2. r % 3 = 1 /\ q + 1 \in Nat /\ q + 1 = (r \div 3) + 1
    BY <1>1, <1>3
  <2>3. QED
    BY <2>1, <2>2 DEF Cells
<1>4. CASE r = 3 * q + 2
  <2>1. Cell(r) = [kind |-> "points", id |-> q + 1]
    BY <1>4, CellIs, Zenon
  <2>2. r % 3 = 2 /\ q + 1 \in Nat /\ q + 1 = (r \div 3) + 1
    BY <1>1, <1>4
  <2>3. QED
    BY <2>1, <2>2 DEF Cells
<1>5. QED
  BY <1>1, <1>2, <1>3, <1>4, Zenon

(* The cells of two sequences one after the other. *)
LEMMA Joined ==
  ASSUME NEW S, NEW a \in Seq(S), NEW b \in Seq(S)
  PROVE  /\ a \o b \in Seq(S) /\ Len(a \o b) = Len(a) + Len(b)
         /\ \A k \in 1 .. Len(a) : (a \o b)[k] = a[k]
         /\ \A k \in 1 .. Len(b) : (a \o b)[Len(a) + k] = b[k]
OBVIOUS

LEMMA PackageCells ==
  ASSUME NEW n \in Nat
  PROVE  /\ Package(n + 1) \in Seq(Cells) /\ Len(Package(n + 1)) = 3
         /\ Package(n + 1)[1] = Cell(3 * n) /\ Package(n + 1)[2] = Cell(3 * n + 1)
         /\ Package(n + 1)[3] = Cell(3 * n + 2)
<1> DEFINE p == Package(n + 1)
<1>1. p = <<Cell(3 * n), Cell(3 * n + 1), Cell(3 * n + 2)>>
  BY CellIs, Zenon DEF Package
<1>2. Cell(3 * n) \in Cells /\ Cell(3 * n + 1) \in Cells /\ Cell(3 * n + 2) \in Cells
  BY CellFacts
<1> HIDE DEF p
<1>3. /\ p \in Seq(Cells) /\ Len(p) = 3 /\ p[1] = Cell(3 * n) /\ p[2] = Cell(3 * n + 1)
      /\ p[3] = Cell(3 * n + 2)
  BY <1>1, <1>2
<1>4. QED
  BY <1>3, Zenon DEF p

(* A package more in the open frame. *)
LEMMA FrameGrows ==
  ASSUME NEW fr, NEW e, NEW j \in Nat, NEW n \in Nat, OpenFrame(fr, e, j, n)
  PROVE  OpenFrame(fr \o Package(n + 1), e, j, n + 1)
<1> DEFINE p == Package(n + 1)
<1>1. /\ p \in Seq(Cells) /\ Len(p) = 3 /\ p[1] = Cell(3 * n) /\ p[2] = Cell(3 * n + 1)
      /\ p[3] = Cell(3 * n + 2)
  BY PackageCells, Zenon
<1> HIDE DEF p
<1>2. PICK L \in Nat : L = Len(fr) /\ fr \in Seq(Cells) /\ L % 3 = 0 /\ L <= 3 * n
  BY DEF OpenFrame
<1>3. /\ fr \o p \in Seq(Cells) /\ Len(fr \o p) = L + 3
      /\ \A k \in 1 .. L : (fr \o p)[k] = fr[k]
      /\ \A k \in 1 .. 3 : (fr \o p)[L + k] = p[k]
  <2>1. /\ fr \o p \in Seq(Cells) /\ Len(fr \o p) = Len(fr) + Len(p)
        /\ \A k \in 1 .. Len(fr) : (fr \o p)[k] = fr[k]
        /\ \A k \in 1 .. Len(p) : (fr \o p)[Len(fr) + k] = p[k]
    <3>1. fr \in Seq(Cells) /\ p \in Seq(Cells)
      BY <1>1, <1>2, Zenon
    <3>2. QED
      BY <3>1
  <2>2. L = Len(fr) /\ Len(p) = 3
    BY <1>1, <1>2, Zenon
  <2>3. QED
    BY <2>1, <2>2, Zenon
<1>4. ASSUME NEW c \in 1 .. L + 3
      PROVE  (fr \o p)[c] = Cell(3 * (n + 1) - (L + 3) + c - 1)
  <2>1. 3 * (n + 1) - (L + 3) + c - 1 = 3 * n - L + c - 1
    BY <1>2
  <2>a. \A k \in 1 .. L : fr[k] = Cell(3 * n - L + k - 1)
    BY <1>2 DEF OpenFrame
  <2>b. c \in 1 .. L \/ c = L + 1 \/ c = L + 2 \/ c = L + 3
    BY <1>2
  <2>2. CASE c \in 1 .. L
    BY <2>1, <2>2, <2>a, <1>3, Zenon
  <2>3. CASE c = L + 1
    BY <2>1, <2>3, <1>1, <1>2, <1>3
  <2>4. CASE c = L + 2
    BY <2>1, <2>4, <1>1, <1>2, <1>3
  <2>5. CASE c = L + 3
    BY <2>1, <2>5, <1>1, <1>2, <1>3
  <2>6. QED
    BY <2>2, <2>3, <2>4, <2>5, <2>b, Zenon
<1>5. (L + 3) % 3 = 0 /\ L + 3 <= 3 * (n + 1) /\ DOMAIN (fr \o p) = 1 .. L + 3
  BY <1>2, <1>3
<1>6. e = 2 + 2 * j + 3 * (n + 1) - (L + 3)
  BY <1>2 DEF OpenFrame
<1>7. QED
  BY <1>3, <1>4, <1>5, <1>6, Zenon DEF OpenFrame, p

(* A flushed frame leaves one with the next package, or none. *)
LEMMA FrameOfOne ==
  ASSUME NEW e \in Nat, NEW j \in Nat, NEW n \in Nat, e = 2 + 2 * j + 3 * n
  PROVE  OpenFrame(<<>>, e, j, n) /\ OpenFrame(Package(n + 1), e, j, n + 1)
<1>1. OpenFrame(<<>>, e, j, n)
  BY DEF OpenFrame
<1>2. OpenFrame(<<>> \o Package(n + 1), e, j, n + 1)
  BY <1>1, FrameGrows, Zenon
<1>3. <<>> \o Package(n + 1) = Package(n + 1)
  BY DEF Package
<1>4. QED
  BY <1>1, <1>2, <1>3, Zenon

(* A file with a frame more, cell by cell. *)
Extended(f, fr, g, e, j) ==
  /\ g \in Seq(Cells) /\ Len(g) = e + 2 + Len(fr)
  /\ \A k \in 1 .. e : g[k] = f[k]
  /\ g[e + 1] = [kind |-> "frame", part |-> 1, current |-> e, next |-> e + 2 + Len(fr), index |-> j]
  /\ g[e + 2] = [kind |-> "frame", part |-> 2, current |-> e, next |-> e + 2 + Len(fr), index |-> j]
  /\ \A c \in 1 .. Len(fr) : g[e + 2 + c] = fr[c]

(* flush_frame() keeps the chain of the frames. *)
LEMMA LayoutGrows ==
  ASSUME NEW f, NEW fr, NEW g, NEW e \in Nat, NEW j \in Nat, NEW n \in Nat, NEW n2 \in Nat,
         Layout(f, e, j, n), Len(f) = e, OpenFrame(fr, e, j, n), fr # <<>>, Extended(f, fr, g, e, j),
         n <= n2
  PROVE  Layout(g, e + 2 + Len(fr), j + 1, n2)
<1>1. PICK m \in Nat : /\ m = Len(fr) /\ m % 3 = 0 /\ m # 0 /\ m <= 3 * n
                       /\ e = 2 + 2 * j + 3 * n - m
  <2>1. fr \in Seq(Cells) /\ Len(fr) \in Nat /\ Len(fr) # 0
    BY DEF OpenFrame
  <2>2. Len(fr) % 3 = 0 /\ Len(fr) <= 3 * n /\ e = 2 + 2 * j + 3 * n - Len(fr)
    BY Zenon DEF OpenFrame
  <2>3. QED
    BY <2>1, <2>2, Zenon
<1>a. m \in Nat /\ m >= 3 /\ e >= 2
  BY <1>1
<1>2. PICK s \in Nat : s = 3 * n - m /\ s = e - 2 - 2 * j /\ s % 3 = 0
  <2>1. PICK q \in Nat : m = 3 * q
    BY <1>1
  <2>2. n - q \in Nat /\ 3 * n - m = 3 * (n - q)
    BY <2>1, <1>1
  <2>3. (3 * (n - q)) % 3 = 0
    BY <2>2
  <2>4. 3 * n - m \in Nat /\ 3 * n - m = e - 2 - 2 * j
    BY <1>1
  <2>5. QED
    BY <2>2, <2>3, <2>4, Zenon
<1>3. /\ g \in Seq(Cells) /\ Len(g) = e + 2 + m /\ DOMAIN g = 1 .. e + 2 + m
      /\ f \in Seq(Cells) /\ DOMAIN f = 1 .. e
      /\ \A k \in 1 .. e : g[k] = f[k]
      /\ g[e + 1] = [kind |-> "frame", part |-> 1, current |-> e, next |-> e + 2 + m, index |-> j]
      /\ g[e + 2] = [kind |-> "frame", part |-> 2, current |-> e, next |-> e + 2 + m, index |-> j]
  BY <1>1 DEF Extended, Layout
<1>4. \A c \in 1 .. m : g[e + 2 + c] = Cell(s + c - 1)
  <2>1. SUFFICES ASSUME NEW c \in 1 .. m PROVE g[e + 2 + c] = Cell(s + c - 1)
    BY Zenon
  <2>2. g[e + 2 + c] = fr[c] /\ c \in DOMAIN fr
    <3>1. DOMAIN fr = 1 .. Len(fr) /\ m = Len(fr)
      BY <1>1 DEF OpenFrame
    <3>2. QED
      BY <3>1, Zenon DEF Extended
  <2>3. fr[c] = Cell(3 * n - m + c - 1)
    BY <2>2, <1>1, Zenon DEF OpenFrame
  <2>4. QED
    BY <2>2, <2>3, <1>2, Zenon
<1>5. \A c \in 1 .. m : /\ g[e + 2 + c].kind \in {"package", "points"}
                        /\ g[e + 2 + c].id \in 1 .. n2
  <2>1. SUFFICES ASSUME NEW c \in 1 .. m
                 PROVE  /\ g[e + 2 + c].kind \in {"package", "points"}
                        /\ g[e + 2 + c].id \in 1 .. n2
    BY Zenon
  <2>2. PICK r \in Nat : r = s + c - 1
    BY <1>2
  <2>3. /\ g[e + 2 + c] = Cell(r) /\ Cell(r).kind \in {"package", "points"}
        /\ Cell(r).id = (r \div 3) + 1
    BY <1>4, <2>2, CellFacts, Zenon
  <2>4. (r \div 3) + 1 \in 1 .. n2
    <3>1. r <= 3 * n - 1
      BY <2>2, <1>2, <1>a
    <3>2. r \div 3 \in Nat /\ r \div 3 <= n - 1
      BY <3>1, r \in Nat
    <3>3. QED
      BY <3>2
  <2>5. QED
    BY <2>3, <2>4, Zenon
<1>6. \A k \in 1 .. e + 2 + m :
        k \in 1 .. e \/ k = e + 1 \/ k = e + 2 \/ \E c \in 1 .. m : k = e + 2 + c
  <2>1. SUFFICES ASSUME NEW k \in 1 .. e + 2 + m, k > e + 2 PROVE \E c \in 1 .. m : k = e + 2 + c
    BY <1>a
  <2>2. k - e - 2 \in 1 .. m /\ k = e + 2 + (k - e - 2)
    BY <2>1, <1>a
  <2>3. QED
    BY <2>2, Zenon
<1>7. \A k \in 1 .. e + 2 + m : HeaderIn(g, k) => (k \in 1 .. e /\ HeaderIn(f, k)) \/ k = e + 1
  <2>1. SUFFICES ASSUME NEW k \in 1 .. e + 2 + m, HeaderIn(g, k)
                 PROVE  (k \in 1 .. e /\ HeaderIn(f, k)) \/ k = e + 1
    BY Zenon
  <2>2. CASE k \in 1 .. e
    BY <2>1, <2>2, <1>3, Zenon DEF HeaderIn
  <2>3. CASE k = e + 2
    BY <2>1, <2>3, <1>3 DEF HeaderIn
  <2>4. CASE \E c \in 1 .. m : k = e + 2 + c
    BY <2>1, <2>4, <1>5, Zenon DEF HeaderIn
  <2>5. QED
    BY <2>2, <2>3, <2>4, <1>6, Zenon
<1>8. ASSUME NEW k \in 1 .. e, HeaderIn(f, k)
      PROVE  FrameIn(g, k, e + 2 + m, j + 1)
  <2>1. FrameIn(f, k, e, j) /\ g[k] = f[k]
    BY <1>3, <1>8, Zenon DEF Layout
  <2>2. PICK x \in Nat, i \in Nat :
          /\ x = f[k].next /\ i = f[k].index /\ x = g[k].next /\ i = g[k].index
          /\ f[k].current = k - 1 /\ x >= k + 4 /\ x <= e /\ (x - k - 1) % 3 = 0
          /\ x = e => i + 1 = j
    BY <2>1, Zenon DEF FrameIn
  <2>a. x >= k + 4 /\ x <= e
    BY <2>2, Zenon
  <2>3. FirstOf(g, k) = FirstOf(f, k) /\ FirstOf(f, k) >= 0 /\ FirstOf(f, k) % 3 = 0
    BY <2>1, Zenon DEF FirstOf, FrameIn
  <2>4. k + 1 \in 1 .. e /\ g[k + 1].kind = "frame" /\ g[k + 1].part = 2
    <3>1. k + 1 \in 1 .. e
      BY <2>a
    <3>2. QED
      BY <3>1, <2>1, <1>3, Zenon DEF FrameIn
  <2>5. ASSUME NEW c \in 1 .. e + 2 + m, k + 2 <= c, c <= x
        PROVE  g[c] = Cell(FirstOf(g, k) + (c - k - 2))
    <3>1. c \in 1 .. e
      BY <2>a, <2>5
    <3>2. f[c] = Cell(FirstOf(f, k) + (c - k - 2))
      BY <3>1, <2>1, <2>2, <2>5, <1>3, Zenon DEF FrameIn
    <3>3. QED
      BY <3>1, <3>2, <2>3, <1>3, Zenon
  <2>6. HeaderIn(g, x + 1) /\ g[x + 1].index = i + 1
    <3>1. CASE x < e
      <4>1. x + 1 \in 1 .. e
        BY <3>1, <2>a
      <4>2. HeaderIn(f, x + 1) /\ f[x + 1].index = i + 1
        BY <4>1, <2>1, <2>2, <1>3, Zenon DEF FrameIn
      <4>3. QED
        BY <4>1, <4>2, <1>3, Zenon DEF HeaderIn
    <3>2. CASE x = e
      <4>1. /\ g[e + 1].kind = "frame" /\ g[e + 1].part = 1 /\ g[e + 1].index = j
        BY <1>3
      <4>2. QED
        BY <4>1, <3>2, <2>2, Zenon DEF HeaderIn
    <3>3. QED
      BY <3>1, <3>2, <2>2
  <2>7. x # e + 2 + m /\ x <= e + 2 + m
    BY <2>a, <1>a
  <2>8. QED
    BY <2>1, <2>2, <2>3, <2>4, <2>5, <2>6, <2>7, <1>3, Zenon DEF FrameIn
<1>9. FrameIn(g, e + 1, e + 2 + m, j + 1)
  <2>1. /\ g[e + 1].current = (e + 1) - 1 /\ g[e + 1].index = j /\ g[e + 1].next = e + 2 + m
        /\ g[e + 2].kind = "frame" /\ g[e + 2].part = 2
    BY <1>3
  <2>2. FirstOf(g, e + 1) = s
    BY <2>1, <1>2 DEF FirstOf
  <2>3. /\ e + 2 + m \in Nat /\ e + 2 + m >= e + 1 + 4 /\ ((e + 2 + m) - (e + 1) - 1) % 3 = 0
        /\ (e + 1) + 1 = e + 2 /\ (e + 2 + m) + 1 \notin 1 .. e + 2 + m
    <3>1. (e + 2 + m) - (e + 1) - 1 = m
      BY <1>1
    <3>2. QED
      BY <3>1, <1>1
  <2>4. ASSUME NEW c \in 1 .. e + 2 + m, e + 1 + 2 <= c
        PROVE  g[c] = Cell(s + (c - (e + 1) - 2))
    <3>1. PICK i \in 1 .. m : c = e + 2 + i
      <4>1. c - e - 2 \in 1 .. m /\ c = e + 2 + (c - e - 2)
        BY <2>4, <1>1
      <4>2. QED
        BY <4>1
    <3>2. s + i - 1 = s + (c - (e + 1) - 2)
      BY <3>1, <1>2
    <3>3. QED
      BY <3>1, <3>2, <1>4, Zenon
  <2>5. s \in Nat /\ s >= 0 /\ s % 3 = 0 /\ e + 2 + m <= e + 2 + m
    BY <1>2, <1>a
  <2>6. QED
    BY <2>1, <2>2, <2>3, <2>4, <2>5, <1>3, Zenon DEF FrameIn
<1>10. \A k \in 1 .. e + 2 + m : k <= 2 => g[k].kind = "file"
  <2>1. ASSUME NEW k \in 1 .. e + 2 + m, k <= 2 PROVE k \in 1 .. e
    BY <2>1, <1>a
  <2>2. QED
    BY <2>1, <1>3, Zenon DEF Layout
<1>11. HeaderIn(g, 3) /\ g[3].index = 0
  <2>1. CASE e = 2
    BY <2>1, <1>3 DEF HeaderIn, Layout
  <2>2. CASE e > 2
    <3>1. 3 \in 1 .. e
      BY <2>2
    <3>2. QED
      BY <3>1, <1>3, Zenon DEF HeaderIn, Layout
  <2>3. QED
    BY <2>1, <2>2, <1>a
<1>12. \A k \in 1 .. e + 2 + m : g[k].kind \in {"package", "points"} => g[k].id \in 1 .. n2
  <2>1. ASSUME NEW k \in 1 .. e, g[k].kind \in {"package", "points"} PROVE g[k].id \in 1 .. n2
    <3>1. g[k].id \in 1 .. n
      BY <2>1, <1>3, Zenon DEF Layout
    <3>2. QED
      BY <3>1
  <2>2. g[e + 1].kind = "frame" /\ g[e + 2].kind = "frame"
    BY <1>3
  <2>3. QED
    BY <2>1, <2>2, <1>5, <1>6, Zenon
<1>13. /\ e + 2 + m \in Nat /\ j + 1 \in Nat /\ Len(g) <= e + 2 + m /\ e + 2 + m # 2
  BY <1>1, <1>3
<1>14. \A k \in DOMAIN g : HeaderIn(g, k) => FrameIn(g, k, e + 2 + m, j + 1)
  BY <1>3, <1>7, <1>8, <1>9, Zenon
<1>15. QED
  BY <1>1, <1>3, <1>10, <1>11, <1>12, <1>13, <1>14, Zenon DEF Layout

(* A file that is cut keeps what is left of the chain. *)
LEMMA LayoutCut ==
  ASSUME NEW f, NEW e, NEW j, NEW n, Layout(f, e, j, n), NEW l \in 0 .. Len(f), NEW g,
         g = SubSeq(f, 1, l)
  PROVE  Layout(g, e, j, n)
<1>1. f \in Seq(Cells) /\ Len(f) \in Nat /\ DOMAIN f = 1 .. Len(f) /\ e \in Nat /\ Len(f) <= e
  BY DEF Layout
<1>2. g \in Seq(Cells) /\ Len(g) = l /\ DOMAIN g = 1 .. l /\ \A k \in 1 .. l : g[k] = f[k]
  BY <1>1
<1>3. l <= e /\ l \in Nat /\ \A k \in 1 .. l : k \in DOMAIN f
  BY <1>1
<1>4. ASSUME NEW k \in 1 .. l, HeaderIn(g, k) PROVE FrameIn(g, k, e, j)
  <2>1. g[k] = f[k] /\ k \in DOMAIN f
    BY <1>2, <1>3, Zenon
  <2>2. HeaderIn(f, k) /\ FirstOf(g, k) = FirstOf(f, k)
    BY <2>1, <1>4, Zenon DEF HeaderIn, FirstOf
  <2>3. FrameIn(f, k, e, j)
    BY <2>1, <2>2, Zenon DEF Layout
  <2>4. f[k].next + 1 \in DOMAIN g => /\ HeaderIn(g, f[k].next + 1)
                                     /\ g[f[k].next + 1].index = f[k].index + 1
    <3>1. SUFFICES ASSUME f[k].next + 1 \in DOMAIN g
                   PROVE  HeaderIn(g, f[k].next + 1) /\ g[f[k].next + 1].index = f[k].index + 1
      BY Zenon
    <3>2. g[f[k].next + 1] = f[f[k].next + 1] /\ f[k].next + 1 \in DOMAIN f
      BY <3>1, <1>2, <1>3, Zenon
    <3>3. HeaderIn(f, f[k].next + 1) /\ f[f[k].next + 1].index = f[k].index + 1
      BY <3>2, <2>3, Zenon DEF FrameIn
    <3>4. QED
      BY <3>2, <3>3, Zenon DEF HeaderIn
  <2>5. k + 1 \in DOMAIN g => g[k + 1].kind = "frame" /\ g[k + 1].part = 2
    BY <2>3, <1>2, <1>3, Zenon DEF FrameIn
  <2>6. ASSUME NEW c \in DOMAIN g, k + 2 <= c, c <= f[k].next
        PROVE  g[c] = Cell(FirstOf(g, k) + (c - k - 2))
    <3>1. c \in DOMAIN f /\ g[c] = f[c]
      BY <1>2, <1>3, Zenon
    <3>2. f[c] = Cell(FirstOf(f, k) + (c - k - 2))
      BY <3>1, <2>3, <2>6, Zenon DEF FrameIn
    <3>3. QED
      BY <3>1, <3>2, <2>2, Zenon
  <2>7. QED
    BY <2>1, <2>2, <2>3, <2>4, <2>5, <2>6, Zenon DEF FrameIn
<1>5. \A k \in DOMAIN g : k <= 2 => g[k].kind = "file"
  BY <1>2, <1>3, Zenon DEF Layout
<1>6. 3 \in DOMAIN g => HeaderIn(g, 3) /\ g[3].index = 0
  BY <1>2, <1>3, Zenon DEF Layout, HeaderIn
<1>7. \A k \in DOMAIN g : g[k].kind \in {"package", "points"} => g[k].id \in 1 .. n
  BY <1>2, <1>3, Zenon DEF Layout
<1>8. j \in Nat /\ (e = 2 => j = 0)
  BY Zenon DEF Layout
<1>9. QED
  BY <1>1, <1>2, <1>3, <1>4, <1>5, <1>6, <1>7, <1>8, Zenon DEF Layout

(* What flush_frame() writes. *)
LEMMA FlushExtends ==
  ASSUME file \in Seq(Cells), frame \in Seq(Cells), offset \in Nat, frame_index \in Nat,
         Len(file) = offset
  PROVE  Extended(file, frame, file \o Header(offset + HeaderSize + Len(frame)) \o frame, offset,
                  frame_index)
<1> DEFINE next == offset + HeaderSize + Len(frame)
           cell(p) == [kind |-> "frame", part |-> p, current |-> offset, next |-> offset + 2 + Len(frame),
                       index |-> frame_index]
<1>1. PICK m \in Nat : m = Len(frame)
  OBVIOUS
<1>2. next = offset + 2 + m /\ next \in Nat
  BY <1>1 DEF HeaderSize
<1>3. PICK h : h = Header(next)
  BY Zenon
<1>4. h = [p \in 1 .. 2 |-> cell(p)]
  BY <1>2, <1>3, <1>1, Zenon DEF Header, HeaderSize
<1>5. \A p \in 1 .. 2 : cell(p) \in Cells
  <2>1. \A p \in 1 .. 2 : p \in {1, 2}
    OBVIOUS
  <2>2. offset + 2 + Len(frame) \in Nat
    BY <1>1
  <2>3. \A p \in {1, 2} :
          cell(p) \in [kind : {"frame"}, part : {1, 2}, current : Nat, next : Nat, index : Nat]
    BY <2>2, Zenon
  <2>4. QED
    BY <2>1, <2>3, Zenon DEF Cells
<1>6. h[1] = cell(1) /\ h[2] = cell(2)
  BY <1>4
<1> HIDE DEF cell
<1>7. h \in Seq(Cells) /\ Len(h) = 2
  BY <1>4, <1>5
<1>8. /\ file \o h \in Seq(Cells) /\ Len(file \o h) = offset + 2
      /\ \A k \in 1 .. offset : (file \o h)[k] = file[k]
      /\ \A k \in 1 .. 2 : (file \o h)[offset + k] = h[k]
  <2>1. /\ file \o h \in Seq(Cells) /\ Len(file \o h) = Len(file) + Len(h)
        /\ \A k \in 1 .. Len(file) : (file \o h)[k] = file[k]
        /\ \A k \in 1 .. Len(h) : (file \o h)[Len(file) + k] = h[k]
    <3>1. h \in Seq(Cells) /\ file \in Seq(Cells)
      BY <1>7, Zenon
    <3>2. file \o h \in Seq(Cells) /\ Len(file \o h) = Len(file) + Len(h)
      BY <3>1
    <3>3. \A k \in 1 .. Len(file) : (file \o h)[k] = file[k]
      BY <3>1
    <3>4. \A k \in 1 .. Len(h) : (file \o h)[Len(file) + k] = h[k]
      BY <3>1
    <3>5. QED
      BY <3>2, <3>3, <3>4, Zenon
  <2>2. QED
    BY <2>1, <1>7, Zenon
<1>9. PICK a : a = file \o h
  BY Zenon
<1>10. /\ a \o frame \in Seq(Cells) /\ Len(a \o frame) = offset + 2 + m
       /\ \A k \in 1 .. offset + 2 : (a \o frame)[k] = a[k]
       /\ \A k \in 1 .. m : (a \o frame)[offset + 2 + k] = frame[k]
  <2>1. a \in Seq(Cells) /\ Len(a) = offset + 2
    BY <1>8, <1>9, Zenon
  <2>2. /\ a \o frame \in Seq(Cells) /\ Len(a \o frame) = Len(a) + Len(frame)
        /\ \A k \in 1 .. Len(a) : (a \o frame)[k] = a[k]
        /\ \A k \in 1 .. Len(frame) : (a \o frame)[Len(a) + k] = frame[k]
    BY <2>1
  <2>3. QED
    BY <2>1, <2>2, <1>1, Zenon
<1>11. PICK g : g = a \o frame
  BY Zenon
<1>12. /\ \A k \in 1 .. offset : k \in 1 .. offset + 2
       /\ offset + 1 \in 1 .. offset + 2 /\ offset + 2 \in 1 .. offset + 2
  OBVIOUS
<1>13. \A k \in 1 .. offset : g[k] = file[k]
  BY <1>8, <1>9, <1>10, <1>11, <1>12, Zenon
<1>14. g[offset + 1] = cell(1) /\ g[offset + 2] = cell(2)
  <2>1. (file \o h)[offset + 1] = h[1] /\ (file \o h)[offset + 2] = h[2]
    BY <1>8
  <2>2. QED
    BY <2>1, <1>6, <1>9, <1>10, <1>11, <1>12, Zenon
<1>15. Extended(file, frame, g, offset, frame_index)
  BY <1>1, <1>10, <1>11, <1>13, <1>14, Zenon DEF Extended, cell
<1>16. QED
  BY <1>3, <1>9, <1>11, <1>15, Zenon

LEMMA FileInit == RecordingInit => FileInv
<1>1. SUFFICES ASSUME RecordingInit PROVE FileInv
  BY Zenon
<1>2. /\ phase = "recording" /\ file = <<[kind |-> "file", part |-> 1], [kind |-> "file", part |-> 2]>>
      /\ frame = <<>> /\ frame_index = 0 /\ offset = 2 /\ accepted = <<>> /\ cut = FALSE
  BY <1>1, Zenon DEF RecordingInit, HeaderSize
<1>3. /\ file \in Seq(Cells) /\ Len(file) = 2 /\ DOMAIN file = 1 .. 2
      /\ file[1].kind = "file" /\ file[2].kind = "file"
  <2>1. [kind |-> "file", part |-> 1] \in Cells /\ [kind |-> "file", part |-> 2] \in Cells
    BY Zenon DEF Cells
  <2>2. QED
    BY <1>2, <2>1
<1>4. \A k \in DOMAIN file : file[k].kind = "file"
  <2>1. \A k \in 1 .. 2 : k = 1 \/ k = 2
    OBVIOUS
  <2>2. QED
    BY <2>1, <1>3, Zenon
<1>5. 3 \notin DOMAIN file /\ 2 \in Nat /\ 0 \in Nat /\ Len(file) <= 2
  BY <1>3
<1>6. Layout(file, 2, 0, Len(accepted))
  BY <1>3, <1>4, <1>5, Zenon DEF Layout, HeaderIn
<1>7. Len(accepted) = 0 /\ accepted \in Seq(Devices)
  BY <1>2
<1>8. OpenFrame(<<>>, 2, 0, 0)
  BY FrameOfOne
<1>9. QED
  BY <1>2, <1>3, <1>6, <1>7, <1>8, Zenon DEF FileInv

(* The flush of an open frame, for the frame that follows. *)
LEMMA FlushStep ==
  ASSUME FileInv, ~cut, cut' = cut, frame # <<>>, NEW rest, NEW slot, Flushed(rest, slot),
         accepted' \in Seq(Devices), Len(accepted) <= Len(accepted'),
         \A e \in Nat, j \in Nat : e = 2 + 2 * j + 3 * Len(accepted) => OpenFrame(rest, e, j, Len(accepted')),
         phase' # "recording" => rest = <<>>
  PROVE  FileInv'
<1>1. /\ Layout(file, offset, frame_index, Len(accepted)) /\ Len(file) = offset
      /\ OpenFrame(frame, offset, frame_index, Len(accepted))
      /\ file \in Seq(Cells) /\ frame \in Seq(Cells) /\ offset \in Nat /\ frame_index \in Nat
      /\ Len(accepted) \in Nat /\ Len(accepted') \in Nat
  BY DEF FileInv, Layout, OpenFrame
<1>2. PICK g, h : /\ g = file \o Header(offset + HeaderSize + Len(frame)) \o frame
                  /\ h = offset + 2 + Len(frame)
  BY Zenon
<1>3. Extended(file, frame, g, offset, frame_index)
  BY <1>1, <1>2, FlushExtends, Zenon
<1>4. Layout(g, h, frame_index + 1, Len(accepted'))
  BY <1>1, <1>2, <1>3, LayoutGrows, Zenon
<1>5. /\ file' = g /\ offset' = h /\ frame_index' = frame_index + 1 /\ frame' = rest
  BY <1>2, Zenon DEF Flushed, HeaderSize
<1>6. Len(g) = h
  BY <1>2, <1>3, Zenon DEF Extended
<1>7. OpenFrame(rest, h, frame_index + 1, Len(accepted'))
  <2>1. PICK m \in Nat : m = Len(frame) /\ offset = 2 + 2 * frame_index + 3 * Len(accepted) - m
    <3>1. Len(frame) \in Nat
      BY <1>1
    <3>2. QED
      BY <3>1, <1>1, Zenon DEF OpenFrame
  <2>2. h \in Nat /\ frame_index + 1 \in Nat /\ h = 2 + 2 * (frame_index + 1) + 3 * Len(accepted)
    BY <2>1, <1>1, <1>2
  <2>3. QED
    BY <2>2, Zenon
<1>8. QED
  BY <1>4, <1>5, <1>6, <1>7, Zenon DEF FileInv

(* The file is left alone by the player, and after the first error nothing is said of it. *)
LEMMA FileStep ==
  ASSUME FileInv, write_error = FALSE, SlotInv, [RecordingNext]_recordingVars
  PROVE  write_error' = FALSE => FileInv'
<1>0. PICK n \in Nat : n = Len(accepted) /\ accepted \in Seq(Devices)
  BY DEF FileInv
<1>1. ASSUME NEW d \in Devices, NEW t \in Times, Write(d, t), write_error' = FALSE PROVE FileInv'
  <2>1. PICK slot :
          /\ phase = "recording" /\ phase' = phase /\ cut' = cut
          /\ accepted' = Append(accepted, d)
          /\ IF Past(slot) THEN Flushed(Package(Len(accepted) + 1), slot)
             ELSE /\ frame' = frame \o Package(Len(accepted) + 1)
                  /\ UNCHANGED <<file, offset, frame_index>>
    <3>1. \E slot : slot = (IF TimeAt(d, t) <= 0 THEN 0 ELSE TimeAt(d, t) \div Duration)
      BY Zenon
    <3>2. QED
      BY <3>1, <1>1, Zenon DEF Write, Recorded, TimeAt, BaseAt
  <2>2. accepted' \in Seq(Devices) /\ Len(accepted') = n + 1 /\ ~cut
    BY <2>1, <1>0 DEF FileInv
  <2>3. CASE Past(slot)
    <3>1. frame # <<>>
      BY <2>1, <2>3, Zenon DEF SlotInv, Past
    <3>2. Flushed(Package(n + 1), slot)
      BY <2>1, <2>3, <1>0, Zenon
    <3>3. \A e \in Nat, j \in Nat : e = 2 + 2 * j + 3 * n => OpenFrame(Package(n + 1), e, j, n + 1)
      BY FrameOfOne, Zenon
    <3>4. n <= n + 1
      OBVIOUS
    <3>5. QED
      BY <3>1, <3>2, <3>3, <3>4, <2>1, <2>2, <1>0, FlushStep, Zenon
  <2>4. CASE ~Past(slot)
    <3>1. /\ OpenFrame(frame, offset, frame_index, n) /\ Layout(file, offset, frame_index, n)
          /\ frame_index \in Nat /\ Len(file) = offset
      BY <2>2, <1>0, Zenon DEF FileInv, Layout
    <3>2. OpenFrame(frame', offset', frame_index', Len(accepted'))
      BY <3>1, <2>1, <2>2, <2>4, <1>0, FrameGrows, Zenon
    <3>3. Layout(file, offset, frame_index, n + 1)
      <4>1. \A k \in 1 .. n : k \in 1 .. n + 1
        OBVIOUS
      <4>2. QED
        BY <3>1, <4>1, Zenon DEF Layout
    <3>4. QED
      BY <3>1, <3>2, <3>3, <2>1, <2>2, <2>4, Zenon DEF FileInv
  <2>5. QED
    BY <2>3, <2>4, Zenon
<1>2. ASSUME Close, write_error' = FALSE PROVE FileInv'
  <2>1. phase = "recording" /\ phase' = "recorded" /\ accepted' = accepted /\ cut' = cut /\ ~cut
    BY <1>2, Zenon DEF Close, FileInv
  <2>2. CASE frame = <<>>
    <3>1. UNCHANGED <<file, offset, frame_index, frame>>
      BY <1>2, <2>2, Zenon DEF Close
    <3>2. QED
      BY <3>1, <2>1, <2>2, Zenon DEF FileInv
  <2>3. CASE frame # <<>>
    <3>1. Flushed(<<>>, Unset)
      BY <1>2, <2>3, Zenon DEF Close
    <3>2. \A e \in Nat, j \in Nat : e = 2 + 2 * j + 3 * n => OpenFrame(<<>>, e, j, n)
      BY FrameOfOne, Zenon
    <3>3. n <= n
      OBVIOUS
    <3>4. QED
      BY <3>1, <3>2, <3>3, <2>1, <2>3, <1>0, FlushStep, Zenon
  <2>4. QED
    BY <2>2, <2>3, Zenon
<1>3. ASSUME Killed PROVE FileInv'
  <2>1. PICK l \in 0 .. Len(file) : file' = SubSeq(file, 1, l)
    BY <1>3, Zenon DEF Killed
  <2>2. /\ phase' = "recorded" /\ cut' = TRUE /\ UNCHANGED <<offset, frame_index, accepted>>
    BY <1>3, Zenon DEF Killed, writerVars
  <2>3. Layout(file', offset, frame_index, Len(accepted))
    BY <2>1, LayoutCut, Zenon DEF FileInv
  <2>4. QED
    BY <2>2, <2>3, <1>0, Zenon DEF FileInv
<1>4. CASE Open \/ LoadFrame \/ NextPacket \/ Stop \/ Stopped \/ UNCHANGED recordingVars
  <2>1. /\ UNCHANGED <<file, offset, frame_index, accepted, frame, cut>>
        /\ phase' = "recording" <=> phase = "recording"
    BY <1>4, Zenon DEF Open, LoadFrame, NextPacket, Stop, Stopped, Fail, EndPass, recordingVars, writerVars
  <2>2. QED
    BY <2>1, Zenon DEF FileInv
<1>5. QED
  BY <1>1, <1>2, <1>3, <1>4, Zenon DEF RecordingNext

LEMMA SlotInit == RecordingInit => SlotInv
<1>1. SUFFICES ASSUME RecordingInit PROVE SlotInv
  OBVIOUS
<1>2. /\ accepted = <<>> /\ latest = 0 /\ slots = <<>> /\ frame = <<>> /\ frame_slot = Unset
      /\ clocks = [d \in Devices |-> [base |-> Unset, prev |-> 0]]
  BY <1>1, Zenon DEF RecordingInit
<1>3. QED
  BY <1>2 DEF SlotInv

(* A slot appended that is later than all. *)
LEMMA SlotsGrow ==
  ASSUME NEW s \in Seq(Nat), NEW x \in Nat, \A i \in 1 .. Len(s) : s[i] < x,
         \A i \in 1 .. Len(s) - 1 : s[i] < s[i + 1]
  PROVE  /\ Append(s, x) \in Seq(Nat) /\ Len(Append(s, x)) = Len(s) + 1
         /\ \A i \in 1 .. Len(Append(s, x)) : Append(s, x)[i] <= x
         /\ \A i \in 1 .. Len(Append(s, x)) - 1 : Append(s, x)[i] < Append(s, x)[i + 1]
<1>1. PICK t : t = Append(s, x)
  BY Zenon
<1>2. PICK n \in Nat : n = Len(s)
  OBVIOUS
<1>3. t \in Seq(Nat) /\ Len(t) = n + 1 /\ t[n + 1] = x /\ \A i \in 1 .. n : t[i] = s[i] /\ s[i] \in Nat
  BY <1>1, <1>2
<1>4. \A i \in 1 .. n + 1 : t[i] <= x
  BY <1>2, <1>3
<1>5. \A i \in 1 .. n : t[i] < t[i + 1]
  <2>1. SUFFICES ASSUME NEW i \in 1 .. n PROVE t[i] < t[i + 1]
    BY Zenon
  <2>2. CASE i = n
    BY <2>2, <1>2, <1>3, Zenon
  <2>3. CASE i < n
    <3>1. i + 1 \in 1 .. n /\ i \in 1 .. Len(s) - 1
      BY <2>3, <1>2
    <3>2. QED
      BY <3>1, <1>3, Zenon
  <2>4. QED
    BY <2>2, <2>3
<1>6. (n + 1) - 1 = n /\ Len(t) = n + 1
  BY <1>3
<1>7. QED
  BY <1>1, <1>2, <1>3, <1>4, <1>5, <1>6, Zenon

LEMMA SlotStep ==
  ASSUME SlotInv, [RecordingNext]_recordingVars
  PROVE  SlotInv'
<1>1. ASSUME NEW d \in Devices, NEW t \in Times, Write(d, t) PROVE SlotInv'
  <2>1. PICK b, y, slot : /\ b = BaseAt(d, t) /\ y = TimeAt(d, t)
                          /\ slot = IF y <= 0 THEN 0 ELSE y \div Duration
    BY Zenon
  <2>2. /\ phase = "recording" /\ phase' = phase
        /\ clocks' = [clocks EXCEPT ![d] = [base |-> b, prev |-> t]]
        /\ latest' = IF y > latest THEN y ELSE latest
    BY <1>1, <2>1, Zenon DEF Write, Recorded, BaseAt, TimeAt
  <2>3. \/ UNCHANGED <<accepted, slots, frame, frame_slot>>
        \/ /\ accepted' = Append(accepted, d)
           /\ Past(slot) /\ Flushed(Package(Len(accepted) + 1), slot)
        \/ /\ accepted' = Append(accepted, d)
           /\ ~Past(slot)
           /\ frame' = frame \o Package(Len(accepted) + 1)
           /\ frame_slot' = IF frame_slot = Unset THEN slot ELSE frame_slot
           /\ slots' = slots
    BY <1>1, <2>1, Zenon DEF Write, Recorded, BaseAt, TimeAt, FlushFails
  <2>4. PICK M \in Nat : TimeMod = M /\ M > 0 /\ t \in Int
    BY RecordingAssumption
  <2>5. b \in Int
    <3>1. CASE Rejoins(d, t)
      <4>1. (t - latest) % M \in Int
        BY <2>4 DEF SlotInv
      <4>2. QED
        BY <4>1, <3>1, <2>1, <2>4, Zenon DEF BaseAt
    <3>2. CASE ~Rejoins(d, t)
      BY <3>2, <2>1, Zenon DEF BaseAt, Rejoins, SlotInv
    <3>3. QED
      BY <3>1, <3>2, Zenon
  <2>6. y \in Int
    <3>1. (t - b) % M \in Int
      BY <2>4, <2>5
    <3>2. QED
      BY <3>1, <2>1, <2>4 DEF TimeAt, Signed
  <2>7. slot \in Nat
    <3>1. Duration \in Nat /\ Duration > 0
      BY RecordingAssumption
    <3>2. y > 0 => y \div Duration \in Nat
      BY <3>1, <2>6
    <3>3. QED
      BY <3>2, <2>1, <2>6
  <2>8. /\ latest' \in Int /\ DOMAIN clocks' = Devices
        /\ \A x \in Devices : clocks'[x].base \in Int \cup {Unset} /\ clocks'[x].prev \in Int
    BY <2>2, <2>4, <2>5, <2>6, Zenon DEF SlotInv
  <2>9. PICK n \in Nat : n = Len(accepted) /\ accepted \in Seq(Devices)
    BY DEF SlotInv
  <2>10. /\ Append(accepted, d) \in Seq(Devices) /\ Package(n + 1) \in Seq(Cells)
         /\ Len(Package(n + 1)) = 3
    BY <2>9, PackageCells
  <2>11. slot # Unset
    BY <2>7, RecordingAssumption
  <2>12. CASE UNCHANGED <<accepted, slots, frame, frame_slot>>
    BY <2>2, <2>8, <2>12, Zenon DEF SlotInv
  <2>13. CASE /\ accepted' = Append(accepted, d)
              /\ Past(slot) /\ Flushed(Package(Len(accepted) + 1), slot)
    <3>1. /\ frame' = Package(n + 1) /\ frame_slot' = slot /\ slots' = Append(slots, frame_slot)
      BY <2>13, <2>9, Zenon DEF Flushed
    <3>2. frame_slot \in Nat /\ slot > frame_slot
      BY <2>2, <2>13, Zenon DEF Past, SlotInv
    <3>3. /\ slots' \in Seq(Nat)
          /\ \A i \in 1 .. Len(slots') : slots'[i] <= frame_slot
          /\ \A i \in 1 .. Len(slots') - 1 : slots'[i] < slots'[i + 1]
      <4>1. /\ slots \in Seq(Nat) /\ \A i \in 1 .. Len(slots) : slots[i] < frame_slot
            /\ \A i \in 1 .. Len(slots) - 1 : slots[i] < slots[i + 1]
        BY <2>2 DEF SlotInv
      <4>2. QED
        BY <3>1, <3>2, <4>1, SlotsGrow, Zenon
    <3>4. \A i \in 1 .. Len(slots') : slots'[i] < slot
      <4>1. \A i \in 1 .. Len(slots') : slots'[i] \in Nat
        BY <3>3
      <4>2. QED
        BY <4>1, <3>2, <3>3, <2>7
    <3>5. frame' # <<>>
      <4>1. Len(frame') = 3
        BY <3>1, <2>10, Zenon
      <4>2. QED
        BY <4>1
    <3>6. QED
      BY <3>1, <3>3, <3>4, <3>5, <2>2, <2>7, <2>8, <2>10, <2>11, <2>13, Zenon DEF SlotInv
  <2>14. CASE /\ accepted' = Append(accepted, d)
              /\ ~Past(slot)
              /\ frame' = frame \o Package(Len(accepted) + 1)
              /\ frame_slot' = IF frame_slot = Unset THEN slot ELSE frame_slot
              /\ slots' = slots
    <3>1. frame' \in Seq(Cells) /\ frame' # <<>>
      <4>1. frame \in Seq(Cells)
        BY <2>2, Zenon DEF SlotInv
      <4>2. frame' \in Seq(Cells) /\ Len(frame') = Len(frame) + 3
        <5>1. PICK p : p = Package(n + 1) /\ p \in Seq(Cells) /\ Len(p) = 3
          BY <2>10, Zenon
        <5>2. frame' = frame \o p
          BY <5>1, <2>9, <2>14, Zenon
        <5>3. p \in Seq(Cells)
          BY <5>1, Zenon
        <5>4. frame \o p \in Seq(Cells) /\ Len(frame \o p) = Len(frame) + Len(p)
          BY <4>1, <5>3
        <5>5. QED
          BY <5>1, <5>2, <5>4, Zenon
      <4>3. QED
        BY <4>1, <4>2
    <3>2. frame_slot' # Unset /\ frame_slot' \in Nat /\ \A i \in 1 .. Len(slots') : slots'[i] < frame_slot'
      BY <2>2, <2>7, <2>11, <2>14 DEF SlotInv
    <3>3. QED
      BY <3>1, <3>2, <2>2, <2>8, <2>10, <2>14, Zenon DEF SlotInv
  <2>15. QED
    BY <2>3, <2>12, <2>13, <2>14, Zenon
<1>2. CASE Close
  <2>1. /\ phase = "recording" /\ phase' = "recorded" /\ UNCHANGED <<accepted, latest, clocks>>
        /\ \/ slots' = slots
           \/ frame # <<>> /\ slots' = Append(slots, frame_slot)
    BY <1>2, Zenon DEF Close, Flushed, FlushFails
  <2>2. CASE slots' = slots
    BY <2>1, <2>2, Zenon DEF SlotInv
  <2>3. CASE frame # <<>> /\ slots' = Append(slots, frame_slot)
    <3>1. /\ slots' \in Seq(Nat)
          /\ \A i \in 1 .. Len(slots') - 1 : slots'[i] < slots'[i + 1]
      BY <2>1, <2>3, SlotsGrow, Zenon DEF SlotInv
    <3>2. QED
      BY <3>1, <2>1, Zenon DEF SlotInv
  <2>4. QED
    BY <2>1, <2>2, <2>3, Zenon
<1>3. CASE Killed \/ Open \/ LoadFrame \/ NextPacket \/ Stop \/ Stopped \/ UNCHANGED recordingVars
  <2>1. /\ UNCHANGED <<accepted, latest, clocks, slots, frame, frame_slot>>
        /\ phase' = "recording" => phase = "recording"
    BY <1>3, Zenon DEF Killed, Open, LoadFrame, NextPacket, Stop, Stopped, Fail, EndPass, recordingVars,
                writerVars
  <2>2. QED
    BY <2>1, Zenon DEF SlotInv
<1>4. QED
  BY <1>1, <1>2, <1>3, Zenon DEF RecordingNext

-----------------------------------------------------------------------------
(* The packages that a reader has read, and where it is in the frame: the cells of the frame's   *)
(* body go on where the packages read end.                                                        *)
Begin(r) == r.at - Len(r.body)

ReadSoFar(r, f, n) ==
  /\ r.got \in Seq(Nat) /\ r.body \in Seq(Cells) /\ r.truncated \in BOOLEAN
  /\ r.at \in Nat /\ r.pos \in Nat /\ r.offset \in Nat
  /\ \A i \in 1 .. Len(r.got) : r.got[i] = i
  /\ Len(r.got) <= n
  /\ r.at >= 2 /\ r.at <= Len(f) /\ Begin(r) >= 2
  /\ r.pos <= Len(r.body) /\ r.pos % 3 = 0 /\ r.pos <= 3 * Len(r.got)
  /\ \A c \in 1 .. Len(r.body) : /\ r.body[c] = Cell(3 * Len(r.got) - r.pos + c - 1)
                                 /\ r.body[c] = f[Begin(r) + c]
  /\ \A c \in 1 .. Begin(r) + r.pos : f[c].kind = "points" => f[c].id <= Len(r.got)
  /\ \A i \in 1 .. Len(r.got) : \E c \in DOMAIN f : f[c].kind = "points" /\ f[c].id = i

(* What it will find after the body: the header of the next frame, or the end of the file. *)
ReadNext(r, f, j, k) ==
  /\ r.truncated =>
       k /\ r.at = Len(f) /\ \E c \in DOMAIN f : HeaderIn(f, c) /\ f[c].next > Len(f)
  /\ ~r.truncated =>
       /\ Len(r.body) % 3 = 0 /\ r.offset = r.at
       /\ r.at < Len(f) =>
            /\ HeaderIn(f, r.at + 1)
            /\ 2 * f[r.at + 1].index = Begin(r) - 2 - 3 * Len(r.got) + r.pos
       /\ ~k /\ r.at = Len(f) => 2 * j = Begin(r) - 2 - 3 * Len(r.got) + r.pos
       /\ \A c \in 1 .. r.at : HeaderIn(f, c) => f[c].next <= r.at

(* At the end of a pass: all points are read, and the end is told if the last frame is cut. *)
PassOver(r, f, n, k) ==
  /\ \A c \in DOMAIN f : f[c].kind = "points" => f[c].id <= Len(r.got)
  /\ ~k => Len(r.got) = n /\ ~r.truncated
  /\ r.truncated <=> \E c \in DOMAIN f : HeaderIn(f, c) /\ f[c].next > Len(f)

(* The file as the player finds it. *)
Finished(f, e, j, n, k) ==
  /\ e \in Nat /\ j \in Nat /\ n \in Nat /\ Layout(f, e, j, n)
  /\ ~k => Len(f) = e /\ e = 2 + 2 * j + 3 * n

LEMMA ThreeTimes == \A a \in Nat : a % 3 = 0 => \E q \in Nat : a = 3 * q
<1>1. SUFFICES ASSUME NEW a \in Nat, a % 3 = 0 PROVE \E q \in Nat : a = 3 * q
  BY Zenon
<1>2. a \div 3 \in Nat /\ a = 3 * (a \div 3)
  BY <1>1
<1>3. QED
  BY <1>2, Zenon

LEMMA OpenedReads ==
  ASSUME NEW f, NEW e, NEW j, NEW n, NEW k \in BOOLEAN, Finished(f, e, j, n, k), Len(f) >= 2
  PROVE  ReadSoFar(Opened, f, n) /\ ReadNext(Opened, f, j, k)
<1>1. /\ Opened.at = 2 /\ Opened.offset = 2 /\ Opened.body = <<>> /\ Opened.pos = 0
      /\ Opened.truncated = FALSE /\ Opened.got = <<>>
  BY Zenon DEF Opened, NoReader, HeaderSize
<1>2. /\ Len(f) \in Nat /\ DOMAIN f = 1 .. Len(f) /\ n \in Nat /\ j \in Nat
      /\ \A c \in DOMAIN f : c <= 2 => f[c].kind = "file"
      /\ 3 \in DOMAIN f => HeaderIn(f, 3) /\ f[3].index = 0
  BY DEF Finished, Layout
<1>3. Begin(Opened) = 2 /\ Len(Opened.body) = 0 /\ Len(Opened.got) = 0
  BY <1>1 DEF Begin
<1>4. \A c \in 1 .. 2 : f[c].kind = "file"
  BY <1>2
<1>a. /\ <<>> \in Seq(Nat) /\ <<>> \in Seq(Cells) /\ 0 % 3 = 0 /\ 0 <= 3 * 0 /\ 2 + 0 = 2
      /\ 0 <= n /\ 2 <= Len(f) /\ 2 >= 2 /\ 0 <= 0 /\ 0 \in Nat /\ 2 \in Nat /\ 1 .. 0 = {}
  BY <1>2
<1>b. "file" # "points"
  BY Zenon
<1>5. ReadSoFar(Opened, f, n)
  BY <1>1, <1>3, <1>4, <1>a, <1>b, Zenon DEF ReadSoFar
<1>6. 2 < Len(f) => HeaderIn(f, 3) /\ f[3].index = 0
  BY <1>2
<1>7. ~k /\ Len(f) = 2 => j = 0
  BY <1>2 DEF Finished
<1>8. \A c \in 1 .. 2 : ~HeaderIn(f, c)
  BY <1>4, Zenon DEF HeaderIn
<1>9. ReadNext(Opened, f, j, k)
  BY <1>1, <1>2, <1>3, <1>6, <1>7, <1>8 DEF ReadNext
<1>10. QED
  BY <1>5, <1>9, Zenon

(* Less than a package header is left of the body. *)
BodyDone(r) == r.pos + 2 > Len(r.body)

LEMMA ReaderNats ==
  ASSUME NEW r, NEW f, NEW n, ReadSoFar(r, f, n)
  PROVE  /\ r.at \in Nat /\ Len(r.got) \in Nat /\ r.pos \in Nat /\ Len(r.body) \in Nat
         /\ r.at >= 2 /\ r.at <= Len(f) /\ r.pos <= Len(r.body)
<1>1. r.got \in Seq(Nat) /\ r.body \in Seq(Cells)
  BY Zenon DEF ReadSoFar
<1>2. Len(r.got) \in Nat /\ Len(r.body) \in Nat
  BY <1>1
<1>3. QED
  BY <1>2, Zenon DEF ReadSoFar

LEMMA FileNats ==
  ASSUME NEW f, NEW e, NEW j, NEW n, NEW k, Finished(f, e, j, n, k)
  PROVE  /\ f \in Seq(Cells) /\ Len(f) \in Nat /\ DOMAIN f = 1 .. Len(f) /\ e \in Nat /\ j \in Nat
         /\ n \in Nat /\ Len(f) <= e
BY DEF Finished, Layout

(* A body that is not cut is read to its end before the next frame is loaded. *)
LEMMA BodyRead ==
  ASSUME NEW r, NEW f, NEW n, NEW j, NEW k, ReadSoFar(r, f, n), ReadNext(r, f, j, k),
         ~r.truncated, BodyDone(r)
  PROVE  r.pos = Len(r.body)
<1>1. PICK p \in Nat, l \in Nat : p = r.pos /\ l = Len(r.body) /\ p % 3 = 0 /\ p <= l
  BY DEF ReadSoFar
<1>2. l % 3 = 0
  BY <1>1, Zenon DEF ReadNext
<1>3. PICK x \in Nat, y \in Nat : p = 3 * x /\ l = 3 * y
  BY <1>1, <1>2, ThreeTimes, Zenon
<1>4. p + 2 > l
  BY <1>1, Zenon DEF BodyDone
<1>5. p = l
  BY <1>1, <1>3, <1>4
<1>6. QED
  BY <1>1, <1>5, Zenon

(* The size of the body of a frame. *)
LEMMA BodySize ==
  ASSUME NEW a \in Nat, NEW x \in Nat, x >= a + 5
  PROVE  x - a - 2 \in Nat /\ x - a - 2 >= 3 /\ x = a + 2 + (x - a - 2)
  OBVIOUS

(* The frame that load_frame() finds is the next one of the chain. *)
LEMMA NextFrame ==
  ASSUME NEW r, NEW f, NEW e, NEW j, NEW n, NEW k, Finished(f, e, j, n, k),
         ReadSoFar(r, f, n), ReadNext(r, f, j, k), BodyDone(r), r.at # Len(f)
  PROVE  /\ ~r.truncated /\ r.pos = Len(r.body) /\ r.offset = r.at
         /\ r.at + 1 \in DOMAIN f /\ HeaderIn(f, r.at + 1) /\ FrameIn(f, r.at + 1, e, j)
         /\ FirstOf(f, r.at + 1) = 3 * Len(r.got)
         /\ 2 * f[r.at + 1].index = r.at - 2 - 3 * Len(r.got)
         /\ f[r.at + 1].current = r.at
<1>1. PICK a \in Nat, g \in Nat, l \in Nat, p \in Nat, b \in Nat :
        a = r.at /\ g = Len(r.got) /\ l = Len(f) /\ p = r.pos /\ b = Len(r.body)
  BY ReaderNats, FileNats, Zenon
<1>a. a < l
  BY <1>1, ReaderNats, FileNats
<1>2. ~r.truncated
  BY Zenon DEF ReadNext
<1>3. p = b
  BY <1>1, <1>2, BodyRead, Zenon
<1>4. r.offset = a /\ HeaderIn(f, a + 1) /\ 2 * f[a + 1].index = Begin(r) - 2 - 3 * g + p
  BY <1>1, <1>2, <1>a, Zenon DEF ReadNext
<1>5. Begin(r) = a - b
  BY <1>1, Zenon DEF Begin
<1>6. 2 * f[a + 1].index = a - 2 - 3 * g
  <2>1. (a - b) - 2 - 3 * g + b = a - 2 - 3 * g
    OBVIOUS
  <2>2. QED
    BY <2>1, <1>3, <1>4, <1>5, Zenon
<1>7. a + 1 \in DOMAIN f
  BY <1>1, <1>a, FileNats
<1>8. FrameIn(f, a + 1, e, j)
  BY <1>4, <1>7, Zenon DEF Finished, Layout
<1>9. f[a + 1].index \in Nat /\ f[a + 1].current = (a + 1) - 1
  BY <1>8, Zenon DEF FrameIn
<1>10. FirstOf(f, a + 1) = 3 * g
  <2>1. PICK i \in Nat : i = f[a + 1].index
    BY <1>9, Zenon
  <2>a. 2 * i = a - 2 - 3 * g
    BY <1>6, <2>1, Zenon
  <2>2. (a + 1) - 3 - 2 * i = 3 * g
    BY <2>a
  <2>3. QED
    BY <2>1, <2>2, Zenon DEF FirstOf
<1>11. f[a + 1].current = a
  BY <1>1, <1>9
<1>12. QED
  BY <1>1, <1>2, <1>3, <1>4, <1>6, <1>7, <1>8, <1>10, <1>11, Zenon

(* A part of a sequence. *)
LEMMA Part ==
  ASSUME NEW f \in Seq(Cells), NEW l \in Nat, Len(f) = l, NEW a \in Nat, NEW y \in Nat, a + 2 + y <= l
  PROVE  /\ SubSeq(f, a + 3, a + 2 + y) \in Seq(Cells) /\ Len(SubSeq(f, a + 3, a + 2 + y)) = y
         /\ \A c \in 1 .. y : SubSeq(f, a + 3, a + 2 + y)[c] = f[a + 2 + c]
<1>1. a + 3 \in 1 .. l + 1 /\ a + 2 + y \in 0 .. l
  OBVIOUS
<1>2. PICK s : s = SubSeq(f, a + 3, a + 2 + y)
  BY Zenon
<1>3. s \in Seq(Cells)
  BY <1>1, <1>2
<1>4. Len(s) = y
  BY <1>2
<1>5. \A c \in 1 .. y : s[c] = f[(a + 3) + c - 1]
  BY <1>2
<1>6. \A c \in 1 .. y : (a + 3) + c - 1 = a + 2 + c
  OBVIOUS
<1>7. QED
  BY <1>2, <1>3, <1>4, <1>5, <1>6, Zenon

(* A frame is loaded as far as it is there. *)
Loaded(q, r, f) ==
  LET left == Len(f) - r.at - 2
      size == f[r.at + 1].next - r.at - 2
      m == IF left < size THEN left ELSE size
  IN
  /\ left >= 0
  /\ q.at = r.at + 2 + m /\ q.offset = f[r.at + 1].next /\ q.pos = 0 /\ q.got = r.got
  /\ q.body = SubSeq(f, r.at + 3, r.at + 2 + m)
  /\ q.truncated = (left < size)

LEMMA LoadReads ==
  ASSUME NEW r, NEW f, NEW e, NEW j, NEW n, NEW k \in BOOLEAN, Finished(f, e, j, n, k),
         ReadSoFar(r, f, n), ReadNext(r, f, j, k), BodyDone(r), NEW q, Loaded(q, r, f)
  PROVE  ReadSoFar(q, f, n) /\ ReadNext(q, f, j, k)
<1>0. PICK a \in Nat, g \in Nat, l \in Nat : a = r.at /\ g = Len(r.got) /\ l = Len(f)
  BY ReaderNats, FileNats, Zenon
<1>1. /\ a \in Nat /\ g \in Nat /\ l \in Nat /\ a + 2 <= l /\ a >= 2
      /\ f \in Seq(Cells) /\ DOMAIN f = 1 .. l /\ l = Len(f)
  BY <1>0, ReaderNats, FileNats DEF Loaded
<1>2. /\ ~r.truncated /\ r.pos = Len(r.body) /\ r.offset = a
      /\ HeaderIn(f, a + 1) /\ FrameIn(f, a + 1, e, j)
      /\ FirstOf(f, a + 1) = 3 * g /\ 2 * f[a + 1].index = a - 2 - 3 * g
  <2>1. r.at # Len(f)
    BY <1>0, <1>1
  <2>2. QED
    BY <2>1, <1>0, NextFrame, Zenon
<1>3. PICK x \in Nat, i \in Nat :
        /\ x = f[a + 1].next /\ i = f[a + 1].index /\ x >= a + 5 /\ x <= e /\ (x - a - 2) % 3 = 0
        /\ x = e => i + 1 = j
        /\ x + 1 \in DOMAIN f => HeaderIn(f, x + 1) /\ f[x + 1].index = i + 1
        /\ a + 2 \in DOMAIN f => f[a + 2].kind = "frame" /\ f[a + 2].part = 2
        /\ \A c \in DOMAIN f : a + 3 <= c /\ c <= x => f[c] = Cell(3 * g + (c - a - 3))
  <2>1. PICK x \in Nat, i \in Nat : x = f[a + 1].next /\ i = f[a + 1].index
    BY <1>2, Zenon DEF FrameIn
  <2>2. /\ x >= (a + 1) + 4 /\ x <= e /\ (x - (a + 1) - 1) % 3 = 0
        /\ x = e => i + 1 = j
        /\ x + 1 \in DOMAIN f => HeaderIn(f, x + 1) /\ f[x + 1].index = i + 1
        /\ (a + 1) + 1 \in DOMAIN f => f[(a + 1) + 1].kind = "frame" /\ f[(a + 1) + 1].part = 2
        /\ \A c \in DOMAIN f : (a + 1) + 2 <= c /\ c <= x => f[c] = Cell(3 * g + (c - (a + 1) - 2))
    BY <2>1, <1>2, Zenon DEF FrameIn
  <2>3. (a + 1) + 4 = a + 5 /\ x - (a + 1) - 1 = x - a - 2 /\ (a + 1) + 1 = a + 2 /\ (a + 1) + 2 = a + 3
    OBVIOUS
  <2>4. \A c \in DOMAIN f : c - (a + 1) - 2 = c - a - 3
    BY <1>1
  <2>5. QED
    BY <2>1, <2>2, <2>3, <2>4, Zenon
<1>4. PICK size \in Nat : size = x - a - 2 /\ size >= 3 /\ size % 3 = 0
  BY <1>3, BodySize, Zenon
<1>a. x \in Nat /\ i \in Nat /\ x = a + 2 + size /\ size \in Nat /\ x <= e
  BY <1>3, <1>4, BodySize, Zenon
<1>c. a + 2 <= l /\ a >= 2
  BY <1>1, Zenon
<1>5. PICK y \in Nat : /\ y <= size /\ a + 2 + y <= l
                       /\ y = IF l - a - 2 < size THEN l - a - 2 ELSE size
  <2>1. CASE l - a - 2 < size
    <3>1. l - a - 2 \in Nat /\ l - a - 2 <= size /\ a + 2 + (l - a - 2) <= l
      BY <1>c, <2>1
    <3>2. QED
      BY <3>1, <2>1, Zenon
  <2>2. CASE ~(l - a - 2 < size)
    <3>1. size <= size /\ a + 2 + size <= l
      BY <1>c, <2>2
    <3>2. QED
      BY <3>1, <2>2, Zenon
  <2>3. QED
    BY <2>1, <2>2, Zenon
<1>6. /\ q.at = a + 2 + y /\ q.offset = x /\ q.pos = 0 /\ q.got = r.got
      /\ q.body = SubSeq(f, a + 3, a + 2 + y) /\ q.truncated = (l - a - 2 < size)
  BY <1>0, <1>3, <1>4, <1>5, Zenon DEF Loaded
<1>b. q.at \in Nat /\ q.at >= 2 /\ q.at <= l
  <2>1. a + 2 + y \in Nat /\ a + 2 + y >= 2 /\ a + 2 + y <= l
    BY <1>5
  <2>2. QED
    BY <2>1, <1>6, Zenon
<1>7. /\ q.body \in Seq(Cells) /\ Len(q.body) = y
      /\ \A c \in 1 .. y : q.body[c] = f[a + 2 + c]
  <2>1. /\ SubSeq(f, a + 3, a + 2 + y) \in Seq(Cells) /\ Len(SubSeq(f, a + 3, a + 2 + y)) = y
        /\ \A c \in 1 .. y : SubSeq(f, a + 3, a + 2 + y)[c] = f[a + 2 + c]
    <3>1. f \in Seq(Cells) /\ Len(f) = l /\ a + 2 + y <= l /\ a \in Nat /\ y \in Nat
      BY <1>1, <1>5, Zenon
    <3>2. QED
      BY <3>1, Part
  <2>2. QED
    BY <2>1, <1>6, Zenon
<1>8. Begin(q) = a + 2
  BY <1>5, <1>6, <1>7 DEF Begin
<1>9. Len(q.got) = g
  BY <1>0, <1>6, Zenon
<1>10. ASSUME NEW c \in 1 .. y
       PROVE  q.body[c] = Cell(3 * g - 0 + c - 1) /\ q.body[c] = f[Begin(q) + c]
  <2>1. a + 2 + c \in DOMAIN f /\ a + 3 <= a + 2 + c /\ a + 2 + c <= x
    <3>1. a + 2 + c \in 1 .. l /\ a + 3 <= a + 2 + c /\ a + 2 + c <= x
      BY <1>5, <1>a
    <3>2. QED
      BY <3>1, <1>1, Zenon
  <2>2. 3 * g + ((a + 2 + c) - a - 3) = 3 * g - 0 + c - 1
    OBVIOUS
  <2>3. f[a + 2 + c] = Cell(3 * g + ((a + 2 + c) - a - 3))
    BY <2>1, <1>3, Zenon
  <2>4. QED
    BY <2>2, <2>3, <1>7, <1>8, Zenon
<1>11. ASSUME NEW c \in 1 .. a + 2, f[c].kind = "points" PROVE f[c].id <= g
  <2>1. CASE c \in 1 .. a
    <3>1. Begin(r) + r.pos = a
      <4>1. PICK b \in Nat : b = Len(r.body)
        BY ReaderNats, Zenon
      <4>2. (a - b) + b = a
        BY <1>1
      <4>3. QED
        BY <4>1, <4>2, <1>0, <1>2, Zenon DEF Begin
    <3>2. QED
      BY <3>1, <2>1, <1>0, <1>11, Zenon DEF ReadSoFar
  <2>2. f[a + 1].kind = "frame" /\ f[a + 2].kind = "frame"
    <3>1. a + 2 \in DOMAIN f
      BY <1>1
    <3>2. QED
      BY <3>1, <1>2, <1>3, Zenon DEF HeaderIn
  <2>3. c \in 1 .. a \/ c = a + 1 \/ c = a + 2
    BY <1>1
  <2>4. QED
    BY <2>1, <2>2, <2>3, <1>11, Zenon
<1>12. ReadSoFar(q, f, n)
  <2>1. /\ q.got \in Seq(Nat) /\ (\A i1 \in 1 .. Len(q.got) : q.got[i1] = i1) /\ Len(q.got) <= n
        /\ \A i1 \in 1 .. Len(q.got) : \E c \in DOMAIN f : f[c].kind = "points" /\ f[c].id = i1
    BY <1>6, Zenon DEF ReadSoFar
  <2>2. /\ q.at \in Nat /\ q.pos \in Nat /\ q.offset \in Nat /\ q.at >= 2 /\ q.at <= Len(f)
        /\ Begin(q) >= 2 /\ q.pos <= Len(q.body) /\ q.pos % 3 = 0 /\ q.pos <= 3 * Len(q.got)
        /\ Begin(q) + q.pos = a + 2
    <3>1. /\ 0 <= y /\ 0 % 3 = 0 /\ 0 <= 3 * g /\ (a + 2) + 0 = a + 2 /\ a + 2 >= 2 /\ 0 \in Nat
      OBVIOUS
    <3>2. QED
      BY <3>1, <1>1, <1>a, <1>b, <1>6, <1>7, <1>8, <1>9, Zenon
  <2>3. q.truncated \in BOOLEAN
    BY <1>6
  <2>4. QED
    BY <2>1, <2>2, <2>3, <1>6, <1>7, <1>9, <1>10, <1>11, Zenon DEF ReadSoFar
<1>13. q.truncated => k /\ q.at = Len(f) /\ \E c \in DOMAIN f : HeaderIn(f, c) /\ f[c].next > Len(f)
  <2>1. SUFFICES ASSUME l - a - 2 < size
                 PROVE  k /\ q.at = l /\ \E c \in DOMAIN f : HeaderIn(f, c) /\ f[c].next > l
    BY <1>1, <1>6, Zenon
  <2>2. q.at = l /\ a + 1 \in DOMAIN f /\ x > l
    <3>1. a + 2 + y = l /\ a + 1 \in 1 .. l /\ x > l
      BY <2>1, <1>1, <1>5, <1>a
    <3>2. QED
      BY <3>1, <1>1, <1>6, Zenon
  <2>3. k
    <3>1. e # l
      BY <2>2, <1>1, <1>a, FileNats
    <3>2. QED
      BY <3>1, <1>0, Zenon DEF Finished
  <2>4. QED
    BY <2>2, <2>3, <1>2, <1>3, Zenon
<1>14. ASSUME ~q.truncated
       PROVE  /\ Len(q.body) % 3 = 0 /\ q.offset = q.at
              /\ q.at < Len(f) =>
                   /\ HeaderIn(f, q.at + 1)
                   /\ 2 * f[q.at + 1].index = Begin(q) - 2 - 3 * Len(q.got) + q.pos
              /\ ~k /\ q.at = Len(f) => 2 * j = Begin(q) - 2 - 3 * Len(q.got) + q.pos
              /\ \A c \in 1 .. q.at : HeaderIn(f, c) => f[c].next <= q.at
  <2>1. y = size /\ q.at = x /\ q.offset = x
    BY <1>1, <1>5, <1>6, <1>14, <1>a, Zenon
  <2>2. Len(q.body) % 3 = 0
    BY <2>1, <1>4, <1>7, Zenon
  <2>3. Begin(q) - 2 - 3 * Len(q.got) + q.pos = 2 * (i + 1)
    <3>1. 2 * i = a - 2 - 3 * g
      BY <1>2, <1>3, Zenon
    <3>2. (a + 2) - 2 - 3 * g + 0 = 2 * (i + 1)
      BY <3>1, <1>1, <1>a
    <3>3. QED
      BY <3>2, <1>6, <1>8, <1>9, Zenon
  <2>4. ASSUME x < l PROVE HeaderIn(f, x + 1) /\ 2 * f[x + 1].index = 2 * (i + 1)
    <3>1. x + 1 \in DOMAIN f
      BY <2>4, <1>1
    <3>2. QED
      BY <3>1, <1>3, Zenon
  <2>5. ASSUME ~k, x = l PROVE 2 * j = 2 * (i + 1)
    <3>1. e = l
      BY <2>5, <1>1, Zenon DEF Finished
    <3>2. QED
      BY <3>1, <2>5, <1>3, Zenon
  <2>6. ASSUME NEW c \in 1 .. x, HeaderIn(f, c) PROVE f[c].next <= x
    <3>1. CASE c \in 1 .. a
      <4>1. f[c].next <= a
        BY <3>1, <2>6, <1>0, <1>2, Zenon DEF ReadNext
      <4>2. f[c].next \in Nat
        <5>1. c \in DOMAIN f
          BY <3>1, <1>1
        <5>2. FrameIn(f, c, e, j)
          BY <5>1, <2>6, Zenon DEF Finished, Layout
        <5>3. QED
          BY <5>2, Zenon DEF FrameIn
      <4>3. QED
        BY <4>1, <4>2, <1>1, <1>a
    <3>2. CASE c = a + 1
      BY <3>2, <1>3
    <3>3. CASE c = a + 2
      BY <3>3, <2>6, <1>1, <1>3 DEF HeaderIn
    <3>4. CASE c >= a + 3
      <4>1. c \in DOMAIN f
        <5>1. c \in 1 .. l
          <6>1. y = size
            BY <2>1, Zenon
          <6>2. a + 2 + y <= l /\ x = a + 2 + size
            BY <1>5, <1>a, Zenon
          <6>3. x <= l
            BY <6>1, <6>2, Zenon
          <6>4. QED
            BY <6>3
        <5>2. QED
          BY <5>1, <1>1, Zenon
      <4>2. PICK z \in Nat : z = 3 * g + (c - a - 3) /\ f[c] = Cell(z)
        <5>1. 3 * g + (c - a - 3) \in Nat /\ a + 3 <= c /\ c <= x
          BY <3>4, <1>1, <1>a
        <5>2. QED
          BY <5>1, <4>1, <1>3, Zenon
      <4>3. f[c].kind \in {"package", "points"}
        BY <4>2, CellFacts, Zenon
      <4>4. QED
        BY <4>3, <2>6, Zenon DEF HeaderIn
    <3>5. c \in 1 .. a \/ c = a + 1 \/ c = a + 2 \/ c >= a + 3
      OBVIOUS
    <3>6. QED
      BY <3>1, <3>2, <3>3, <3>4, <3>5, Zenon
  <2>7. QED
    BY <2>1, <2>2, <2>3, <2>4, <2>5, <2>6, <1>1, Zenon
<1>15. QED
  BY <1>12, <1>13, <1>14, Zenon DEF ReadNext

(* The cells at the reader's position are those of the next package. *)
LEMMA AtPackage ==
  ASSUME NEW r, NEW f, NEW n, ReadSoFar(r, f, n), Len(f) \in Nat, NEW i \in 1 .. 3,
         r.pos + i <= Len(r.body)
  PROVE  /\ r.body[r.pos + i] = Cell(3 * Len(r.got) + i - 1)
         /\ r.body[r.pos + i] = f[Begin(r) + r.pos + i]
         /\ Begin(r) + r.pos + i \in 1 .. Len(f)
<1>1. PICK a \in Nat, g \in Nat, p \in Nat, b \in Nat, l \in Nat :
        a = r.at /\ g = Len(r.got) /\ p = r.pos /\ b = Len(r.body) /\ l = Len(f)
  BY ReaderNats, Zenon
<1>2. p + i \in 1 .. b
  BY <1>1
<1>3. /\ r.body[p + i] = Cell(3 * g - p + (p + i) - 1)
      /\ r.body[p + i] = f[Begin(r) + (p + i)]
  BY <1>1, <1>2, Zenon DEF ReadSoFar
<1>4. PICK d \in Nat : d = Begin(r) /\ d = a - b /\ d >= 2
  BY <1>1 DEF Begin, ReadSoFar
<1>5. 3 * g - p + (p + i) - 1 = 3 * g + i - 1 /\ d + (p + i) = d + p + i
  OBVIOUS
<1>6. a <= l
  BY <1>1, Zenon DEF ReadSoFar
<1>7. d + p + i \in 1 .. l
  BY <1>2, <1>4, <1>6
<1>8. QED
  BY <1>1, <1>3, <1>4, <1>5, <1>7, Zenon

(* next_packet() with a whole package. *)
PackageTaken(q, r) ==
  /\ r.pos + 3 <= Len(r.body)
  /\ q.at = r.at /\ q.offset = r.offset /\ q.body = r.body /\ q.truncated = r.truncated
  /\ q.pos = r.pos + 3 /\ q.got = Append(r.got, Len(r.got) + 1)

LEMMA PackageRead ==
  ASSUME NEW r, NEW f, NEW e, NEW j, NEW n, NEW k, Finished(f, e, j, n, k),
         ReadSoFar(r, f, n), ReadNext(r, f, j, k), NEW q, PackageTaken(q, r)
  PROVE  ReadSoFar(q, f, n) /\ ReadNext(q, f, j, k)
<1>1. PICK a \in Nat, g \in Nat, p \in Nat, b \in Nat, l \in Nat :
        a = r.at /\ g = Len(r.got) /\ p = r.pos /\ b = Len(r.body) /\ l = Len(f)
  BY ReaderNats, FileNats, Zenon
<1>2. PICK d \in Nat : d = Begin(r) /\ d = a - b /\ d >= 2
  BY <1>1 DEF Begin, ReadSoFar
<1>3. p + 3 <= b
  BY <1>1, Zenon DEF PackageTaken
<1>4. /\ q.at = a /\ q.offset = r.offset /\ q.body = r.body /\ q.truncated = r.truncated
      /\ q.pos = p + 3 /\ Len(q.body) = b
  BY <1>1, Zenon DEF PackageTaken
<1>5. /\ q.got \in Seq(Nat) /\ Len(q.got) = g + 1 /\ \A i \in 1 .. g + 1 : q.got[i] = i
  <2>1. r.got \in Seq(Nat) /\ Len(r.got) = g /\ \A i \in 1 .. g : r.got[i] = i
    BY <1>1, Zenon DEF ReadSoFar
  <2>2. q.got = Append(r.got, g + 1)
    BY <1>1, Zenon DEF PackageTaken
  <2>3. q.got \in Seq(Nat) /\ Len(q.got) = g + 1 /\ q.got[g + 1] = g + 1
    BY <2>1, <2>2
  <2>4. \A i \in 1 .. g : q.got[i] = i
    BY <2>1, <2>2
  <2>5. \A i \in 1 .. g + 1 : i \in 1 .. g \/ i = g + 1
    OBVIOUS
  <2>6. QED
    BY <2>3, <2>4, <2>5, Zenon
<1>6. Begin(q) = d
  BY <1>1, <1>2, <1>4, Zenon DEF Begin
<1>7. /\ f[d + p + 1] = Cell(3 * g) /\ f[d + p + 2] = Cell(3 * g + 1) /\ f[d + p + 3] = Cell(3 * g + 2)
      /\ d + p + 1 \in 1 .. l /\ d + p + 2 \in 1 .. l /\ d + p + 3 \in 1 .. l
  <2>1. ASSUME NEW i \in 1 .. 3 PROVE f[d + p + i] = Cell(3 * g + i - 1) /\ d + p + i \in 1 .. l
    <3>1. r.pos + i <= Len(r.body)
      <4>1. p + i <= b
        BY <1>3
      <4>2. QED
        BY <4>1, <1>1, Zenon
    <3>2. QED
      BY <3>1, <1>1, <1>2, AtPackage, Zenon
  <2>2. 3 * g + 1 - 1 = 3 * g /\ 3 * g + 2 - 1 = 3 * g + 1 /\ 3 * g + 3 - 1 = 3 * g + 2
    OBVIOUS
  <2>3. 1 \in 1 .. 3 /\ 2 \in 1 .. 3 /\ 3 \in 1 .. 3
    OBVIOUS
  <2>4. QED
    BY <2>1, <2>2, <2>3, Zenon
<1>8. /\ f[d + p + 1].kind = "package" /\ f[d + p + 1].id = g + 1
      /\ f[d + p + 2].kind = "package"
      /\ f[d + p + 3].kind = "points" /\ f[d + p + 3].id = g + 1
  <2>1. /\ Cell(3 * g) = [kind |-> "package", id |-> g + 1, part |-> 1]
        /\ Cell(3 * g + 1) = [kind |-> "package", id |-> g + 1, part |-> 2]
        /\ Cell(3 * g + 2) = [kind |-> "points", id |-> g + 1]
    BY CellIs, Zenon
  <2>2. QED
    BY <2>1, <1>7
<1>9. g + 1 <= n
  <2>1. d + p + 1 \in DOMAIN f
    BY <1>1, <1>7, FileNats, Zenon
  <2>2. g + 1 \in 1 .. n
    BY <2>1, <1>8, Zenon DEF Finished, Layout
  <2>3. QED
    BY <2>2, FileNats
<1>10. ASSUME NEW c \in 1 .. b
       PROVE  q.body[c] = Cell(3 * (g + 1) - (p + 3) + c - 1) /\ q.body[c] = f[d + c]
  <2>1. 3 * (g + 1) - (p + 3) + c - 1 = 3 * g - p + c - 1
    OBVIOUS
  <2>2. r.body[c] = Cell(3 * g - p + c - 1) /\ r.body[c] = f[d + c]
    BY <1>1, <1>2, Zenon DEF ReadSoFar
  <2>3. QED
    BY <2>1, <2>2, <1>4, Zenon
<1>11. ASSUME NEW c \in 1 .. d + (p + 3), f[c].kind = "points" PROVE f[c].id <= g + 1
  <2>1. c \in 1 .. d + p \/ c = d + p + 1 \/ c = d + p + 2 \/ c = d + p + 3
    OBVIOUS
  <2>2. CASE c \in 1 .. d + p
    <3>1. f[c].id <= g
      BY <2>2, <1>1, <1>2, <1>11, Zenon DEF ReadSoFar
    <3>2. c \in DOMAIN f
      <4>1. c \in 1 .. l
        BY <2>2, <1>7
      <4>2. QED
        BY <4>1, <1>1, FileNats, Zenon
    <3>3. f[c].id \in 1 .. n
      BY <3>2, <1>11, Zenon DEF Finished, Layout
    <3>4. QED
      BY <3>1, <3>3, FileNats
  <2>3. g + 1 <= g + 1 /\ "package" # "points"
    OBVIOUS
  <2>4. QED
    BY <2>1, <2>2, <2>3, <1>8, <1>11, Zenon
<1>12. ASSUME NEW i \in 1 .. g + 1
       PROVE  \E c \in DOMAIN f : f[c].kind = "points" /\ f[c].id = i
  <2>1. i \in 1 .. g \/ i = g + 1
    OBVIOUS
  <2>2. CASE i \in 1 .. g
    BY <2>2, <1>1, Zenon DEF ReadSoFar
  <2>3. CASE i = g + 1
    <3>1. d + p + 3 \in DOMAIN f
      BY <1>1, <1>7, FileNats, Zenon
    <3>2. QED
      BY <3>1, <2>3, <1>8, Zenon
  <2>4. QED
    BY <2>1, <2>2, <2>3, Zenon
<1>13. (p + 3) % 3 = 0 /\ p + 3 <= 3 * (g + 1) /\ p + 3 \in Nat /\ d + (p + 3) = (d + p) + 3
  <2>1. p % 3 = 0 /\ p <= 3 * g
    BY <1>1, Zenon DEF ReadSoFar
  <2>2. QED
    BY <2>1
<1>14. /\ r.truncated \in BOOLEAN /\ r.offset \in Nat /\ r.body \in Seq(Cells) /\ a >= 2 /\ a <= Len(f)
  BY <1>1, Zenon DEF ReadSoFar
<1>15. ReadSoFar(q, f, n)
  BY <1>2, <1>3, <1>4, <1>5, <1>6, <1>9, <1>10, <1>11, <1>12, <1>13, <1>14, ZenonT(30) DEF ReadSoFar
<1>16. d - 2 - 3 * (g + 1) + (p + 3) = d - 2 - 3 * g + p
  OBVIOUS
<1>17. ReadNext(q, f, j, k)
  BY <1>1, <1>2, <1>4, <1>5, <1>6, <1>16, Zenon DEF ReadNext
<1>18. QED
  BY <1>15, <1>17, Zenon

(* Less than a package is left of the body: no points are left before the reader's place. *)
BodyOut(r) == r.pos + 3 > Len(r.body)

LEMMA PointsRead ==
  ASSUME NEW r, NEW f, NEW n, ReadSoFar(r, f, n), Len(f) \in Nat, BodyOut(r),
         NEW c \in 1 .. r.at, f[c].kind = "points"
  PROVE  f[c].id <= Len(r.got)
<1>1. PICK a \in Nat, g \in Nat, p \in Nat, b \in Nat, l \in Nat :
        a = r.at /\ g = Len(r.got) /\ p = r.pos /\ b = Len(r.body) /\ l = Len(f)
  BY ReaderNats, Zenon
<1>2. PICK d \in Nat : d = Begin(r) /\ d = a - b /\ d >= 2
  BY <1>1 DEF Begin, ReadSoFar
<1>3. p + 3 > b /\ p <= b /\ c \in 1 .. a
  BY <1>1, ReaderNats, Zenon DEF BodyOut
<1>4. \/ c \in 1 .. d + p
      \/ c = d + p + 1 /\ p + 1 <= b
      \/ c = d + p + 2 /\ p + 2 <= b
  BY <1>2, <1>3
<1>5. CASE c \in 1 .. d + p
  BY <1>1, <1>2, <1>5, Zenon DEF ReadSoFar
<1>6. 1 \in 1 .. 3 /\ 2 \in 1 .. 3 /\ 3 * g + 1 - 1 = 3 * g /\ 3 * g + 2 - 1 = 3 * g + 1
  OBVIOUS
<1>7. Cell(3 * g).kind = "package" /\ Cell(3 * g + 1).kind = "package"
  <2>1. /\ Cell(3 * g) = [kind |-> "package", id |-> g + 1, part |-> 1]
        /\ Cell(3 * g + 1) = [kind |-> "package", id |-> g + 1, part |-> 2]
    BY CellIs, Zenon
  <2>2. QED
    BY <2>1
<1>a. ASSUME NEW i \in 1 .. 3, p + i <= b PROVE f[d + p + i] = Cell(3 * g + i - 1)
  <2>1. r.pos + i <= Len(r.body)
    BY <1>1, <1>a, Zenon
  <2>2. QED
    BY <2>1, <1>1, <1>2, AtPackage, Zenon
<1>8. CASE c = d + p + 1 /\ p + 1 <= b
  <2>1. f[c] = Cell(3 * g + 1 - 1)
    BY <1>a, <1>6, <1>8, Zenon
  <2>2. QED
    BY <2>1, <1>6, <1>7, Zenon
<1>9. CASE c = d + p + 2 /\ p + 2 <= b
  <2>1. f[c] = Cell(3 * g + 2 - 1)
    BY <1>a, <1>6, <1>9, Zenon
  <2>2. QED
    BY <2>1, <1>6, <1>7, Zenon
<1>10. QED
  BY <1>4, <1>5, <1>8, <1>9, Zenon

LEMMA SameCount ==
  ASSUME NEW a \in Nat, NEW b \in Nat, NEW g \in Nat, NEW j \in Nat, NEW n \in Nat, NEW e \in Nat,
         a = e, e = 2 + 2 * j + 3 * n, 2 * j = (a - b) - 2 - 3 * g + b
  PROVE  g = n
OBVIOUS

(* load_frame() at the end of the file. *)
LEMMA EndAtFrame ==
  ASSUME NEW r, NEW f, NEW e, NEW j, NEW n, NEW k \in BOOLEAN, Finished(f, e, j, n, k),
         ReadSoFar(r, f, n), ReadNext(r, f, j, k), BodyDone(r), r.at = Len(f),
         NEW q, q.got = r.got, q.truncated <=> (r.truncated \/ r.pos # Len(r.body))
  PROVE  PassOver(q, f, n, k)
<1>1. PICK a \in Nat, g \in Nat, p \in Nat, b \in Nat, l \in Nat :
        /\ a = r.at /\ g = Len(r.got) /\ p = r.pos /\ b = Len(r.body) /\ l = Len(f)
        /\ a = l /\ DOMAIN f = 1 .. l
  BY ReaderNats, FileNats, Zenon
<1>2. Len(q.got) = g
  BY <1>1, Zenon
<1>3. BodyOut(r)
  <2>1. p + 2 > b
    BY <1>1, Zenon DEF BodyDone
  <2>2. p + 3 > b
    BY <2>1
  <2>3. QED
    BY <2>2, <1>1, Zenon DEF BodyOut
<1>4. \A c \in DOMAIN f : f[c].kind = "points" => f[c].id <= g
  BY <1>1, <1>3, PointsRead, Zenon
<1>5. CASE r.truncated
  <2>1. k /\ \E c \in DOMAIN f : HeaderIn(f, c) /\ f[c].next > Len(f)
    BY <1>5, Zenon DEF ReadNext
  <2>2. q.truncated
    BY <1>5, Zenon
  <2>3. QED
    BY <2>1, <2>2, <1>2, <1>4, Zenon DEF PassOver
<1>6. CASE ~r.truncated
  <2>1. p = b
    BY <1>1, <1>6, BodyRead, Zenon
  <2>2. ~q.truncated
    BY <2>1, <1>1, <1>6, Zenon
  <2>3. ~ \E c \in DOMAIN f : HeaderIn(f, c) /\ f[c].next > Len(f)
    <3>1. SUFFICES ASSUME NEW c \in 1 .. l, HeaderIn(f, c), f[c].next > l PROVE FALSE
      BY <1>1, Zenon
    <3>2. f[c].next <= l
      BY <3>1, <1>1, <1>6, Zenon DEF ReadNext
    <3>3. FrameIn(f, c, e, j)
      BY <3>1, <1>1, Zenon DEF Finished, Layout
    <3>4. f[c].next \in Nat
      BY <3>3, Zenon DEF FrameIn
    <3>5. QED
      BY <3>1, <3>2, <3>4
  <2>4. ~k => g = n
    <3>1. SUFFICES ASSUME ~k PROVE g = n
      BY Zenon
    <3>2. 2 * j = Begin(r) - 2 - 3 * g + p
      BY <3>1, <1>1, <1>6, Zenon DEF ReadNext
    <3>3. Begin(r) = a - b
      BY <1>1, Zenon DEF Begin
    <3>4. a = e /\ e = 2 + 2 * j + 3 * n
      BY <3>1, <1>1, Zenon DEF Finished
    <3>5. j \in Nat /\ n \in Nat /\ e \in Nat
      BY FileNats, Zenon
    <3>6. 2 * j = (a - b) - 2 - 3 * g + b
      BY <3>2, <3>3, <2>1, Zenon
    <3>7. QED
      BY <3>4, <3>5, <3>6, SameCount, Zenon
  <2>5. QED
    BY <2>2, <2>3, <2>4, <1>2, <1>4, Zenon DEF PassOver
<1>7. QED
  BY <1>5, <1>6, Zenon

(* load_frame() with a part of a header left. *)
LEMMA EndInHeader ==
  ASSUME NEW r, NEW f, NEW e, NEW j, NEW n, NEW k \in BOOLEAN, Finished(f, e, j, n, k),
         ReadSoFar(r, f, n), ReadNext(r, f, j, k), BodyDone(r), r.at + 1 = Len(f),
         NEW q, q.got = r.got, q.truncated
  PROVE  PassOver(q, f, n, k)
<1>1. PICK a \in Nat, g \in Nat, p \in Nat, b \in Nat, l \in Nat :
        /\ a = r.at /\ g = Len(r.got) /\ p = r.pos /\ b = Len(r.body) /\ l = Len(f)
        /\ a + 1 = l /\ DOMAIN f = 1 .. l
  BY ReaderNats, FileNats, Zenon
<1>2. Len(q.got) = g
  BY <1>1, Zenon
<1>3. BodyOut(r)
  <2>1. p + 2 > b
    BY <1>1, Zenon DEF BodyDone
  <2>2. p + 3 > b
    BY <2>1
  <2>3. QED
    BY <2>2, <1>1, Zenon DEF BodyOut
<1>4. r.at # Len(f)
  BY <1>1
<1>5. HeaderIn(f, l) /\ FrameIn(f, l, e, j)
  BY <1>1, <1>4, NextFrame, Zenon
<1>6. l \in 1 .. l /\ f[l].next > l /\ f[l].next <= e
  <2>1. f[l].next \in Nat /\ f[l].next >= l + 4 /\ f[l].next <= e
    BY <1>5, Zenon DEF FrameIn
  <2>2. QED
    BY <2>1, <1>1
<1>7. k
  <2>1. e # l
    <3>1. PICK x \in Nat : x > l /\ x <= e
      BY <1>5, <1>6, Zenon DEF FrameIn
    <3>2. QED
      BY <3>1, FileNats
  <2>2. QED
    BY <2>1, <1>1, Zenon DEF Finished
<1>8. ASSUME NEW c \in 1 .. l, f[c].kind = "points" PROVE f[c].id <= g
  <2>1. c # l
    BY <1>5, <1>8, Zenon DEF HeaderIn
  <2>2. c \in 1 .. a
    BY <2>1, <1>1
  <2>3. QED
    BY <2>2, <1>1, <1>3, <1>8, PointsRead, Zenon
<1>9. QED
  BY <1>1, <1>2, <1>5, <1>6, <1>7, <1>8, Zenon DEF PassOver

(* next_packet() with a part of a package left. *)
LEMMA EndInPackage ==
  ASSUME NEW r, NEW f, NEW e, NEW j, NEW n, NEW k \in BOOLEAN, Finished(f, e, j, n, k),
         ReadSoFar(r, f, n), ReadNext(r, f, j, k), ~BodyDone(r), BodyOut(r),
         NEW q, q.got = r.got, q.truncated
  PROVE  PassOver(q, f, n, k)
<1>1. PICK a \in Nat, g \in Nat, p \in Nat, b \in Nat, l \in Nat :
        /\ a = r.at /\ g = Len(r.got) /\ p = r.pos /\ b = Len(r.body) /\ l = Len(f)
        /\ DOMAIN f = 1 .. l
  BY ReaderNats, FileNats, Zenon
<1>2. b = p + 2
  BY <1>1 DEF BodyDone, BodyOut
<1>3. r.truncated
  <2>1. SUFFICES ASSUME ~r.truncated PROVE FALSE
    BY Zenon DEF ReadSoFar
  <2>2. b % 3 = 0 /\ p % 3 = 0
    BY <2>1, <1>1, Zenon DEF ReadNext, ReadSoFar
  <2>3. PICK x \in Nat, y \in Nat : p = 3 * x /\ b = 3 * y
    BY <2>2, ThreeTimes, Zenon
  <2>4. QED
    BY <2>3, <1>2
<1>4. k /\ a = l /\ \E c \in DOMAIN f : HeaderIn(f, c) /\ f[c].next > Len(f)
  BY <1>1, <1>3, Zenon DEF ReadNext
<1>5. \A c \in DOMAIN f : f[c].kind = "points" => f[c].id <= Len(q.got)
  BY <1>1, <1>4, PointsRead, Zenon
<1>6. QED
  BY <1>4, <1>5, Zenon DEF PassOver

-----------------------------------------------------------------------------
(* The steps of the player keep the reader in its place. *)
Readers == [at : Nat, offset : Nat, body : Seq(Cells), pos : Nat, truncated : BOOLEAN, got : Seq(Nat)]

(* The reader, while the file is read and after. *)
ReaderInv ==
  /\ cut \in BOOLEAN /\ reader \in Readers
  /\ phase \in {"recording", "recorded", "playing", "played", "failed"}
  /\ phase \in {"recording", "recorded"} => reader = NoReader
  /\ phase = "playing" => /\ ReadSoFar(reader, file, Len(accepted))
                          /\ ReadNext(reader, file, frame_index, cut)
  /\ Len(reader.got) <= Len(accepted)
  /\ \A i \in 1 .. Len(reader.got) : reader.got[i] = i
  /\ phase = "played" /\ ~stopping =>
       /\ PassOver(reader, file, Len(accepted), cut)
       /\ \A i \in 1 .. Len(reader.got) :
            \E c \in DOMAIN file : file[c].kind = "points" /\ file[c].id = i

LEMMA FileFinished ==
  ASSUME FileInv, phase # "recording"
  PROVE  Finished(file, offset, frame_index, Len(accepted), cut)
<1>1. /\ Layout(file, offset, frame_index, Len(accepted)) /\ Len(accepted) \in Nat
      /\ offset \in Nat /\ frame_index \in Nat
  BY DEF FileInv, Layout
<1>2. ASSUME ~cut PROVE Len(file) = offset /\ offset = 2 + 2 * frame_index + 3 * Len(accepted)
  <2>1. Len(file) = offset /\ OpenFrame(<<>>, offset, frame_index, Len(accepted))
    BY <1>2, Zenon DEF FileInv
  <2>2. offset = 2 + 2 * frame_index + 3 * Len(accepted) - 0
    BY <2>1, Zenon DEF OpenFrame
  <2>3. QED
    BY <2>1, <2>2, <1>1
<1>3. QED
  BY <1>1, <1>2, Zenon DEF Finished

LEMMA ReadersOpen == NoReader \in Readers /\ Opened \in Readers
<1>1. NoReader \in Readers
  BY DEF NoReader, Readers
<1>2. 2 \in Nat
  BY Zenon
<1>3. QED
  BY <1>1, <1>2, Zenon DEF Opened, HeaderSize, Readers

LEMMA ReaderInit == RecordingInit => ReaderInv
<1>1. SUFFICES ASSUME RecordingInit PROVE ReaderInv
  BY Zenon
<1>2. cut = FALSE /\ phase = "recording" /\ reader = NoReader /\ accepted = <<>>
  BY <1>1, Zenon DEF RecordingInit
<1>3. reader.got = <<>> /\ reader \in Readers
  BY <1>2 DEF NoReader, Readers
<1>4. Len(<<>>) <= Len(<<>>) /\ \A i \in 1 .. Len(<<>>) : FALSE
  OBVIOUS
<1>5. QED
  BY <1>2, <1>3, <1>4, Zenon DEF ReaderInv

(* At the end of a pass the file is opened again, or the reader stays as it is. *)
LEMMA PassStep ==
  ASSUME FileInv, ReaderInv, phase = "playing", NEW r \in Readers, EndPass(r), r.got = reader.got,
         PassOver(r, file, Len(accepted), cut)
  PROVE  ReaderInv'
<1>1. /\ UNCHANGED <<file, offset, frame_index, accepted, cut, stopping>>
      /\ \/ phase' = "played" /\ reader' = r
         \/ phase' = "playing" /\ reader' = Opened
  BY Zenon DEF EndPass, writerVars
<1>2. Finished(file, offset, frame_index, Len(accepted), cut)
  BY FileFinished, Zenon
<1>3. CASE phase' = "played" /\ reader' = r
  <2>1. \A i \in 1 .. Len(reader.got) :
          \E c \in DOMAIN file : file[c].kind = "points" /\ file[c].id = i
    BY Zenon DEF ReaderInv, ReadSoFar
  <2>2. QED
    BY <1>1, <1>3, <2>1, Zenon DEF ReaderInv
<1>4. CASE phase' = "playing" /\ reader' = Opened
  <2>1. Len(file) >= 2
    <3>1. ReadSoFar(reader, file, Len(accepted))
      BY Zenon DEF ReaderInv
    <3>2. reader.at \in Nat /\ reader.at >= 2 /\ reader.at <= Len(file) /\ Len(file) \in Nat
      BY <3>1, <1>2, ReaderNats, FileNats, Zenon
    <3>3. QED
      BY <3>2
  <2>2. ReadSoFar(Opened, file, Len(accepted)) /\ ReadNext(Opened, file, frame_index, cut)
    BY <1>2, <2>1, OpenedReads DEF ReaderInv
  <2>3. /\ Opened \in Readers /\ Len(Opened.got) <= Len(accepted)
        /\ \A i \in 1 .. Len(Opened.got) : Opened.got[i] = i
    <3>1. Opened \in Readers
      BY ReadersOpen, Zenon
    <3>2. QED
      BY <2>2, <3>1, Zenon DEF ReadSoFar
  <2>4. QED
    BY <1>1, <1>4, <2>2, <2>3, Zenon DEF ReaderInv
<1>5. QED
  BY <1>1, <1>3, <1>4, Zenon

(* Failing leaves the reader, and what it has read. *)
LEMMA FailStep ==
  ASSUME ReaderInv, phase' = "failed", UNCHANGED <<file, accepted, cut, reader>>
  PROVE  ReaderInv'
BY Zenon DEF ReaderInv

(* The end of a pass over the file, and a step within one. *)
PassDone ==
  \E r \in Readers : EndPass(r) /\ r.got = reader.got /\ PassOver(r, file, Len(accepted), cut)

ReadsOn ==
  /\ UNCHANGED <<phase, file, accepted, late, frame_index, cut, loops, stopping>>
  /\ reader' \in Readers /\ ReadSoFar(reader', file, Len(accepted))
  /\ ReadNext(reader', file, frame_index, cut)

LEMMA ReadStep ==
  ASSUME FileInv, ReaderInv, phase = "playing", PassDone \/ ReadsOn
  PROVE  ReaderInv'
<1>1. CASE PassDone
  BY <1>1, PassStep, Zenon DEF PassDone
<1>2. CASE ReadsOn
  <2>1. Len(reader'.got) <= Len(accepted) /\ \A i \in 1 .. Len(reader'.got) : reader'.got[i] = i
    BY <1>2, Zenon DEF ReadsOn, ReadSoFar
  <2>2. QED
    BY <2>1, <1>2, Zenon DEF ReadsOn, ReaderInv
<1>3. QED
  BY <1>1, <1>2, Zenon

(* What load_frame() does with a file as it was written: it never fails. *)
LEMMA LoadStep ==
  ASSUME FileInv, ReaderInv, LoadFrame
  PROVE  PassDone \/ (ReadsOn /\ UNCHANGED device /\ reader'.got = reader.got)
<1>1. /\ phase = "playing" /\ ReadSoFar(reader, file, Len(accepted))
      /\ ReadNext(reader, file, frame_index, cut) /\ BodyDone(reader) /\ cut \in BOOLEAN
      /\ reader \in Readers
  BY Zenon DEF LoadFrame, ReaderInv, BodyDone, HeaderSize
<1>2. Finished(file, offset, frame_index, Len(accepted), cut)
  BY <1>1, FileFinished, Zenon
<1>3. PICK r : r = [reader EXCEPT !.truncated = @ \/ reader.pos # Len(reader.body)]
  BY Zenon
<1>4. PICK a \in Nat, l \in Nat : a = reader.at /\ l = Len(file) /\ a <= l
  BY <1>1, <1>2, ReaderNats, FileNats, Zenon
<1>5. /\ r \in Readers /\ r.got = reader.got /\ r.at = reader.at /\ r.pos = reader.pos
      /\ r.body = reader.body /\ r.offset = reader.offset
      /\ r.truncated = (reader.truncated \/ reader.pos # Len(reader.body))
  BY <1>1, <1>3, Zenon DEF Readers
<1>6. CASE l - a = 0 /\ EndPass(r)
  <2>1. reader.at = Len(file)
    BY <1>4, <1>6
  <2>2. PassOver(r, file, Len(accepted), cut)
    BY <2>1, <1>1, <1>2, <1>5, EndAtFrame, Zenon
  <2>3. QED
    BY <2>2, <1>5, <1>6, Zenon DEF PassDone
<1>7. CASE l - a = 1 /\ EndPass([r EXCEPT !.truncated = TRUE])
  <2>1. reader.at + 1 = Len(file)
    BY <1>4, <1>7
  <2>2. PICK q : q = [r EXCEPT !.truncated = TRUE]
    BY Zenon
  <2>3. q \in Readers /\ q.got = reader.got /\ q.truncated
    BY <2>2, <1>5, Zenon DEF Readers
  <2>4. PassOver(q, file, Len(accepted), cut)
    BY <2>1, <2>3, <1>1, <1>2, EndInHeader, Zenon
  <2>5. QED
    BY <2>2, <2>3, <2>4, <1>7, Zenon DEF PassDone
<1>8. CASE l - a >= 2
  <2>1. reader.at # Len(file)
    BY <1>4, <1>8
  <2>2. /\ ~reader.truncated /\ reader.pos = Len(reader.body) /\ reader.offset = a
        /\ HeaderIn(file, a + 1) /\ file[a + 1].current = a
    BY <2>1, <1>1, <1>2, <1>4, NextFrame, Zenon
  <2>3. PICK size, n : /\ size = file[a + 1].next - file[a + 1].current - HeaderSize
                       /\ n = IF l - a - HeaderSize < size THEN l - a - HeaderSize ELSE size
    BY Zenon
  <2>4. /\ reader' = [r EXCEPT !.at = @ + HeaderSize + n, !.offset = file[a + 1].next, !.pos = PosLoaded,
                              !.body = SubSeq(file, a + HeaderSize + 1, a + HeaderSize + n),
                              !.truncated = @ \/ CutBody(size, l - a - HeaderSize)]
        /\ UNCHANGED <<phase, file, accepted, late, frame_index, cut, device, loops, stopping>>
    <3>1. Len(file) - reader.at # 0 /\ Len(file) - reader.at \notin 1 .. HeaderSize - 1
      BY <1>4, <1>8 DEF HeaderSize
    <3>2. /\ file[reader.at + 1].kind = "frame" /\ file[reader.at + 1].part = 1
          /\ file[reader.at + 1].current = reader.offset
      BY <2>2, <1>4, Zenon DEF HeaderIn
    <3>3. /\ size = file[reader.at + 1].next - file[reader.at + 1].current - HeaderSize
          /\ n = IF Len(file) - reader.at - HeaderSize < size THEN Len(file) - reader.at - HeaderSize
                 ELSE size
      BY <2>3, <1>4, Zenon
    <3>4. /\ reader' = [r EXCEPT !.at = @ + HeaderSize + n, !.offset = file[reader.at + 1].next,
                                !.pos = PosLoaded,
                                !.body = SubSeq(file, reader.at + HeaderSize + 1,
                                                reader.at + HeaderSize + n),
                                !.truncated = @ \/ CutBody(size, Len(file) - reader.at - HeaderSize)]
          /\ UNCHANGED <<phase, file, writerVars, cut, device, loops, stopping>>
      BY <3>1, <3>2, <3>3, <1>3, Zenon DEF LoadFrame
    <3>5. QED
      BY <3>4, <1>4, Zenon DEF writerVars
  <2>5. /\ reader'.at = a + 2 + n /\ reader'.offset = file[a + 1].next /\ reader'.pos = 0
        /\ reader'.got = reader.got /\ reader'.body = SubSeq(file, a + 3, a + 2 + n)
        /\ reader'.truncated = (l - a - 2 < size)
        /\ size = file[a + 1].next - a - 2
        /\ n = IF l - a - 2 < size THEN l - a - 2 ELSE size
        /\ DOMAIN reader' = {"at", "offset", "body", "pos", "truncated", "got"}
    <3>1. PICK q : q = reader'
      BY Zenon
    <3>2. a + HeaderSize + 1 = a + 3 /\ HeaderSize = 2 /\ PosLoaded = 0
      BY DEF HeaderSize, PosLoaded
    <3>3. q = [r EXCEPT !.at = @ + 2 + n, !.offset = file[a + 1].next, !.pos = 0,
                        !.body = SubSeq(file, a + 3, a + 2 + n),
                        !.truncated = @ \/ CutBody(size, l - a - 2)]
      BY <2>4, <3>1, <3>2, Zenon
    <3>4. /\ q.at = r.at + 2 + n /\ q.offset = file[a + 1].next /\ q.pos = 0 /\ q.got = r.got
          /\ q.body = SubSeq(file, a + 3, a + 2 + n)
          /\ q.truncated = (r.truncated \/ CutBody(size, l - a - 2))
          /\ DOMAIN q = {"at", "offset", "body", "pos", "truncated", "got"}
      BY <3>3, <1>5, Zenon DEF Readers
    <3>5. r.truncated = FALSE
      BY <2>2, <1>5, Zenon
    <3>6. q.truncated = (l - a - 2 < size)
      BY <3>4, <3>5 DEF CutBody
    <3>7. r.at = a /\ r.got = reader.got
      BY <1>4, <1>5, Zenon
    <3>8. QED
      BY <2>2, <2>3, <3>1, <3>2, <3>4, <3>6, <3>7, Zenon
  <2>a. Loaded(reader', reader, file)
    <3>1. l - a - 2 >= 0
      BY <1>8
    <3>2. QED
      BY <3>1, <2>5, <1>4, Zenon DEF Loaded
  <2>6. ReadSoFar(reader', file, Len(accepted)) /\ ReadNext(reader', file, frame_index, cut)
    BY <2>a, <1>1, <1>2, LoadReads, Zenon
  <2>7. reader' \in Readers
    <3>1. PICK q : q = reader' /\ ReadSoFar(q, file, Len(accepted))
      BY <2>6, Zenon
    <3>2. /\ q.at \in Nat /\ q.offset \in Nat /\ q.body \in Seq(Cells) /\ q.pos \in Nat
          /\ q.truncated \in BOOLEAN /\ q.got \in Seq(Nat)
      BY <3>1, Zenon DEF ReadSoFar
    <3>3. q = [r EXCEPT !.at = q.at, !.offset = q.offset, !.body = q.body, !.pos = q.pos,
                        !.truncated = q.truncated, !.got = q.got]
      BY <3>1, <2>4, <1>5, ZenonT(30) DEF Readers
    <3>4. QED
      BY <3>1, <3>2, <3>3, <1>5, Zenon DEF Readers
  <2>8. QED
    BY <2>4, <2>5, <2>6, <2>7, Zenon DEF ReadsOn
<1>9. QED
  BY <1>3, <1>4, <1>6, <1>7, <1>8 DEF LoadFrame, HeaderSize

(* What next_packet() does with it: the package is the next one written, or its end is cut. *)
LEMMA PackageStep ==
  ASSUME FileInv, ReaderInv, NextPacket
  PROVE  \/ PassDone
         \/ /\ ReadsOn /\ reader'.got = Append(reader.got, Len(reader.got) + 1)
            /\ Feed(Len(reader.got) + 1)
<1>1. /\ phase = "playing" /\ ReadSoFar(reader, file, Len(accepted))
      /\ ReadNext(reader, file, frame_index, cut) /\ cut \in BOOLEAN /\ reader \in Readers
      /\ reader.pos + 2 <= Len(reader.body)
  BY Zenon DEF NextPacket, ReaderInv, HeaderSize
<1>2. Finished(file, offset, frame_index, Len(accepted), cut) /\ Len(file) \in Nat
  BY <1>1, FileFinished, FileNats, Zenon
<1>3. PICK g \in Nat, p \in Nat, b \in Nat :
        g = Len(reader.got) /\ p = reader.pos /\ b = Len(reader.body)
  BY <1>1, ReaderNats, Zenon
<1>4. p + 2 <= b /\ p + 1 <= b
  BY <1>1, <1>3
<1>5. /\ reader.body[p + 1] = [kind |-> "package", id |-> g + 1, part |-> 1]
      /\ reader.body[p + 2] = [kind |-> "package", id |-> g + 1, part |-> 2]
  <2>1. ASSUME NEW i \in 1 .. 3, p + i <= b PROVE reader.body[p + i] = Cell(3 * g + i - 1)
    <3>1. reader.pos + i <= Len(reader.body)
      BY <1>3, <2>1, Zenon
    <3>2. QED
      BY <3>1, <1>1, <1>2, <1>3, AtPackage, Zenon
  <2>2. 1 \in 1 .. 3 /\ 2 \in 1 .. 3 /\ 3 * g + 1 - 1 = 3 * g /\ 3 * g + 2 - 1 = 3 * g + 1
    OBVIOUS
  <2>3. reader.body[p + 1] = Cell(3 * g) /\ reader.body[p + 2] = Cell(3 * g + 1)
    BY <2>1, <2>2, <1>4, Zenon
  <2>4. QED
    BY <2>3, CellIs, Zenon
<1>6. Intact
  BY <1>3, <1>5 DEF Intact
<1>7. CASE p + 3 <= b
  <2>1. /\ reader' = [reader EXCEPT !.pos = p + 3, !.got = Append(@, g + 1)]
        /\ UNCHANGED <<phase, file, accepted, late, frame_index, cut, loops, stopping>>
        /\ Feed(g + 1)
    <3>1. reader.body[reader.pos + 1].id = g + 1
      BY <1>3, <1>5
    <3>2. ~(reader.pos + PackageSize > Len(reader.body)) /\ PackageSize = 3
      BY <1>3, <1>7 DEF PackageSize, HeaderSize
    <3>3. QED
      BY <3>1, <3>2, <1>3, <1>6, Zenon DEF NextPacket, writerVars
  <2>2. /\ reader'.at = reader.at /\ reader'.offset = reader.offset /\ reader'.body = reader.body
        /\ reader'.truncated = reader.truncated
        /\ reader'.pos = p + 3 /\ reader'.got = Append(reader.got, g + 1)
    BY <2>1, <1>1, Zenon DEF Readers
  <2>3. PackageTaken(reader', reader)
    BY <2>2, <1>3, <1>7, Zenon DEF PackageTaken
  <2>4. ReadSoFar(reader', file, Len(accepted)) /\ ReadNext(reader', file, frame_index, cut)
    BY <2>3, <1>1, <1>2, PackageRead, Zenon
  <2>5. reader' \in Readers
    <3>1. reader'.got \in Seq(Nat) /\ reader'.pos \in Nat
      BY <2>4, Zenon DEF ReadSoFar
    <3>2. reader' = [reader EXCEPT !.pos = reader'.pos, !.got = reader'.got]
      BY <2>1, <1>1, Zenon DEF Readers
    <3>3. QED
      BY <3>1, <3>2, <1>1, Zenon DEF Readers
  <2>6. QED
    BY <2>1, <2>2, <2>4, <2>5, <1>3, Zenon DEF ReadsOn
<1>8. CASE ~(p + 3 <= b)
  <2>1. EndPass([reader EXCEPT !.truncated = TRUE])
    <3>1. ~(reader.pos + PackageSize <= Len(reader.body))
      BY <1>3, <1>8 DEF PackageSize, HeaderSize
    <3>2. QED
      BY <3>1, <1>6, Zenon DEF NextPacket
  <2>2. PICK q : q = [reader EXCEPT !.truncated = TRUE]
    BY Zenon
  <2>3. q \in Readers /\ q.got = reader.got /\ q.truncated
    BY <2>2, <1>1, Zenon DEF Readers
  <2>4. ~BodyDone(reader) /\ BodyOut(reader)
    BY <1>3, <1>4, <1>8 DEF BodyDone, BodyOut
  <2>5. PassOver(q, file, Len(accepted), cut)
    BY <2>3, <2>4, <1>1, <1>2, EndInPackage, Zenon
  <2>6. QED
    BY <2>1, <2>2, <2>3, <2>5, Zenon DEF PassDone
<1>9. QED
  BY <1>7, <1>8, Zenon

(* Every step keeps what the reader knows of the file, until a write fails. *)
LEMMA ReaderStep ==
  ASSUME FileInv, ReaderInv, write_error = FALSE, [RecordingNext]_recordingVars
  PROVE  ReaderInv'
<1>1. CASE \E d \in Devices, t \in Times : Write(d, t)
  <2>1. /\ phase = "recording" /\ phase' = phase /\ reader' = reader /\ cut' = cut
        /\ accepted' = accepted \/ \E d \in Devices : accepted' = Append(accepted, d)
    <3>1. PICK d \in Devices, t \in Times : Write(d, t)
      BY <1>1, Zenon
    <3>2. phase = "recording" /\ phase' = phase /\ reader' = reader /\ cut' = cut
      BY <3>1, Zenon DEF Write, Recorded, playerVars
    <3>3. accepted' = accepted \/ accepted' = Append(accepted, d)
      BY <3>1, Zenon DEF Write
    <3>4. QED
      BY <3>2, <3>3, Zenon
  <2>2. accepted' \in Seq(Devices)
    BY <2>1 DEF FileInv
  <2>3. reader = NoReader /\ reader.got = <<>> /\ reader \in Readers
    BY <2>1, ReadersOpen DEF ReaderInv, NoReader
  <2>4. Len(<<>>) <= Len(accepted') /\ \A i \in 1 .. Len(<<>>) : FALSE
    BY <2>2
  <2>5. QED
    BY <2>1, <2>3, <2>4, Zenon DEF ReaderInv
<1>2. CASE Close
  BY <1>2, Zenon DEF Close, playerVars, ReaderInv
<1>3. CASE Killed
  BY <1>3, Zenon DEF Killed, playerVars, writerVars, ReaderInv
<1>4. CASE Open
  <2>1. CASE Fail
    BY <2>1, FailStep, Zenon DEF Fail, playerVars, writerVars
  <2>2. CASE ~Fail
    <3>1. /\ phase = "recorded" /\ Len(file) >= 2 /\ phase' = "playing" /\ reader' = Opened
          /\ UNCHANGED <<file, accepted, frame_index, cut>>
      BY <2>2, <1>4, Zenon DEF Open, HeaderSize, writerVars
    <3>2. Finished(file, offset, frame_index, Len(accepted), cut)
      BY <3>1, FileFinished, Zenon
    <3>3. ReadSoFar(Opened, file, Len(accepted)) /\ ReadNext(Opened, file, frame_index, cut)
      <4>1. cut \in BOOLEAN
        BY Zenon DEF ReaderInv
      <4>2. QED
        BY <3>1, <3>2, <4>1, OpenedReads, Zenon
    <3>4. /\ Opened \in Readers /\ Len(Opened.got) <= Len(accepted)
          /\ \A i \in 1 .. Len(Opened.got) : Opened.got[i] = i
      BY <3>3, ReadersOpen, Zenon DEF ReadSoFar
    <3>5. QED
      BY <3>1, <3>3, <3>4, Zenon DEF ReaderInv
  <2>3. QED
    BY <2>1, <2>2, Zenon
<1>5. CASE LoadFrame
  BY <1>5, LoadStep, ReadStep, Zenon DEF LoadFrame
<1>6. CASE NextPacket
  BY <1>6, PackageStep, ReadStep, Zenon DEF NextPacket
<1>7. CASE Stop
  BY <1>7, Zenon DEF Stop, ReaderInv, writerVars
<1>8. CASE Stopped
  BY <1>8, Zenon DEF Stopped, ReaderInv, writerVars
<1>9. CASE UNCHANGED recordingVars
  BY <1>9, Zenon DEF recordingVars, writerVars, playerVars, ReaderInv
<1>10. QED
  BY <1>1, <1>2, <1>3, <1>4, <1>5, <1>6, <1>7, <1>8, <1>9, Zenon DEF RecordingNext

-----------------------------------------------------------------------------
(* A failed write leaves a file of which nothing more is claimed but the order of its slots. *)
RecordingInv ==
  /\ SlotInv /\ write_error \in BOOLEAN
  /\ write_error = FALSE => FileInv /\ ReaderInv

LEMMA ErrorStays ==
  ASSUME write_error \in BOOLEAN, [RecordingNext]_recordingVars
  PROVE  write_error' \in BOOLEAN /\ (write_error' = FALSE => write_error = FALSE)
<1>1. CASE \E d \in Devices, t \in Times : Write(d, t)
  <2>1. PICK d \in Devices, t \in Times : Write(d, t)
    BY <1>1, Zenon
  <2>2. ~write_error
    BY <2>1, Zenon DEF Write, Recorded
  <2>3. write_error' = TRUE \/ write_error' = write_error
    BY <2>1, Zenon DEF Write, Recorded
  <2>4. QED
    BY <2>2, <2>3, Zenon
<1>2. CASE Close
  BY <1>2, Zenon DEF Close
<1>3. CASE Killed
  BY <1>3, Zenon DEF Killed, writerVars
<1>4. CASE Open
  BY <1>4, Zenon DEF Open, Fail, writerVars
<1>5. CASE LoadFrame
  BY <1>5, Zenon DEF LoadFrame, EndPass, Fail, writerVars
<1>6. CASE NextPacket
  BY <1>6, Zenon DEF NextPacket, EndPass, Fail, writerVars
<1>7. CASE Stop \/ Stopped
  BY <1>7, Zenon DEF Stop, Stopped, writerVars
<1>8. CASE UNCHANGED recordingVars
  BY <1>8, Zenon DEF recordingVars, writerVars
<1>9. QED
  BY <1>1, <1>2, <1>3, <1>4, <1>5, <1>6, <1>7, <1>8, Zenon DEF RecordingNext

LEMMA RecordingInvInit == RecordingInit => RecordingInv
<1>1. SUFFICES ASSUME RecordingInit PROVE RecordingInv
  BY Zenon
<1>2. write_error = FALSE
  BY <1>1, Zenon DEF RecordingInit
<1>3. QED
  BY <1>1, <1>2, FileInit, SlotInit, ReaderInit, Zenon DEF RecordingInv

LEMMA RecordingInvStep == RecordingInv /\ [RecordingNext]_recordingVars => RecordingInv'
<1>1. SUFFICES ASSUME RecordingInv, [RecordingNext]_recordingVars PROVE RecordingInv'
  BY Zenon
<1>2. write_error' \in BOOLEAN /\ (write_error' = FALSE => write_error = FALSE)
  BY <1>1, ErrorStays, Zenon DEF RecordingInv
<1>3. SlotInv'
  BY <1>1, SlotStep, Zenon DEF RecordingInv
<1>4. ASSUME write_error' = FALSE PROVE FileInv' /\ ReaderInv'
  <2>1. write_error = FALSE /\ FileInv /\ ReaderInv /\ SlotInv
    BY <1>1, <1>2, <1>4, Zenon DEF RecordingInv
  <2>2. FileInv'
    BY <2>1, <1>1, <1>4, FileStep, Zenon
  <2>3. ReaderInv'
    BY <2>1, <1>1, ReaderStep, Zenon
  <2>4. QED
    BY <2>2, <2>3, Zenon
<1>5. QED
  BY <1>2, <1>3, <1>4, Zenon DEF RecordingInv

(* After a pass the packages read are the complete ones. *)
LEMMA CompleteRead ==
  ASSUME FileInv, NEW g \in Nat, g <= Len(accepted),
         \A c \in DOMAIN file : file[c].kind = "points" => file[c].id <= g,
         \A i \in 1 .. g : \E c \in DOMAIN file : file[c].kind = "points" /\ file[c].id = i
  PROVE  Complete = 1 .. g
<1>1. DOMAIN accepted = 1 .. Len(accepted) /\ Len(accepted) \in Nat
  BY DEF FileInv
<1>2. ASSUME NEW i \in Complete PROVE i \in 1 .. g
  <2>1. i \in 1 .. Len(accepted) /\ i <= g
    BY <1>1, <1>2, Zenon DEF Complete
  <2>2. QED
    BY <2>1, <1>1
<1>3. ASSUME NEW i \in 1 .. g PROVE i \in Complete
  <2>1. i \in 1 .. Len(accepted)
    BY <1>1, <1>3
  <2>2. QED
    BY <2>1, <1>1, Zenon DEF Complete
<1>4. QED
  BY <1>2, <1>3, Zenon

(* A frame that is cut is the last one of the file: no header follows its own. *)
LEMMA CutIsLast ==
  ASSUME NEW f, NEW e, NEW j, NEW n, Layout(f, e, j, n)
  PROVE  (\E c \in DOMAIN f : HeaderIn(f, c) /\ f[c].next > Len(f))
           <=> (\E k \in 0 .. Len(f) - 1 :
                  LET h == f[Len(f) - k] IN h.kind = "frame" /\ h.part = 1 /\ h.next > Len(f)
                  /\ \A i \in 0 .. k - 1 : f[Len(f) - i].kind # "frame" \/ f[Len(f) - i].part = 2)
<1>1. DOMAIN f = 1 .. Len(f) /\ Len(f) \in Nat
  BY DEF Layout
<1>2. ASSUME NEW c \in DOMAIN f, HeaderIn(f, c), f[c].next > Len(f)
      PROVE  \E k \in 0 .. Len(f) - 1 :
               LET h == f[Len(f) - k] IN h.kind = "frame" /\ h.part = 1 /\ h.next > Len(f)
               /\ \A i \in 0 .. k - 1 : f[Len(f) - i].kind # "frame" \/ f[Len(f) - i].part = 2
  <2>1. FrameIn(f, c, e, j)
    BY <1>2, Zenon DEF Layout
  <2>2. PICK l \in Nat, m \in Nat, t \in Nat :
          l = Len(f) /\ m = f[c].next /\ c \in 1 .. l /\ t = FirstOf(f, c) /\ m > l
    <3>1. f[c].next \in Nat /\ FirstOf(f, c) \in Nat
      BY <2>1, <1>1 DEF FrameIn, FirstOf
    <3>2. QED
      BY <3>1, <1>1, <1>2, Zenon
  <2>3. ASSUME NEW x \in c + 1 .. l PROVE f[x].kind # "frame" \/ f[x].part = 2
    <3>0. x \in 1 .. l /\ x <= m /\ (x = c + 1 \/ c + 2 <= x)
      BY <2>2
    <3>1. x \in DOMAIN f /\ x <= m /\ (x = c + 1 \/ c + 2 <= x)
      BY <3>0, <1>1, <2>2, Zenon
    <3>2. CASE x = c + 1
      BY <3>1, <3>2, <2>1, Zenon DEF FrameIn
    <3>3. CASE c + 2 <= x
      <4>1. f[x] = Cell(t + (x - c - 2))
        BY <3>1, <3>3, <2>1, <2>2, Zenon DEF FrameIn
      <4>2. t + (x - c - 2) \in Nat
        BY <3>3, <2>2
      <4>3. f[x].kind \in {"package", "points"}
        BY <4>1, <4>2, CellFacts, Zenon
      <4>4. QED
        BY <4>3, Zenon
    <3>4. QED
      BY <3>1, <3>2, <3>3, Zenon
  <2>4. /\ l - c \in 0 .. l - 1 /\ l - (l - c) = c
        /\ \A i \in 0 .. (l - c) - 1 : l - i \in c + 1 .. l
    BY <2>2
  <2>5. f[l - (l - c)] = f[c]
    BY <2>4, Zenon
  <2>6. \A i \in 0 .. (l - c) - 1 : f[l - i].kind # "frame" \/ f[l - i].part = 2
    BY <2>3, <2>4, Zenon
  <2>7. QED
    BY <2>2, <2>4, <2>5, <2>6, <1>2, Zenon DEF HeaderIn
<1>3. ASSUME NEW k \in 0 .. Len(f) - 1, f[Len(f) - k].kind = "frame", f[Len(f) - k].part = 1,
             f[Len(f) - k].next > Len(f)
      PROVE  \E c \in DOMAIN f : HeaderIn(f, c) /\ f[c].next > Len(f)
  <2>1. Len(f) - k \in DOMAIN f
    BY <1>1
  <2>2. QED
    BY <2>1, <1>3, Zenon DEF HeaderIn
<1>4. QED
  BY <1>2, <1>3, Zenon

-----------------------------------------------------------------------------
(* The devices of the player. *)
Frames == [partial : Nat, points : Nat, discarded : Nat, packets : Nat]

(* What became of the packages of a device: in frames, in its partial frame, or discarded. *)
Told(x) == x.points + x.partial + x.discarded = x.packets

DeviceInv ==
  /\ device \in [Devices -> Frames] /\ loops \in Nat
  /\ \A d \in Devices : Told(device[d])
  /\ phase = "played" => \A d \in Devices : device[d].partial = 0

LEMMA DeviceInit == RecordingInit => DeviceInv
<1>1. SUFFICES ASSUME RecordingInit PROVE DeviceInv
  BY Zenon
<1>2. /\ phase = "recording" /\ loops = 0
      /\ device = [d \in Devices |-> [partial |-> 0, points |-> 0, discarded |-> 0, packets |-> 0]]
  BY <1>1, Zenon DEF RecordingInit, NoDevice
<1>3. QED
  BY <1>2 DEF DeviceInv, Frames, Told

(* What a package makes of a device: it is discarded, or taken, before or after a frame closes. *)
Counted(x) == [x EXCEPT !.packets = @ + 1]
Fed(x) ==
  {[Counted(x) EXCEPT !.discarded = @ + 1], [Counted(x) EXCEPT !.partial = @ + 1],
   [Counted(x) EXCEPT !.points = @ + x.partial, !.partial = 1]}
Ended(x) == [x EXCEPT !.points = @ + x.partial, !.partial = 0]

LEMMA FrameClosed ==
  ASSUME NEW a, NEW b, NEW k, NEW c, NEW p, NEW q, NEW x,
         x = [partial |-> a, points |-> b, discarded |-> k, packets |-> c]
  PROVE  [x EXCEPT !.points = p, !.partial = q]
           = [partial |-> q, points |-> p, discarded |-> k, packets |-> c]
<1>1. PICK y : y = [x EXCEPT !.points = p]
  BY Zenon
<1>2. y = [partial |-> a, points |-> p, discarded |-> k, packets |-> c]
  BY <1>1
<1>3. [y EXCEPT !.partial = q] = [partial |-> q, points |-> p, discarded |-> k, packets |-> c]
  BY <1>2
<1>4. QED
  BY <1>1, <1>3, Zenon

LEMMA DeviceTakes ==
  ASSUME NEW x \in Frames, Told(x)
  PROVE  /\ Ended(x) \in Frames /\ Told(Ended(x)) /\ Ended(x).partial = 0
         /\ Ended(x).packets = x.packets /\ Ended(x).discarded = x.discarded
         /\ \A y \in Fed(x) : y \in Frames /\ Told(y) /\ y.packets = x.packets + 1
         /\ [Counted(x) EXCEPT !.discarded = @ + 1].discarded = x.discarded + 1
         /\ \A y \in Fed(x) \ {[Counted(x) EXCEPT !.discarded = @ + 1]} : y.discarded = x.discarded
<1>1. PICK a \in Nat, b \in Nat, k \in Nat, c \in Nat :
        x = [partial |-> a, points |-> b, discarded |-> k, packets |-> c]
  BY Zenon DEF Frames
<1>2. b + a + k = c
  <2>1. x.partial = a /\ x.points = b /\ x.discarded = k /\ x.packets = c
    BY <1>1
  <2>2. QED
    BY <2>1, Zenon DEF Told
<1>3. Ended(x) = [partial |-> 0, points |-> b + a, discarded |-> k, packets |-> c]
  <2>1. x.partial = a /\ x.points = b
    BY <1>1
  <2>2. Ended(x) = [x EXCEPT !.points = b + a, !.partial = 0]
    BY <2>1, Zenon DEF Ended
  <2>3. QED
    BY <2>2, <1>1, FrameClosed, Zenon
<1>4. Ended(x) \in Frames /\ Told(Ended(x)) /\ Ended(x).partial = 0
      /\ Ended(x).packets = x.packets /\ Ended(x).discarded = x.discarded
  <2>1. PICK n \in Nat : n = b + a
    OBVIOUS
  <2>2. n + 0 + k = c
    BY <1>2, <2>1
  <2>3. PICK z : z = Ended(x) /\ z = [partial |-> 0, points |-> n, discarded |-> k, packets |-> c]
    BY <1>3, <2>1, Zenon
  <2>4. z \in Frames /\ Told(z) /\ z.partial = 0 /\ z.packets = c /\ z.discarded = k
    BY <2>2, <2>3 DEF Frames, Told
  <2>5. x.packets = c /\ x.discarded = k
    BY <1>1
  <2>6. QED
    BY <2>3, <2>4, <2>5, Zenon
<1>5. PICK y \in Frames : /\ y = Counted(x)
                          /\ y = [partial |-> a, points |-> b, discarded |-> k, packets |-> c + 1]
  <2>1. PICK n \in Nat : n = c + 1
    OBVIOUS
  <2>2. [x EXCEPT !.packets = n] = [partial |-> a, points |-> b, discarded |-> k, packets |-> n]
    BY <1>1
  <2>3. x.packets = c
    BY <1>1
  <2>4. Counted(x) = [x EXCEPT !.packets = n]
    BY <2>1, <2>3, Zenon DEF Counted
  <2>5. [partial |-> a, points |-> b, discarded |-> k, packets |-> n] \in Frames
    BY DEF Frames
  <2>6. QED
    BY <2>1, <2>2, <2>4, <2>5, Zenon
<1>6. /\ [Counted(x) EXCEPT !.discarded = @ + 1]
           = [partial |-> a, points |-> b, discarded |-> k + 1, packets |-> c + 1]
      /\ [Counted(x) EXCEPT !.partial = @ + 1]
           = [partial |-> a + 1, points |-> b, discarded |-> k, packets |-> c + 1]
      /\ [Counted(x) EXCEPT !.points = @ + x.partial, !.partial = 1]
           = [partial |-> 1, points |-> b + a, discarded |-> k, packets |-> c + 1]
  <2>1. [y EXCEPT !.discarded = @ + 1]
          = [partial |-> a, points |-> b, discarded |-> k + 1, packets |-> c + 1]
    BY <1>5
  <2>2. [y EXCEPT !.partial = @ + 1]
          = [partial |-> a + 1, points |-> b, discarded |-> k, packets |-> c + 1]
    BY <1>5
  <2>3. [y EXCEPT !.points = @ + x.partial, !.partial = 1]
          = [partial |-> 1, points |-> b + a, discarded |-> k, packets |-> c + 1]
    <3>1. x.partial = a /\ y.points = b
      BY <1>1, <1>5
    <3>2. [y EXCEPT !.points = b + a, !.partial = 1]
            = [partial |-> 1, points |-> b + a, discarded |-> k, packets |-> c + 1]
      <4>1. PICK n, m : n = c + 1 /\ m = b + a
        BY Zenon
      <4>2. y = [partial |-> a, points |-> b, discarded |-> k, packets |-> n]
        BY <1>5, <4>1, Zenon
      <4>3. [y EXCEPT !.points = m, !.partial = 1]
              = [partial |-> 1, points |-> m, discarded |-> k, packets |-> n]
        <5>1. PICK z : z = [y EXCEPT !.points = m]
          BY Zenon
        <5>2. z = [partial |-> a, points |-> m, discarded |-> k, packets |-> n]
          BY <4>2, <5>1
        <5>3. [z EXCEPT !.partial = 1]
                = [partial |-> 1, points |-> m, discarded |-> k, packets |-> n]
          BY <5>2
        <5>4. QED
          BY <5>1, <5>3, Zenon
      <4>4. QED
        BY <4>1, <4>3, Zenon
    <3>3. QED
      BY <3>1, <3>2, Zenon
  <2>4. QED
    BY <2>1, <2>2, <2>3, <1>5, Zenon
<1>7. ASSUME NEW o, o = [partial |-> a, points |-> b, discarded |-> k + 1, packets |-> c + 1]
      PROVE  o \in Frames /\ Told(o) /\ o.packets = c + 1 /\ o.discarded = k + 1
  BY <1>2, <1>7 DEF Frames, Told
<1>8. ASSUME NEW o, o = [partial |-> a + 1, points |-> b, discarded |-> k, packets |-> c + 1]
      PROVE  o \in Frames /\ Told(o) /\ o.packets = c + 1 /\ o.discarded = k
  BY <1>2, <1>8 DEF Frames, Told
<1>9. ASSUME NEW o, o = [partial |-> 1, points |-> b + a, discarded |-> k, packets |-> c + 1]
      PROVE  o \in Frames /\ Told(o) /\ o.packets = c + 1 /\ o.discarded = k
  BY <1>2, <1>9 DEF Frames, Told
<1>10. x.packets = c /\ x.discarded = k
  BY <1>1
<1>11. PICK u, v, w : /\ u = [Counted(x) EXCEPT !.discarded = @ + 1]
                      /\ v = [Counted(x) EXCEPT !.partial = @ + 1]
                      /\ w = [Counted(x) EXCEPT !.points = @ + x.partial, !.partial = 1]
  BY Zenon
<1>12. Fed(x) = {u, v, w}
  BY <1>11, Zenon DEF Fed
<1>13. /\ u \in Frames /\ Told(u) /\ u.packets = c + 1 /\ u.discarded = k + 1
       /\ v \in Frames /\ Told(v) /\ v.packets = c + 1 /\ v.discarded = k
       /\ w \in Frames /\ Told(w) /\ w.packets = c + 1 /\ w.discarded = k
  <2>1. /\ u = [partial |-> a, points |-> b, discarded |-> k + 1, packets |-> c + 1]
        /\ v = [partial |-> a + 1, points |-> b, discarded |-> k, packets |-> c + 1]
        /\ w = [partial |-> 1, points |-> b + a, discarded |-> k, packets |-> c + 1]
    BY <1>6, <1>11, Zenon
  <2>2. QED
    BY <2>1, <1>7, <1>8, <1>9, Zenon
<1>14. QED
  BY <1>4, <1>10, <1>11, <1>12, <1>13, Zenon

LEMMA PassDevices ==
  ASSUME DeviceInv, device' = PassEnds
  PROVE  /\ device' \in [Devices -> Frames]
         /\ \A d \in Devices : /\ Told(device'[d]) /\ device'[d].partial = 0
                               /\ device'[d].packets = device[d].packets
                               /\ device'[d].discarded = device[d].discarded
<1>1. ASSUME NEW d \in Devices
      PROVE  /\ device'[d] \in Frames /\ Told(device'[d]) /\ device'[d].partial = 0
             /\ device'[d].packets = device[d].packets
             /\ device'[d].discarded = device[d].discarded
  <2>1. device[d] \in Frames /\ Told(device[d])
    BY Zenon DEF DeviceInv
  <2>2. device'[d] = Ended(device[d])
    BY Zenon DEF PassEnds, FlushedFrames, Ended
  <2>3. QED
    BY <2>1, <2>2, DeviceTakes, Zenon
<1>2. device' = [d \in Devices |-> device'[d]]
  BY Zenon DEF PassEnds, FlushedFrames
<1>3. QED
  BY <1>1, <1>2, Zenon

LEMMA FeedDevices ==
  ASSUME DeviceInv, NEW id, Feed(id)
  PROVE  /\ device' \in [Devices -> Frames]
         /\ \A d \in Devices :
              /\ Told(device'[d])
              /\ device'[d].packets = IF d = accepted[id] /\ Played(d) THEN device[d].packets + 1
                                      ELSE device[d].packets
              /\ ~write_error =>
                   device'[d].discarded = IF d = accepted[id] /\ Played(d) /\ id \in late
                                            THEN device[d].discarded + 1 ELSE device[d].discarded
<1>. DEFINE e == accepted[id]
<1>1. CASE Played(e) /\ e \in Devices
  <2>. DEFINE z == [Counted(device[e]) EXCEPT !.discarded = @ + 1]
  <2>1. PICK b \in Discards(id) :
          IF b THEN device' = [device EXCEPT ![e] = z]
          ELSE \E y \in Fed(device[e]) \ {z} : device' = [device EXCEPT ![e] = y]
    <3>1. PICK b \in Discards(id) :
            IF b THEN device' = [device EXCEPT ![e] = z]
            ELSE \/ device' = [device EXCEPT ![e] = [Counted(device[e]) EXCEPT !.partial = @ + 1]]
                 \/ device' = [device EXCEPT ![e] =
                       [Counted(device[e]) EXCEPT !.points = @ + device[e].partial, !.partial = 1]]
      BY <1>1, Zenon DEF Feed, Counted
    <3>2. [Counted(device[e]) EXCEPT !.partial = @ + 1] # z
          /\ [Counted(device[e]) EXCEPT !.points = @ + device[e].partial, !.partial = 1] # z
      <4>1. PICK x \in Frames : x = device[e] /\ Told(x)
        BY <1>1, Zenon DEF DeviceInv
      <4>2. PICK a \in Nat, p \in Nat, k \in Nat, c \in Nat :
              x = [partial |-> a, points |-> p, discarded |-> k, packets |-> c]
        BY Zenon DEF Frames
      <4>3. z.discarded = k + 1 /\ [Counted(x) EXCEPT !.partial = @ + 1].discarded = k
            /\ [Counted(x) EXCEPT !.points = @ + x.partial, !.partial = 1].discarded = k
        BY <4>1, <4>2 DEF Counted
      <4>4. k + 1 # k
        OBVIOUS
      <4>5. QED
        BY <4>1, <4>3, <4>4, Zenon
    <3>3. QED
      BY <3>1, <3>2, Zenon DEF Fed
  <2>2. device[e] \in Frames /\ Told(device[e])
    BY <1>1, Zenon DEF DeviceInv
  <2>3. PICK y \in Fed(device[e]) : /\ device' = [device EXCEPT ![e] = y]
                                    /\ b => y = z
                                    /\ ~b => y \in Fed(device[e]) \ {z}
    BY <2>1, Zenon DEF Fed
  <2>4. /\ y \in Frames /\ Told(y) /\ y.packets = device[e].packets + 1
        /\ y.discarded = IF b THEN device[e].discarded + 1 ELSE device[e].discarded
    BY <2>2, <2>3, DeviceTakes, Zenon
  <2>5. ~write_error => (b <=> id \in late)
    BY <2>1, Zenon DEF Discards
  <2>6. device \in [Devices -> Frames] /\ \A d \in Devices : Told(device[d])
    BY Zenon DEF DeviceInv
  <2>7. device' \in [Devices -> Frames] /\ device'[e] = y
        /\ \A d \in Devices : d # e => device'[d] = device[d]
    BY <2>3, <2>4, <2>6, <1>1, Zenon
  <2>8. QED
    BY <2>4, <2>5, <2>6, <2>7, <1>1, Zenon
<1>2. CASE ~(Played(e) /\ e \in Devices)
  <2>1. device' = device
    BY <1>2 DEF Feed, DeviceInv
  <2>2. QED
    BY <2>1, <1>2, Zenon DEF DeviceInv
<1>3. QED
  BY <1>1, <1>2, Zenon

LEMMA DeviceStep ==
  ASSUME DeviceInv, [RecordingNext]_recordingVars
  PROVE  DeviceInv'
<1>a. ASSUME UNCHANGED <<device, loops>>, phase' # "played" \/ phase' = phase
      PROVE  DeviceInv'
  BY <1>a, Zenon DEF DeviceInv
<1>b. ASSUME NEW r, EndPass(r) PROVE DeviceInv'
  <2>1. device' = PassEnds /\ loops' = loops + 1
    BY <1>b, Zenon DEF EndPass
  <2>2. QED
    BY <2>1, PassDevices DEF DeviceInv
<1>1. CASE \E d \in Devices, t \in Times : Write(d, t)
  BY <1>1, <1>a, Zenon DEF Write, Recorded, playerVars
<1>2. CASE Close
  BY <1>2, <1>a, Zenon DEF Close, playerVars
<1>3. CASE Killed
  BY <1>3, <1>a, Zenon DEF Killed, playerVars
<1>4. CASE Open
  BY <1>4, <1>a, Zenon DEF Open, Fail, playerVars
<1>5. CASE LoadFrame
  BY <1>5, <1>a, <1>b, Zenon DEF LoadFrame, Fail, playerVars
<1>6. CASE NextPacket
  <2>1. CASE \E r : EndPass(r)
    BY <2>1, <1>b, Zenon
  <2>2. CASE \E e : Feed(e) /\ UNCHANGED <<phase, loops>> /\ phase = "playing"
    BY <2>2, FeedDevices, Zenon DEF DeviceInv
  <2>3. CASE UNCHANGED <<device, loops>> /\ (phase' # "played" \/ phase' = phase)
    BY <2>3, <1>a, Zenon
  <2>4. QED
    BY <1>6, <2>1, <2>2, <2>3, Zenon DEF NextPacket, Fail, playerVars
<1>7. CASE Stop
  BY <1>7, <1>a, Zenon DEF Stop
<1>8. CASE Stopped
  <2>1. device' = PassEnds /\ loops' = loops
    BY <1>8, Zenon DEF Stopped
  <2>2. QED
    BY <2>1, PassDevices, Zenon DEF DeviceInv
<1>9. CASE UNCHANGED recordingVars
  BY <1>9, <1>a, Zenon DEF recordingVars, playerVars
<1>10. QED
  BY <1>1, <1>2, <1>3, <1>4, <1>5, <1>6, <1>7, <1>8, <1>9, Zenon DEF RecordingNext

-----------------------------------------------------------------------------
INSTANCE FiniteSetTheorems

LEMMA ReadBackHolds == RecordingInv => ReadBack
<1>1. SUFFICES ASSUME RecordingInv PROVE ReadBack
  BY Zenon
<1>2. FramesForward
  BY <1>1, Zenon DEF RecordingInv, SlotInv, FramesForward
<1>3. ReadsWhatWasWritten
  <2>1. SUFFICES ASSUME ~write_error PROVE Len(reader.got) <= Len(accepted)
                                          /\ \A i \in DOMAIN reader.got : reader.got[i] = i
    BY Zenon DEF ReadsWhatWasWritten
  <2>2. ReaderInv
    BY <2>1, <1>1, Zenon DEF RecordingInv
  <2>3. reader.got \in Seq(Nat)
    BY <2>2, Zenon DEF ReaderInv, Readers
  <2>4. QED
    BY <2>2, <2>3 DEF ReaderInv
<1>4. ASSUME phase = "played", ~stopping, ~write_error
      PROVE  /\ Len(reader.got) = Cardinality(Complete)
             /\ ~cut => Len(reader.got) = Len(accepted) /\ ~reader.truncated
             /\ reader.truncated <=> (\E k \in 0 .. Len(file) - 1 :
                  LET h == file[Len(file) - k] IN h.kind = "frame" /\ h.part = 1 /\ h.next > Len(file)
                  /\ \A j \in 0 .. k - 1 :
                       file[Len(file) - j].kind # "frame" \/ file[Len(file) - j].part = 2)
  <2>1. FileInv /\ ReaderInv
    BY <1>1, <1>4, Zenon DEF RecordingInv
  <2>2. PassOver(reader, file, Len(accepted), cut) /\ reader.got \in Seq(Nat)
        /\ Layout(file, offset, frame_index, Len(accepted))
    BY <2>1, <1>4, Zenon DEF ReaderInv, Readers, FileInv
  <2>3. PICK g \in Nat : g = Len(reader.got)
    BY <2>2
  <2>4. /\ g <= Len(accepted) /\ \A c \in DOMAIN file : file[c].kind = "points" => file[c].id <= g
        /\ \A i \in 1 .. g : \E c \in DOMAIN file : file[c].kind = "points" /\ file[c].id = i
    BY <2>1, <2>2, <2>3, <1>4, Zenon DEF ReaderInv, PassOver
  <2>5. Complete = 1 .. g
    BY <2>1, <2>4, CompleteRead, Zenon
  <2>6. Cardinality(1 .. g) = g
    BY FS_Interval
  <2>7. reader.truncated <=> \E c \in DOMAIN file : HeaderIn(file, c) /\ file[c].next > Len(file)
    BY <2>2, Zenon DEF PassOver
  <2>8. ~cut => Len(reader.got) = Len(accepted) /\ ~reader.truncated
    BY <2>2, Zenon DEF PassOver
  <2>9. Len(reader.got) = Cardinality(Complete)
    BY <2>3, <2>5, <2>6, Zenon
  <2>10. QED
    BY <2>2, <2>7, <2>8, <2>9, CutIsLast, Zenon
<1>5. CutIsTold
  BY <1>4, Zenon DEF CutIsTold
<1>6. QED
  BY <1>2, <1>3, <1>5, Zenon DEF ReadBack

(* What was written is read back, in its order, each package once, and every complete package of  *)
(* a file that was cut anywhere; truncated() tells exactly that the last frame is not whole       *)
(* (flush_frame(), lvx2.cpp:179-202, against load_frame() and next_packet(), lines 398-435 and    *)
(* 511-567), when no write failed; frames only move forward.                                      *)
THEOREM RecordingReadBack == RecordingSpec => []ReadBack
<1>1. RecordingSpec => []RecordingInv
  BY RecordingInvInit, RecordingInvStep, PTL DEF RecordingSpec
<1>2. QED
  BY <1>1, ReadBackHolds, PTL

-----------------------------------------------------------------------------
(* The packages of a device, and those of them that are late. *)
Of(d) == {i \in DOMAIN accepted : accepted[i] = d}
LateOf(d) == Of(d) \cap late

(* How many of the packages in M device d has got in l passes and the one that has read the *)
(* first g.                                                                                  *)
Share(d, M, l, g) ==
  IF Played(d) THEN l * Cardinality(Complete \cap M) + Cardinality((1 .. g) \cap M) ELSE 0

(* Each device has got its share of every pass so far. *)
GotShare(d, l, g) ==
  /\ device[d].packets = Share(d, Of(d), l, g)
  /\ device[d].discarded = Share(d, LateOf(d), l, g)

CountInv ==
  /\ phase \in {"recording", "recorded"} =>
       loops = 0 /\ \A d \in Devices : device[d].packets = 0 /\ device[d].discarded = 0
  /\ phase = "playing" => \A d \in Devices : GotShare(d, loops, Len(reader.got))
  /\ phase = "played" /\ ~stopping => \A d \in Devices : GotShare(d, loops, 0)

LEMMA FirstNone == \A M : Cardinality((1 .. 0) \cap M) = 0
<1>1. 1 .. 0 = {}
  OBVIOUS
<1>2. \A M : (1 .. 0) \cap M = {}
  BY <1>1, Zenon
<1>3. QED
  BY <1>2, FS_EmptySet, Zenon

LEMMA FirstFinite ==
  ASSUME NEW g \in Nat, NEW M
  PROVE  IsFiniteSet((1 .. g) \cap M) /\ Cardinality((1 .. g) \cap M) \in Nat
<1>1. IsFiniteSet(1 .. g) /\ (1 .. g) \cap M \in SUBSET (1 .. g)
  BY FS_Interval
<1>2. IsFiniteSet((1 .. g) \cap M)
  BY <1>1, FS_Subset, Zenon
<1>3. QED
  BY <1>2, FS_CardinalityType, Zenon

LEMMA FirstOneMore ==
  ASSUME NEW g \in Nat, NEW M
  PROVE  Cardinality((1 .. g + 1) \cap M) =
           IF g + 1 \in M THEN Cardinality((1 .. g) \cap M) + 1 ELSE Cardinality((1 .. g) \cap M)
<1>1. 1 .. g + 1 = (1 .. g) \cup {g + 1} /\ g + 1 \notin 1 .. g
  OBVIOUS
<1>2. PICK S, T, x : S = (1 .. g) \cap M /\ T = (1 .. g + 1) \cap M /\ x = g + 1
  BY Zenon
<1>3. IsFiniteSet(S)
  BY <1>2, FirstFinite, Zenon
<1>4. CASE x \in M
  <2>1. T = S \cup {x} /\ x \notin S
    BY <1>1, <1>2, <1>4, Zenon
  <2>2. Cardinality(S \cup {x}) = Cardinality(S) + 1
    BY <1>3, <2>1, FS_AddElement, Zenon
  <2>3. QED
    BY <1>2, <1>4, <2>1, <2>2, Zenon
<1>5. CASE x \notin M
  <2>1. T = S
    BY <1>1, <1>2, <1>5, Zenon
  <2>2. QED
    BY <1>2, <1>5, <2>1, Zenon
<1>6. QED
  BY <1>4, <1>5, Zenon

LEMMA CompleteFinite ==
  ASSUME FileInv, NEW M
  PROVE  IsFiniteSet(Complete \cap M) /\ Cardinality(Complete \cap M) \in Nat
<1>1. accepted \in Seq(Devices)
  BY Zenon DEF FileInv
<1>2. PICK n \in Nat : DOMAIN accepted = 1 .. n
  BY <1>1
<1>3. Complete \cap M \in SUBSET (1 .. n)
  BY <1>2, Zenon DEF Complete
<1>4. IsFiniteSet(1 .. n)
  BY FS_Interval
<1>5. IsFiniteSet(Complete \cap M)
  BY <1>3, <1>4, FS_Subset, Zenon
<1>6. QED
  BY <1>5, FS_CardinalityType, Zenon

LEMMA OnePassMore == \A l \in Nat, t \in Nat : l * t + t = (l + 1) * t /\ (l + 1) * t + 0 = (l + 1) * t
OBVIOUS

(* One more package of device d, and none of another. *)
LEMMA ShareOneMore ==
  ASSUME FileInv, NEW d, NEW M, NEW l \in Nat, NEW g \in Nat
  PROVE  Share(d, M, l, g + 1) =
           IF Played(d) /\ g + 1 \in M THEN Share(d, M, l, g) + 1 ELSE Share(d, M, l, g)
<1>1. PICK u \in Nat, t \in Nat : u = Cardinality((1 .. g) \cap M) /\ t = Cardinality(Complete \cap M)
  BY FirstFinite, CompleteFinite, Zenon
<1>2. (l * t + u) + 1 = l * t + (u + 1)
  <2>1. l * t \in Nat
    OBVIOUS
  <2>2. PICK x \in Nat : x = l * t
    BY <2>1, Zenon
  <2>3. (x + u) + 1 = x + (u + 1)
    OBVIOUS
  <2>4. QED
    BY <2>2, <2>3, Zenon
<1>3. CASE g + 1 \in M
  BY <1>1, <1>2, <1>3, FirstOneMore, Zenon DEF Share
<1>4. CASE g + 1 \notin M
  BY <1>4, FirstOneMore, Zenon DEF Share
<1>5. QED
  BY <1>3, <1>4, Zenon

(* The shares depend only on the file, the packages and which of them are late. *)
LEMMA ShareStays ==
  ASSUME UNCHANGED <<file, accepted, late>>, NEW d, NEW x, NEW y
  PROVE  /\ Share(d, Of(d), x, y)' = Share(d, Of(d), x, y)
         /\ Share(d, LateOf(d), x, y)' = Share(d, LateOf(d), x, y)
<1>1. Complete' = Complete
  BY Zenon DEF Complete
<1>2. Of(d)' = Of(d)
  BY Zenon DEF Of
<1>3. LateOf(d)' = LateOf(d)
  BY <1>2, Zenon DEF LateOf
<1>4. QED
  BY <1>1, <1>2, <1>3, Zenon DEF Share, Played

(* A pass that is over has given each device its packages of the file. *)
LEMMA CountPass ==
  ASSUME FileInv, ReaderInv, DeviceInv, CountInv, phase = "playing", PassDone
  PROVE  CountInv'
<1>1. PICK r \in Readers : EndPass(r) /\ r.got = reader.got /\ PassOver(r, file, Len(accepted), cut)
  BY Zenon DEF PassDone
<1>2. /\ UNCHANGED <<file, accepted, late>> /\ loops' = loops + 1 /\ device' = PassEnds
      /\ phase' = "played" \/ (phase' = "playing" /\ reader' = Opened)
  BY <1>1, Zenon DEF EndPass, writerVars
<1>3. PICK g \in Nat, l \in Nat : g = Len(reader.got) /\ l = loops
  <2>1. reader.got \in Seq(Nat) /\ loops \in Nat
    BY Zenon DEF ReaderInv, Readers, DeviceInv
  <2>2. QED
    BY <2>1
<1>4. /\ g <= Len(accepted) /\ \A c \in DOMAIN file : file[c].kind = "points" => file[c].id <= g
      /\ \A i \in 1 .. g : \E c \in DOMAIN file : file[c].kind = "points" /\ file[c].id = i
  BY <1>1, <1>3, Zenon DEF ReaderInv, PassOver, ReadSoFar
<1>5. Complete = 1 .. g
  BY <1>4, CompleteRead, Zenon
<1>6. ASSUME NEW d, NEW M PROVE Share(d, M, l, g) = Share(d, M, l + 1, 0)
  <2>1. PICK t \in Nat : t = Cardinality((1 .. g) \cap M)
    BY FirstFinite, Zenon
  <2>2. Cardinality(Complete \cap M) = t /\ Cardinality((1 .. 0) \cap M) = 0
    BY <2>1, <1>5, FirstNone, Zenon
  <2>3. l * t + t = (l + 1) * t + 0
    BY OnePassMore, Zenon
  <2>4. QED
    BY <2>1, <2>2, <2>3, Zenon DEF Share
<1>7. ASSUME NEW d \in Devices
      PROVE  /\ device'[d].packets = Share(d, Of(d), l + 1, 0)
             /\ device'[d].discarded = Share(d, LateOf(d), l + 1, 0)
  <2>1. device[d].packets = Share(d, Of(d), l, g) /\ device[d].discarded = Share(d, LateOf(d), l, g)
    BY <1>3, Zenon DEF CountInv, GotShare
  <2>2. device'[d].packets = device[d].packets /\ device'[d].discarded = device[d].discarded
    BY <1>2, PassDevices, Zenon
  <2>3. QED
    BY <2>1, <2>2, <1>6, Zenon
<1>8. \A d, x, y : /\ Share(d, Of(d), x, y)' = Share(d, Of(d), x, y)
                   /\ Share(d, LateOf(d), x, y)' = Share(d, LateOf(d), x, y)
  BY <1>2, ShareStays, Zenon
<1>9. Len(Opened.got) = 0
  BY Zenon DEF Opened, NoReader
<1>10. \A d \in Devices : GotShare(d, l + 1, 0)'
  BY <1>7, <1>8, Zenon DEF GotShare
<1>11. loops' = l + 1 /\ (phase' = "playing" => Len(reader'.got) = 0)
  BY <1>2, <1>3, <1>9, Zenon
<1>12. phase' \notin {"recording", "recorded"}
  BY <1>2, Zenon
<1>13. QED
  BY <1>10, <1>11, <1>12, Zenon DEF CountInv

LEMMA CountStep ==
  ASSUME FileInv, ReaderInv, DeviceInv, CountInv, write_error = FALSE, [RecordingNext]_recordingVars
  PROVE  CountInv'
<1>a. ASSUME phase \in {"recording", "recorded"}, phase' \in {"recording", "recorded"},
             UNCHANGED <<device, loops>>
      PROVE  CountInv'
  BY <1>a, Zenon DEF CountInv
<1>b. ASSUME phase' = "failed" PROVE CountInv'
  BY <1>b, Zenon DEF CountInv
<1>c. ASSUME UNCHANGED <<file, accepted, late>>
      PROVE  \A d, x, y : /\ Share(d, Of(d), x, y)' = Share(d, Of(d), x, y)
                          /\ Share(d, LateOf(d), x, y)' = Share(d, LateOf(d), x, y)
  BY <1>c, ShareStays, Zenon
<1>d. ASSUME UNCHANGED <<file, accepted, late, device>>
      PROVE  \A d, x, y : GotShare(d, x, y)' <=> GotShare(d, x, y)
  <2>1. \A d, x, y : /\ Share(d, Of(d), x, y)' = Share(d, Of(d), x, y)
                     /\ Share(d, LateOf(d), x, y)' = Share(d, LateOf(d), x, y)
    BY <1>d, <1>c, Zenon
  <2>2. QED
    BY <1>d, <2>1, Zenon DEF GotShare
<1>1. CASE \E d \in Devices, t \in Times : Write(d, t)
  BY <1>1, <1>a, Zenon DEF Write, Recorded, playerVars
<1>2. CASE Close
  BY <1>2, <1>a, Zenon DEF Close, playerVars
<1>3. CASE Killed
  BY <1>3, <1>a, Zenon DEF Killed, playerVars
<1>4. CASE Open
  <2>1. CASE Fail
    BY <2>1, <1>b, Zenon DEF Fail
  <2>2. CASE ~Fail
    <3>1. /\ phase = "recorded" /\ phase' = "playing" /\ reader' = Opened
          /\ UNCHANGED <<file, accepted, late, device, loops>>
      BY <2>2, <1>4, Zenon DEF Open, writerVars
    <3>2. Len(Opened.got) = 0
      BY Zenon DEF Opened, NoReader
    <3>3. loops = 0 /\ \A d \in Devices : device[d].packets = 0 /\ device[d].discarded = 0
      BY <3>1, Zenon DEF CountInv
    <3>4. ASSUME NEW d, NEW M PROVE Share(d, M, 0, 0) = 0
      <4>1. PICK t \in Nat : t = Cardinality(Complete \cap M)
        BY CompleteFinite, Zenon
      <4>2. 0 * t + 0 = 0
        OBVIOUS
      <4>3. QED
        BY <4>1, <4>2, FirstNone, Zenon DEF Share
    <3>5. \A d \in Devices : GotShare(d, 0, 0)
      BY <3>3, <3>4, Zenon DEF GotShare
    <3>6. \A d \in Devices : GotShare(d, 0, 0)'
      BY <3>1, <3>5, <1>d, Zenon
    <3>7. loops' = 0 /\ Len(reader'.got) = 0
      BY <3>1, <3>2, <3>3, Zenon
    <3>8. QED
      BY <3>1, <3>6, <3>7, Zenon DEF CountInv
  <2>3. QED
    BY <2>1, <2>2, Zenon
<1>5. CASE LoadFrame
  <2>1. phase = "playing"
    BY <1>5, Zenon DEF LoadFrame
  <2>2. CASE PassDone
    BY <2>1, <2>2, CountPass, Zenon
  <2>3. CASE ReadsOn /\ UNCHANGED device /\ reader'.got = reader.got
    <3>1. UNCHANGED <<file, accepted, late, loops, phase>>
      BY <2>3, Zenon DEF ReadsOn
    <3>2. QED
      BY <2>1, <2>3, <3>1, <1>d, Zenon DEF CountInv
  <2>4. QED
    BY <1>5, <2>2, <2>3, LoadStep, Zenon
<1>6. CASE NextPacket
  <2>1. phase = "playing"
    BY <1>6, Zenon DEF NextPacket
  <2>2. CASE PassDone
    BY <2>1, <2>2, CountPass, Zenon
  <2>3. CASE /\ ReadsOn /\ reader'.got = Append(reader.got, Len(reader.got) + 1)
             /\ Feed(Len(reader.got) + 1)
    <3>1. PICK g \in Nat, l \in Nat : g = Len(reader.got) /\ l = loops
      <4>1. reader.got \in Seq(Nat) /\ loops \in Nat
        BY Zenon DEF ReaderInv, Readers, DeviceInv
      <4>2. QED
        BY <4>1
    <3>2. Len(reader'.got) = g + 1 /\ loops' = l /\ phase' = "playing"
          /\ UNCHANGED <<file, accepted, late>>
      <4>1. reader.got \in Seq(Nat)
        BY Zenon DEF ReaderInv, Readers
      <4>2. Len(reader'.got) = g + 1
        BY <4>1, <2>3, <3>1
      <4>3. QED
        BY <4>2, <2>1, <2>3, <3>1, Zenon DEF ReadsOn
    <3>3. g + 1 \in DOMAIN accepted
      <4>1. Len(reader'.got) <= Len(accepted) /\ accepted \in Seq(Devices)
        BY <2>3, <3>2, Zenon DEF ReadsOn, ReadSoFar, FileInv
      <4>2. QED
        BY <3>2, <4>1
    <3>4. ASSUME NEW d \in Devices
          PROVE  /\ device'[d].packets = Share(d, Of(d), l, g + 1)
                 /\ device'[d].discarded = Share(d, LateOf(d), l, g + 1)
      <4>1. device[d].packets = Share(d, Of(d), l, g) /\ device[d].discarded = Share(d, LateOf(d), l, g)
        BY <2>1, <3>1, Zenon DEF CountInv, GotShare
      <4>2. /\ device'[d].packets = IF d = accepted[g + 1] /\ Played(d) THEN device[d].packets + 1
                                    ELSE device[d].packets
            /\ device'[d].discarded = IF d = accepted[g + 1] /\ Played(d) /\ g + 1 \in late
                                         THEN device[d].discarded + 1 ELSE device[d].discarded
        BY <2>3, <3>1, FeedDevices, Zenon
      <4>3. /\ g + 1 \in Of(d) <=> d = accepted[g + 1]
            /\ g + 1 \in LateOf(d) <=> d = accepted[g + 1] /\ g + 1 \in late
        BY <3>3, Zenon DEF Of, LateOf
      <4>4. \A M : Share(d, M, l, g + 1) =
                     IF Played(d) /\ g + 1 \in M THEN Share(d, M, l, g) + 1 ELSE Share(d, M, l, g)
        BY ShareOneMore, Zenon
      <4>5. device'[d].packets = Share(d, Of(d), l, g + 1)
        BY <4>1, <4>2, <4>3, <4>4, Zenon
      <4>6. device'[d].discarded = Share(d, LateOf(d), l, g + 1)
        BY <4>1, <4>2, <4>3, <4>4, Zenon
      <4>7. QED
        BY <4>5, <4>6, Zenon
    <3>5. ASSUME NEW d \in Devices PROVE GotShare(d, l, g + 1)'
      <4>1. /\ Share(d, Of(d), l, g + 1)' = Share(d, Of(d), l, g + 1)
            /\ Share(d, LateOf(d), l, g + 1)' = Share(d, LateOf(d), l, g + 1)
        BY <3>2, <1>c, Zenon
      <4>2. QED
        BY <3>4, <4>1, Zenon DEF GotShare
    <3>6. QED
      BY <3>2, <3>5, Zenon DEF CountInv
  <2>4. QED
    BY <1>6, <2>2, <2>3, PackageStep, Zenon
<1>7. CASE Stop
  <2>1. UNCHANGED <<file, accepted, late, device, loops, phase, reader>> /\ stopping'
    BY <1>7, Zenon DEF Stop, writerVars
  <2>2. QED
    BY <2>1, <1>d, Zenon DEF CountInv
<1>8. CASE Stopped
  BY <1>8, Zenon DEF Stopped, CountInv
<1>9. CASE UNCHANGED recordingVars
  <2>1. UNCHANGED <<file, accepted, late, device, loops, phase, reader, stopping>>
    BY <1>9, Zenon DEF recordingVars, writerVars, playerVars
  <2>2. QED
    BY <2>1, <1>d, Zenon DEF CountInv
<1>10. QED
  BY <1>1, <1>2, <1>3, <1>4, <1>5, <1>6, <1>7, <1>8, <1>9, Zenon DEF RecordingNext

PlayedInv == RecordingInv /\ DeviceInv /\ (write_error = FALSE => CountInv)

(* Every pass plays the whole of each chosen device, and the same: the packages of the file are   *)
(* counted once per pass, and all but the late ones are in frames, wherever the assembler closes  *)
(* frames, whichever packages are late and however the file ends, when no write failed (run(),    *)
(* lvx2.cpp:651-771; the discard, frame_assembler.cpp:173).                                       *)
THEOREM RecordingAllPlayed == RecordingSpec => []AllPlayed
<1>1. RecordingInit => PlayedInv
  <2>1. SUFFICES ASSUME RecordingInit PROVE PlayedInv
    BY Zenon
  <2>2. DeviceInv /\ RecordingInv
    BY <2>1, DeviceInit, RecordingInvInit, Zenon
  <2>3. CountInv
    <3>1. /\ phase = "recording" /\ loops = 0
          /\ device = [d \in Devices |-> NoDevice]
      BY <2>1, Zenon DEF RecordingInit
    <3>2. \A d \in Devices : device[d].packets = 0 /\ device[d].discarded = 0
      BY <3>1, Zenon DEF NoDevice
    <3>3. QED
      BY <3>1, <3>2, Zenon DEF CountInv
  <2>4. QED
    BY <2>2, <2>3, Zenon DEF PlayedInv
<1>2. PlayedInv /\ [RecordingNext]_recordingVars => PlayedInv'
  <2>1. SUFFICES ASSUME PlayedInv, [RecordingNext]_recordingVars PROVE PlayedInv'
    BY Zenon
  <2>2. RecordingInv' /\ DeviceInv'
    BY <2>1, RecordingInvStep, DeviceStep, Zenon DEF PlayedInv
  <2>3. ASSUME write_error' = FALSE PROVE CountInv'
    <3>1. write_error = FALSE /\ FileInv /\ ReaderInv /\ DeviceInv /\ CountInv
      BY <2>1, <2>3, ErrorStays, Zenon DEF PlayedInv, RecordingInv
    <3>2. QED
      BY <3>1, <2>1, CountStep, Zenon
  <2>4. QED
    BY <2>2, <2>3, Zenon DEF PlayedInv
<1>3. PlayedInv => AllPlayed
  <2>. SUFFICES ASSUME PlayedInv, phase = "played", NEW d \in Devices
                PROVE  LET mine == {i \in Complete : accepted[i] = d}
                           passes == IF Played(d) THEN loops ELSE 0
                       IN  /\ device[d].points + device[d].discarded = device[d].packets
                           /\ ~stopping /\ ~write_error =>
                                /\ device[d].packets = passes * Cardinality(mine)
                                /\ device[d].discarded = passes * Cardinality(mine \cap late)
    BY Zenon DEF AllPlayed
  <2>. DEFINE mine == {i \in Complete : accepted[i] = d}
              passes == IF Played(d) THEN loops ELSE 0
  <2>1. device[d].points + device[d].discarded = device[d].packets
    <3>1. device[d] \in Frames /\ Told(device[d]) /\ device[d].partial = 0
      BY Zenon DEF PlayedInv, DeviceInv
    <3>2. PICK b \in Nat, k \in Nat : b = device[d].points /\ k = device[d].discarded
      BY <3>1, Zenon DEF Frames
    <3>3. b + 0 + k = b + k
      OBVIOUS
    <3>4. QED
      BY <3>1, <3>2, <3>3, Zenon DEF Told
  <2>2. ASSUME ~stopping, ~write_error
        PROVE  /\ device[d].packets = passes * Cardinality(mine)
               /\ device[d].discarded = passes * Cardinality(mine \cap late)
    <3>1. GotShare(d, loops, 0) /\ FileInv /\ loops \in Nat
      BY <2>2, Zenon DEF PlayedInv, CountInv, RecordingInv, DeviceInv
    <3>2. mine = Complete \cap Of(d) /\ mine \cap late = Complete \cap LateOf(d)
      BY Zenon DEF Of, LateOf, Complete
    <3>3. ASSUME NEW M PROVE Share(d, M, loops, 0) = passes * Cardinality(Complete \cap M)
      <4>1. PICK l \in Nat, t \in Nat : l = loops /\ t = Cardinality(Complete \cap M)
        BY <3>1, CompleteFinite, Zenon
      <4>2. l * t + 0 = l * t /\ 0 * t = 0
        OBVIOUS
      <4>3. QED
        BY <4>1, <4>2, FirstNone, Zenon DEF Share
    <3>4. QED
      BY <3>1, <3>2, <3>3, Zenon DEF GotShare
  <2>3. QED
    BY <2>1, <2>2, Zenon
<1>4. QED
  BY <1>1, <1>2, <1>3, PTL DEF RecordingSpec
==============================================================================
