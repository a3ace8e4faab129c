------------------------ MODULE FrameAssemblerProofs ------------------------
(***************************************************************************)
(* Proofs about FrameAssembler for every width of the counters, every      *)
(* policy and every order of arrival: the statistics (PointsConserved,     *)
(* DropsInv), the header of a frame (FrameTrue), the grid of the windows   *)
(* (GridInv) and the packets discarded as late (OrderInv).                 *)
(***************************************************************************)
EXTENDS FrameAssembler, SequenceTheorems, TLAPS

Packets ==
  [n : Nat, udp : Nat, udp_cnt : Nat, frame : Nat, frame_cnt : Nat, timestamp : Int,
   dot_num : Nat, data_type : DataTypes, time_type : TimeTypes]

Samples ==
  [offset : Int, ts : Int, frame_cnt : Int, data_type : DataTypes,
   time_type : TimeTypes, by_window : BOOLEAN]

FrameOK(f) ==
  /\ DOMAIN f = {"points", "index", "base_time", "end_time", "packets", "dropped",
                 "frame_cnt", "source_type", "time_type"}
  /\ f.points \in Seq(Samples)
  /\ f.base_time \in Int /\ f.end_time \in Int

TimesOK(t) ==
  /\ DOMAIN t = {"offset", "synced"}
  /\ t.offset \in Int \cup {None}

DropsOK(d) ==
  /\ DOMAIN d = {"have", "last"}
  /\ d.last \in Int

CountersOK(c) ==
  /\ DOMAIN c = {"packets", "points", "frames", "dropped", "reordered",
                 "frame_cnt_fallback", "type_switch_gaps"}
  /\ c.packets \in Int /\ c.points \in Int /\ c.frames \in Int
  /\ c.dropped \in Int /\ c.reordered \in Int /\ c.type_switch_gaps \in Int

HistoryOK(x) ==
  /\ DOMAIN x = {"top", "delivered", "origin", "since", "frame",
                 "windowed", "packet", "skipped"}
  /\ x.top \in Int /\ x.delivered \in Int
  /\ x.origin \in Int /\ x.since \in Nat /\ x.frame \in Int

(* The LiDAR and the packets on the network. *)
SenderOK ==
  /\ lidar.n \in Nat /\ lidar.udp \in Nat /\ lidar.frame \in Nat
  /\ now \in Int
  /\ net \subseteq Packets
  /\ \A h \in net : h.udp_cnt = h.udp % UdpMod /\ h.frame_cnt = h.frame % FrameMod

(* The members of the assembler. *)
DataOK ==
  /\ policy \in Policies
  /\ TimesOK(time)
  /\ DropsOK(drops)
  /\ CountersOK(counters)
  /\ FrameOK(cur)
  /\ next_index \in Int
  /\ first_time \in Int \cup {None}
  /\ window_start \in Int
  /\ HistoryOK(hist)

TypeInv == SenderOK /\ DataOK

(* The 16-bit number the DropCounter keeps is that of `top`, which is the newest packet *)
(* as long as none was misread.                                                         *)
TruthFields == {"newest", "lost", "late", "misread"}

DropsInv ==
  /\ DropsCounted
  /\ DOMAIN truth = TruthFields
  /\ drops.have => drops.last = hist.top % UdpMod
  /\ ~truth.misread => truth.newest = (IF drops.have THEN hist.top ELSE None)

(* The header of `f` is true of its points. *)
FrameTrue(f) ==
  /\ \A i \in DOMAIN f.points :
       /\ f.points[i].data_type = f.source_type
       /\ f.points[i].time_type = f.time_type
       /\ (\A j \in DOMAIN f.points : ~f.points[j].by_window)
            => f.points[i].frame_cnt = f.frame_cnt
       /\ f.points[i].offset = (IF f.points[i].ts >= f.base_time
                                  THEN f.points[i].ts - f.base_time ELSE 0)
       /\ f.points[i].ts <= f.end_time
  /\ f.points # <<>> => f.end_time - f.base_time <= MaxOffset

(* A partial frame no point joined by the time window has the frame_cnt of the       *)
(* packet accepted last, so that the next change of frame_cnt closes it.             *)
HeaderInv ==
  /\ FrameTrue(cur)
  /\ Partial /\ (\A j \in DOMAIN cur.points : ~cur.points[j].by_window)
       => prev.have /\ prev.frame_cnt = cur.frame_cnt

(* Without a close by time the window starts at the origin of the grid. *)
GridInv ==
  /\ NoDrift
  /\ Partial /\ hist.since = 0 => window_start = hist.origin

(* Packets of a later number are of no earlier frame; fewer than FrameMod frames are *)
(* on the network; and the newest packet is of the frame of the packet accepted      *)
(* last, unless that one joined its frame by the time window.                        *)
OrderInv ==
  /\ \A g \in net : /\ g.udp < lidar.udp /\ g.frame <= lidar.frame /\ g.n < lidar.n
                    /\ lidar.frame - g.frame < lidar.n - g.n
                    /\ lidar.n - g.n <= FrameMod
  /\ \A g, h \in net : g.udp <= h.udp => g.frame <= h.frame
  /\ drops.have => prev.have
  /\ prev.have => /\ prev.frame_cnt = hist.frame % FrameMod
                  /\ hist.top < lidar.udp /\ hist.frame <= lidar.frame
                  /\ ~hist.windowed =>
                       \A g \in net : g.udp <= hist.top => g.frame <= hist.frame

-----------------------------------------------------------------------------
(* Division with remainder *)

LEMMA DivMod ==
  ASSUME NEW a \in Int, NEW m \in Nat \ {0}
  PROVE  /\ a \div m \in Int /\ a % m \in 0 .. m - 1
         /\ a = m * (a \div m) + (a % m)
BY SMT

LEMMA MulBound ==
  ASSUME NEW m \in Nat \ {0}, NEW k \in Int
  PROVE  /\ m * k \in Int
         /\ k >= 1 => m * k >= m
         /\ k <= -1 => m * k <= -m
BY SMT

LEMMA MulSub ==
  ASSUME NEW m \in Int, NEW j \in Int, NEW k \in Int
  PROVE  m * (j - k) = m * j - m * k /\ m * (j + k) = m * j + m * k
BY SMT

(* The quotient and the remainder are unique. *)
LEMMA DivUnique ==
  ASSUME NEW m \in Nat \ {0}, NEW q \in Int, NEW r \in Int, NEW a \in Int,
         a = m * q + r, 0 <= r, r < m
  PROVE  a % m = r /\ a \div m = q
<1>. DEFINE d == a \div m
            s == a % m
<1>0. /\ a \div m \in Int /\ a % m \in 0 .. m - 1
      /\ a = m * (a \div m) + (a % m)
  BY DivMod, Zenon
<1>1. d \in Int /\ s \in Int /\ a = m * d + s /\ 0 <= s /\ s < m
  BY <1>0
<1>. HIDE DEF d, s
<1>2. m * (q - d) = s - r
  BY <1>1, MulSub
<1>3. q - d = 0
  BY <1>1, <1>2, MulBound
<1>4. q = d /\ r = s
  BY <1>1, <1>3
<1>. QED
  BY <1>4, Zenon DEF d, s

(* Numbers less than a cycle apart are equal when their remainders are. *)
LEMMA SameRemainder ==
  ASSUME NEW m \in Nat \ {0}, NEW a \in Int, NEW b \in Int,
         a % m = b % m, a - b < m, b - a < m
  PROVE  a = b
<1>. DEFINE d == a \div m
            e == b \div m
            r == a % m
<1>1. d \in Int /\ e \in Int /\ r \in Int /\ a = m * d + r /\ b = m * e + r
  BY DivMod
<1>. HIDE DEF d, e, r
<1>2. m * (d - e) = a - b /\ d - e \in Int
  BY <1>1, MulSub
<1>3. d - e = 0
  BY <1>2, MulBound
<1>. QED
  BY <1>1, <1>3

(* The gap the DropCounter computes from two 16-bit numbers is the one between the  *)
(* unbounded numbers, up to a cycle.                                                *)
LEMMA GapMod ==
  ASSUME NEW m \in Nat \ {0}, NEW a \in Int, NEW b \in Int
  PROVE  ((a % m) - ((b % m) + 1)) % m = (a - b - 1) % m
<1>. DEFINE d == a \div m
            e == b \div m
            r == a % m
            s == b % m
            x == r - (s + 1)
<1>1. d \in Int /\ e \in Int /\ r \in Int /\ s \in Int
      /\ a = m * d + r /\ b = m * e + s
  BY DivMod
<1>. HIDE DEF d, e, r, s
<1>2. x \in Int /\ x \div m \in Int /\ x % m \in Int
      /\ x = m * (x \div m) + (x % m) /\ 0 <= x % m /\ x % m < m
  BY <1>1, DivMod
<1>. DEFINE q == x \div m
            t == x % m
<1>3. m * (d - e + q) = m * (d - e) + m * q /\ m * (d - e) = m * d - m * e
      /\ q \in Int /\ t \in Int
  BY <1>1, <1>2, MulSub
<1>4. x = m * q + t
  BY <1>2, Zenon
<1>. HIDE DEF q, t
<1>5. a - b - 1 = m * (d - e + q) + t
  BY <1>1, <1>3, <1>4
<1>6. 0 <= t /\ t < m
  BY <1>2, Zenon DEF t
<1>. HIDE DEF x
<1>. DEFINE p == d - e + q
            y == a - b - 1
<1>7. p \in Int /\ y \in Int /\ y = m * p + t
  BY <1>1, <1>3, <1>5
<1>. HIDE DEF p, y
<1>8. y % m = t
  BY <1>3, <1>6, <1>7, DivUnique, Zenon
<1>. QED
  BY <1>8, Zenon DEF x, r, s, t, y

-----------------------------------------------------------------------------
(* Types *)

LEMMA Assumed ==
  /\ UdpMod \in Nat \ {0} /\ FrameMod \in Nat \ {0} /\ UdpMod > 1
  /\ DotNums \subseteq Nat /\ Steps \subseteq Nat /\ Skews \subseteq Int
  /\ UdpStart \in Nat /\ InFlight \in Nat /\ Start \in Int
  /\ Span \in Nat /\ MaxOffset \in Nat /\ Span <= MaxOffset
  /\ \A p \in Policies : p.window \in Nat \ {0}
BY FrameAssemblerAssumption, SMT

(* DropCounter::observe *)
LEMMA ObserveType ==
  ASSUME TypeInv, NEW h \in net
  PROVE  LET o == Observe(h.udp_cnt, FrameChanged(h))
         IN /\ o.dropped \in Int
            /\ DropsOK(o.drops)
            /\ ~o.reordered => o.drops.have /\ o.drops.last = h.udp_cnt
            /\ o.reordered => o.drops = drops
<1>. DEFINE c == h.udp_cnt
            x == c - (drops.last + 1)
            gap == x % UdpMod
            seq == ~drops.have \/ gap = 0 \/ (c = 0 /\ FrameChanged(h))
            late == ~seq /\ gap > UdpMod \div 2
            new == [have |-> TRUE, last |-> c]
<1>1. c \in Int /\ drops.last \in Int
  BY DEF TypeInv, SenderOK, DataOK, Packets, DropsOK
<1>2. gap \in Int
  <2>1. x \in Int
    BY <1>1
  <2>. HIDE DEF x
  <2>. QED
    BY <2>1, Assumed, DivMod
<1>3. DropsOK(drops)
  BY Zenon DEF TypeInv, DataOK
<1>4. DropsOK(new) /\ new.have /\ new.last = c
  BY <1>1, Zenon DEF DropsOK
<1>. HIDE DEF gap, c, new, late, seq
<1>6. /\ Observe(c, FrameChanged(h)).dropped = IF seq \/ late THEN 0 ELSE gap
      /\ Observe(c, FrameChanged(h)).reordered = late
      /\ Observe(c, FrameChanged(h)).drops = IF late THEN drops ELSE new
  BY Zenon DEF Observe, late, seq, gap, new, x
<1>7. Observe(c, FrameChanged(h)).dropped \in Int
  BY <1>2, <1>6
<1>. QED
  BY <1>3, <1>4, <1>6, <1>7, Zenon DEF c

(* TimeMapper::map *)
LEMMA MapType ==
  ASSUME TypeInv, NEW h \in net
  PROVE  T0(h) \in Int /\ TimesOK(Map(h, now).time)
<1>. DEFINE offset == IF time.offset = None \/ time.synced THEN now - h.timestamp
                      ELSE time.offset
<1>1. h.timestamp \in Int /\ now \in Int /\ TimesOK(time)
  BY Zenon DEF TypeInv, SenderOK, DataOK, Packets
<1>2. offset \in Int
  BY <1>1 DEF TimesOK
<1>. HIDE DEF offset
<1>3. /\ TimesOK([time EXCEPT !.synced = TRUE])
      /\ TimesOK([offset |-> offset, synced |-> FALSE])
      /\ h.timestamp + offset \in Int
  BY <1>1, <1>2 DEF TimesOK
<1>4. CASE TimestampPolicy = "kLidar"
  BY <1>1, <1>4, Zenon DEF T0, Map
<1>5. CASE TimestampPolicy = "kHostReceive"
  BY <1>1, <1>5, Zenon DEF T0, Map
<1>6. CASE TimestampPolicy \notin {"kLidar", "kHostReceive"}
  <2>1. Map(h, now) = IF h.time_type # "kNoSync"
                        THEN [t0 |-> h.timestamp, time |-> [time EXCEPT !.synced = TRUE]]
                        ELSE [t0 |-> h.timestamp + offset,
                              time |-> [offset |-> offset, synced |-> FALSE]]
    BY <1>6, Zenon DEF Map, offset
  <2>2. CASE h.time_type = "kNoSync"
    <3>1. Map(h, now) = [t0 |-> h.timestamp + offset,
                         time |-> [offset |-> offset, synced |-> FALSE]]
      BY <2>1, <2>2, Zenon
    <3>2. Map(h, now).t0 = h.timestamp + offset
          /\ Map(h, now).time = [offset |-> offset, synced |-> FALSE]
      BY <3>1
    <3>. QED
      BY <1>3, <3>2, Zenon DEF T0
  <2>3. CASE h.time_type # "kNoSync"
    <3>1. Map(h, now) = [t0 |-> h.timestamp, time |-> [time EXCEPT !.synced = TRUE]]
      BY <2>1, <2>3, Zenon
    <3>2. Map(h, now).t0 = h.timestamp
          /\ Map(h, now).time = [time EXCEPT !.synced = TRUE]
      BY <3>1
    <3>. QED
      BY <1>1, <1>3, <3>2, Zenon DEF T0
  <2>. QED
    BY <2>2, <2>3, Zenon
<1>. QED
  BY <1>4, <1>5, <1>6, Zenon

LEMMA QuietType ==
  ASSUME TypeInv
  PROVE  /\ HistoryOK(Quiet)
         /\ Quiet.packet = None /\ Quiet.skipped = FALSE
         /\ Quiet.top = hist.top
         /\ Quiet.delivered = hist.delivered /\ Quiet.origin = hist.origin
         /\ Quiet.since = hist.since /\ Quiet.frame = hist.frame
         /\ Quiet.windowed = hist.windowed
BY Zenon DEF TypeInv, DataOK, HistoryOK, Quiet

LEMMA WitnessedType ==
  ASSUME TypeInv, NEW h \in net
  PROVE  LET w == Witnessed(h)
         IN /\ HistoryOK(w)
            /\ w.packet = h /\ w.skipped = FALSE
            /\ w.top = IF Behind(h) THEN hist.top ELSE h.udp
            /\ w.delivered = hist.delivered /\ w.origin = hist.origin
            /\ w.since = hist.since /\ w.frame = hist.frame
            /\ w.windowed = hist.windowed
<1>. DEFINE top == IF Behind(h) THEN hist.top ELSE h.udp
            w == Witnessed(h)
<1>1. h.udp \in Int /\ HistoryOK(hist)
  BY DEF TypeInv, SenderOK, DataOK, Packets
<1>2. top \in Int
  BY <1>1 DEF HistoryOK
<1>3. w = [hist EXCEPT !.top = top, !.packet = h, !.skipped = FALSE]
  BY Zenon DEF Witnessed
<1>. HIDE DEF top, w
<1>4. /\ w.packet = h /\ w.skipped = FALSE
      /\ w.top = top
      /\ w.delivered = hist.delivered /\ w.origin = hist.origin
      /\ w.since = hist.since /\ w.frame = hist.frame
      /\ w.windowed = hist.windowed /\ DOMAIN w = DOMAIN hist
  BY <1>1, <1>3, Zenon DEF HistoryOK
<1>5. HistoryOK(w)
  BY <1>1, <1>2, <1>4, Zenon DEF HistoryOK
<1>. QED
  BY <1>4, <1>5, Zenon DEF top, w

LEMMA CountedType ==
  ASSUME TypeInv, NEW h \in net
  PROVE  LET c == Counted(h)
             o == Observe(h.udp_cnt, FrameChanged(h))
         IN /\ Dropped(h) \in Int
            /\ CountersOK(c)
            /\ c.packets = counters.packets /\ c.points = counters.points
            /\ c.frames = counters.frames
            /\ c.dropped + c.type_switch_gaps
                 = counters.dropped + counters.type_switch_gaps + o.dropped
            /\ c.reordered = counters.reordered + (IF o.reordered THEN 1 ELSE 0)
<1>. DEFINE c == Counted(h)
            o == Observe(h.udp_cnt, FrameChanged(h))
            switch == IF TypeSwitch(h) THEN 1 ELSE 0
            late == IF o.reordered THEN 1 ELSE 0
            lost == Dropped(h)
<1>1. CountersOK(counters)
  BY Zenon DEF TypeInv, DataOK
<1>2. o.dropped \in Int
  BY ObserveType, Zenon
<1>3. lost \in Int /\ switch \in Int /\ lost + switch = o.dropped
  BY <1>2 DEF Dropped, TypeSwitch
<1>4. late \in Int
  OBVIOUS
<1>5. c = [counters EXCEPT !.type_switch_gaps = @ + switch, !.dropped = @ + lost,
                           !.reordered = @ + late]
  BY Zenon DEF Counted
<1>. HIDE DEF c, o, switch, late, lost
<1>6. /\ c.packets = counters.packets /\ c.points = counters.points
      /\ c.frames = counters.frames
      /\ c.dropped = counters.dropped + lost
      /\ c.type_switch_gaps = counters.type_switch_gaps + switch
      /\ c.reordered = counters.reordered + late
      /\ DOMAIN c = DOMAIN counters
  BY <1>1, <1>5, Zenon DEF CountersOK
<1>7. CountersOK(c)
  BY <1>1, <1>3, <1>4, <1>6 DEF CountersOK
<1>8. c.dropped + c.type_switch_gaps
        = counters.dropped + counters.type_switch_gaps + o.dropped
  BY <1>1, <1>3, <1>6 DEF CountersOK
<1>. QED
  BY <1>3, <1>6, <1>7, <1>8, Zenon DEF o, late, lost, c

-----------------------------------------------------------------------------
(* append() *)

(* The interpolation between the first and the last sample stays between them. *)
LEMMA DivBound ==
  ASSUME NEW s \in Nat, NEW m \in Nat \ {0}, NEW k \in 0 .. m
  PROVE  /\ (s * k) \div m \in 0 .. s
         /\ (s * m) \div m = s
<1>. DEFINE a == s * k
            q == a \div m
            r == a % m
<1>1. a \in Int /\ 0 <= a /\ a <= m * s
  BY SMT
<1>. HIDE DEF a
<1>2. q \in Int /\ r \in Int /\ 0 <= r /\ r < m /\ a = m * q + r
  BY <1>1, DivMod
<1>. HIDE DEF q, r
<1>3. q >= 0
  BY <1>1, <1>2, MulBound
<1>4. q <= s
  <2>1. m * (q - s) = m * q - m * s /\ q - s \in Int /\ m * q \in Int /\ m * s \in Int
    BY <1>2, MulSub, MulBound
  <2>2. m * (q - s) < m
    BY <1>1, <1>2, <2>1
  <2>3. ~(q - s >= 1)
    BY <2>1, <2>2, MulBound
  <2>. QED
    BY <1>2, <2>3
<1>5. (s * m) \div m = s
  <2>. DEFINE b == s * m
  <2>1. b \in Int /\ b = m * s + 0
    BY SMT
  <2>. HIDE DEF b
  <2>2. b \div m = s
    BY <2>1, DivUnique
  <2>. QED
    BY <2>2, Zenon DEF b
<1>. QED
  BY <1>2, <1>3, <1>4, <1>5 DEF q, a

LEMMA SampleBound ==
  ASSUME NEW h \in Packets, NEW t0 \in Int, NEW i \in 1 .. h.dot_num
  PROVE  /\ Sample(h, t0, i) \in Int
         /\ t0 <= Sample(h, t0, i)
         /\ Sample(h, t0, i) <= Sample(h, t0, h.dot_num)
         /\ Sample(h, t0, h.dot_num) \in Int
         /\ t0 <= Sample(h, t0, h.dot_num)
         /\ Sample(h, t0, h.dot_num) <= t0 + Span
<1>. DEFINE n == h.dot_num
<1>1. n \in Nat /\ Span \in Nat /\ i \in 1 .. n /\ n >= 1
  BY Assumed DEF Packets
<1>2. CASE n <= 1
  BY <1>1, <1>2 DEF Sample
<1>3. CASE n > 1
  <2>. DEFINE m == n - 1
  <2>. DEFINE k == i - 1
  <2>1. m \in Nat \ {0} /\ k \in 0 .. m
    BY <1>1, <1>3
  <2>2. (Span * k) \div m \in 0 .. Span /\ (Span * m) \div m = Span
    <3>. HIDE DEF m, k
    <3>. QED
      BY <1>1, <2>1, DivBound, Zenon
  <2>. DEFINE q == (Span * k) \div m
  <2>3. Sample(h, t0, i) = t0 + (IF i = 1 THEN 0 ELSE q)
    BY <1>1, <1>3 DEF Sample
  <2>4. Sample(h, t0, h.dot_num) = t0 + Span
    BY <1>1, <1>3, <2>2 DEF Sample
  <2>5. q \in Int /\ 0 <= q /\ q <= Span
    BY <1>1, <2>2
  <2>. HIDE DEF q
  <2>. QED
    BY <1>1, <2>3, <2>4, <2>5
<1>. QED
  BY <1>1, <1>2, <1>3

(* s are the points of the packet, for a frame of base time `base`. *)
Sampled(s, base, h, t0, w) ==
  /\ s \in Seq(Samples)
  /\ Len(s) = h.dot_num
  /\ \A i \in 1 .. h.dot_num :
       /\ s[i].ts = Sample(h, t0, i)
       /\ s[i].offset = Offset(base, Sample(h, t0, i))
       /\ s[i].frame_cnt = h.frame_cnt
       /\ s[i].data_type = h.data_type
       /\ s[i].time_type = h.time_type
       /\ s[i].by_window = w

LEMMA SamplePointsType ==
  ASSUME NEW base \in Int, NEW h \in Packets, NEW t0 \in Int, NEW w \in BOOLEAN
  PROVE  Sampled(SamplePoints(base, h, t0, w), base, h, t0, w)
<1>. DEFINE n == h.dot_num
            p(i) == [offset |-> Offset(base, Sample(h, t0, i)), ts |-> Sample(h, t0, i),
                     frame_cnt |-> h.frame_cnt, data_type |-> h.data_type,
                     time_type |-> h.time_type, by_window |-> w]
            s == SamplePoints(base, h, t0, w)
<1>1. n \in Nat /\ h.frame_cnt \in Int /\ h.data_type \in DataTypes
      /\ h.time_type \in TimeTypes
  BY DEF Packets
<1>2. \A i \in 1 .. n : p(i) \in Samples
  <2>. SUFFICES ASSUME NEW i \in 1 .. n PROVE p(i) \in Samples
    BY Zenon
  <2>. DEFINE t == Sample(h, t0, i)
              o == Offset(base, t)
  <2>1. t \in Int
    BY SampleBound, Zenon
  <2>. HIDE DEF t
  <2>2. o \in Int
    BY <2>1, Assumed DEF Offset
  <2>. HIDE DEF o
  <2>3. [offset |-> o, ts |-> t, frame_cnt |-> h.frame_cnt, data_type |-> h.data_type,
         time_type |-> h.time_type, by_window |-> w] \in Samples
    BY <1>1, <2>1, <2>2, Zenon DEF Samples
  <2>. QED
    BY <2>3, Zenon DEF o, t
<1>3. s = [i \in 1 .. n |-> p(i)]
  BY Zenon DEF SamplePoints
<1>. HIDE DEF p, s
<1>4. s \in [1 .. n -> Samples] /\ \A i \in 1 .. n : s[i] = p(i)
  BY <1>2, <1>3, Zenon
<1>. HIDE DEF n
<1>5. s \in Seq(Samples) /\ Len(s) = n
  BY <1>1, <1>4
<1>6. \A i \in 1 .. n :
        /\ p(i).ts = Sample(h, t0, i)
        /\ p(i).offset = Offset(base, Sample(h, t0, i))
        /\ p(i).frame_cnt = h.frame_cnt
        /\ p(i).data_type = h.data_type
        /\ p(i).time_type = h.time_type
        /\ p(i).by_window = w
  BY Zenon DEF p
<1>. QED
  BY <1>4, <1>5, <1>6, Zenon DEF Sampled, s, n

(* The frame a packet has joined. *)
(* g is f with the points of the packet. *)
Joined(h, t0, w, f, g) ==
  /\ g.points = f.points \o SamplePoints(f.base_time, h, t0, w)
  /\ g.base_time = f.base_time
  /\ g.end_time = IF Sample(h, t0, h.dot_num) > f.end_time
                    THEN Sample(h, t0, h.dot_num) ELSE f.end_time
  /\ g.frame_cnt = f.frame_cnt
  /\ g.source_type = f.source_type
  /\ g.time_type = f.time_type

LEMMA AppendedType ==
  ASSUME TypeInv, NEW h \in net, NEW f, FrameOK(f), NEW t0 \in Int, NEW w \in BOOLEAN
  PROVE  LET g == Appended(f, h, t0, w)
         IN /\ FrameOK(g)
            /\ Joined(h, t0, w, f, g)
            /\ Len(g.points) = Len(f.points) + h.dot_num
<1>. DEFINE g == Appended(f, h, t0, w)
            s == SamplePoints(f.base_time, h, t0, w)
            l == Sample(h, t0, h.dot_num)
<1>1. h \in Packets /\ h.dot_num \in Nat
  BY Zenon DEF TypeInv, SenderOK, Packets
<1>2. f.base_time \in Int /\ f.end_time \in Int /\ f.points \in Seq(Samples)
  BY Zenon DEF FrameOK
<1>3. l \in Int
  <2>1. CASE h.dot_num >= 1
    BY <1>1, <2>1, SampleBound
  <2>2. CASE h.dot_num = 0
    BY <1>1, <2>2 DEF Sample
  <2>. QED
    BY <1>1, <2>1, <2>2
<1>4. s \in Seq(Samples) /\ Len(s) = h.dot_num
  <2>1. Sampled(s, f.base_time, h, t0, w)
    BY <1>1, <1>2, SamplePointsType, Zenon
  <2>. QED
    BY <2>1, Zenon DEF Sampled
<1>5. g = [f EXCEPT !.points = @ \o s, !.end_time = IF l > @ THEN l ELSE @,
                    !.dropped = @ + Dropped(h), !.packets = @ + 1]
  BY Zenon DEF Appended
<1>. HIDE DEF g, s, l
<1>6. /\ g.points = f.points \o s
      /\ g.end_time = (IF l > f.end_time THEN l ELSE f.end_time)
      /\ g.base_time = f.base_time
      /\ g.frame_cnt = f.frame_cnt
      /\ g.source_type = f.source_type
      /\ g.time_type = f.time_type
      /\ DOMAIN g = DOMAIN f
  BY <1>5, Zenon DEF FrameOK
<1>7. f.points \o s \in Seq(Samples) /\ Len(f.points \o s) = Len(f.points) + Len(s)
  BY <1>2, <1>4, ConcatProperties, Zenon
<1>8. g.end_time \in Int
  BY <1>2, <1>3, <1>6, Zenon
<1>9. FrameOK(g)
  BY <1>2, <1>6, <1>7, <1>8, Zenon DEF FrameOK
<1>10. Joined(h, t0, w, f, g)
  BY <1>6, Zenon DEF Joined, s, l
<1>. QED
  BY <1>4, <1>6, <1>7, <1>9, <1>10, Zenon DEF g

LEMMA NewFrameType ==
  ASSUME TypeInv, NEW h, NEW t0 \in Int
  PROVE  LET f == NewFrame(h, t0)
         IN /\ FrameOK(f)
            /\ f.points = <<>>
            /\ f.base_time = t0 /\ f.end_time = t0
            /\ f.frame_cnt = h.frame_cnt
            /\ f.source_type = h.data_type
            /\ f.time_type = h.time_type
<1>. DEFINE f == NewFrame(h, t0)
<1>1. /\ DOMAIN EmptyFrame = {"points", "index", "base_time", "end_time", "packets",
                              "dropped", "frame_cnt", "source_type", "time_type"}
      /\ EmptyFrame.points = <<>>
  BY Zenon DEF EmptyFrame
<1>2. f = [EmptyFrame EXCEPT !.base_time = t0, !.end_time = t0, !.frame_cnt = h.frame_cnt,
                             !.source_type = h.data_type, !.time_type = h.time_type]
  BY Zenon DEF NewFrame
<1>. HIDE DEF f
<1>3. /\ f.points = <<>>
      /\ f.base_time = t0 /\ f.end_time = t0
      /\ f.frame_cnt = h.frame_cnt
      /\ f.source_type = h.data_type
      /\ f.time_type = h.time_type
      /\ DOMAIN f = DOMAIN EmptyFrame
  BY <1>1, <1>2, Zenon
<1>4. <<>> \in Seq(Samples)
  OBVIOUS
<1>5. FrameOK(f)
  BY <1>1, <1>3, <1>4, Zenon DEF FrameOK
<1>. QED
  BY <1>3, <1>5, Zenon DEF f

LEMMA EmptyFrameOK == FrameOK(EmptyFrame) /\ EmptyFrame.points = <<>>
BY DEF FrameOK, EmptyFrame

(* The frame the packet joins. *)
Base(h) == IF Fresh(h) THEN NewFrame(h, T0(h)) ELSE cur

LEMMA BaseType ==
  ASSUME TypeInv, NEW h \in net
  PROVE  FrameOK(Base(h))
<1>1. FrameOK(cur)
  BY Zenon DEF TypeInv, DataOK
<1>2. FrameOK(NewFrame(h, T0(h)))
  BY MapType, NewFrameType, Zenon
<1>. QED
  BY <1>1, <1>2, Zenon DEF Base

LEMMA ByWindowType ==
  ASSUME NEW h
  PROVE  ByWindow(h) \in BOOLEAN
BY Zenon DEF ByWindow, time_window_active, FallsBack, Watching

(* What push() does with a packet it accepts. *)
LEMMA Accepted ==
  ASSUME TypeInv, NEW h \in net, PushAccept(h)
  PROVE  /\ FrameOK(cur')
         /\ Joined(h, T0(h), ByWindow(h), Base(h), cur')
         /\ Len(cur'.points) = Len(Base(h).points) + h.dot_num
<1>1. cur' = Appended(Base(h), h, T0(h), ByWindow(h))
  BY Zenon DEF PushAccept, Base
<1>2. T0(h) \in Int /\ ByWindow(h) \in BOOLEAN /\ FrameOK(Base(h))
  BY MapType, ByWindowType, BaseType, Zenon
<1>. QED
  BY <1>1, <1>2, AppendedType, Zenon

LEMMA AcceptedCounts ==
  ASSUME TypeInv, NEW h \in net, PushAccept(h)
  PROVE  /\ CountersOK(counters')
         /\ counters'.packets = counters.packets + 1
         /\ counters'.points = counters.points + h.dot_num
         /\ counters'.frames = counters.frames + (IF Closes(h) THEN 1 ELSE 0)
         /\ counters'.dropped = Counted(h).dropped
         /\ counters'.type_switch_gaps = Counted(h).type_switch_gaps
         /\ counters'.reordered = Counted(h).reordered
<1>. DEFINE c == Counted(h)
            fr == IF Closes(h) THEN 1 ELSE 0
            fb == IF FallsBack(h) THEN 1 ELSE 0
<1>1. CountersOK(c) /\ c.packets = counters.packets /\ c.points = counters.points
      /\ c.frames = counters.frames
  BY CountedType, Zenon
<1>2. h.dot_num \in Int /\ fr \in Int
  BY DEF TypeInv, SenderOK, Packets
<1>3. counters' = [c EXCEPT !.frames = @ + fr, !.packets = @ + 1,
                            !.points = @ + h.dot_num, !.frame_cnt_fallback = @ + fb]
  BY Zenon DEF PushAccept
<1>. HIDE DEF c, fr, fb
<1>4. /\ counters'.packets = c.packets + 1
      /\ counters'.points = c.points + h.dot_num
      /\ counters'.frames = c.frames + fr
      /\ counters'.dropped = c.dropped
      /\ counters'.type_switch_gaps = c.type_switch_gaps
      /\ counters'.reordered = c.reordered
      /\ DOMAIN counters' = DOMAIN c
  BY <1>1, <1>3, Zenon DEF CountersOK
<1>5. CountersOK(counters')
  BY <1>1, <1>2, <1>4 DEF CountersOK
<1>. QED
  BY <1>1, <1>4, <1>5, Zenon DEF c, fr

LEMMA AcceptedHistory ==
  ASSUME TypeInv, NEW h \in net, PushAccept(h)
  PROVE  /\ HistoryOK(hist')
         /\ hist'.top = Witnessed(h).top
         /\ hist'.skipped = FALSE
         /\ hist'.delivered = hist.delivered + (IF Closes(h) THEN Len(cur.points) ELSE 0)
         /\ hist'.origin = IF Fresh(h) /\ ~OnGrid(h) THEN T0(h) ELSE hist.origin
         /\ hist'.since = IF OnGrid(h) THEN hist.since + 1
                          ELSE IF Fresh(h) THEN 0 ELSE hist.since
         /\ hist'.frame = h.frame
         /\ hist'.windowed = (ByWindow(h) \/ (hist.windowed /\ h.udp <= hist.top))
<1>. DEFINE w == Witnessed(h)
            d == IF Closes(h) THEN Len(cur.points) ELSE 0
            origin == IF Fresh(h) /\ ~OnGrid(h) THEN T0(h) ELSE hist.origin
            since == IF OnGrid(h) THEN hist.since + 1
                     ELSE IF Fresh(h) THEN 0 ELSE hist.since
            win == ByWindow(h) \/ (hist.windowed /\ h.udp <= hist.top)
<1>1. HistoryOK(w) /\ w.delivered = hist.delivered /\ w.origin = hist.origin
      /\ w.since = hist.since /\ w.windowed = hist.windowed /\ w.skipped = FALSE
  BY WitnessedType, Zenon
<1>2. hist.origin \in Int /\ hist.since \in Nat /\ hist.delivered \in Int
      /\ cur.points \in Seq(Samples) /\ h.frame \in Int
  BY DEF TypeInv, SenderOK, DataOK, HistoryOK, FrameOK, Packets
<1>3. Len(cur.points) \in Nat /\ T0(h) \in Int
  BY <1>2, MapType, LenProperties, Zenon
<1>4. d \in Int /\ origin \in Int /\ since \in Nat
  BY <1>2, <1>3
<1>5. hist' = [w EXCEPT !.delivered = @ + d, !.origin = origin, !.since = since,
                        !.frame = h.frame, !.windowed = win]
  <2>1. hist' = [w EXCEPT
                   !.delivered = @ + d,
                   !.origin = IF Fresh(h) /\ ~OnGrid(h) THEN T0(h) ELSE @,
                   !.since = IF OnGrid(h) THEN @ + 1 ELSE IF Fresh(h) THEN 0 ELSE @,
                   !.frame = h.frame,
                   !.windowed = ByWindow(h) \/ (@ /\ h.udp <= hist.top)]
    BY Zenon DEF PushAccept
  <2>. HIDE DEF w, d
  <2>. QED
    BY <1>1, <2>1, Zenon
<1>. HIDE DEF w, d, origin, since, win
<1>6. /\ hist'.top = w.top
      /\ hist'.skipped = w.skipped
      /\ hist'.delivered = w.delivered + d
      /\ hist'.origin = origin /\ hist'.since = since
      /\ hist'.frame = h.frame
      /\ hist'.windowed = win
      /\ DOMAIN hist' = DOMAIN w
  BY <1>1, <1>5, Zenon DEF HistoryOK
<1>7. HistoryOK(hist')
  BY <1>1, <1>2, <1>4, <1>6 DEF HistoryOK
<1>. QED
  BY <1>1, <1>6, <1>7, Zenon DEF w, d, origin, since, win

-----------------------------------------------------------------------------
(* The steps *)

Rest == UNCHANGED <<lidar, now, net>>

Late_(h) == WithinHalfCycle(h) /\ PushLate(h) /\ Rest
Accept_(h) == WithinHalfCycle(h) /\ PushAccept(h) /\ Rest
Nothing == UNCHANGED state /\ out' = <<>> /\ hist' = Quiet /\ truth' = truth /\ Rest

(* An IMU packet is never late and never accepted. *)
LEMMA Cases ==
  ASSUME [Next]_vars
  PROVE  \/ Send
         \/ \E h \in net : Late_(h)
         \/ \E h \in net : Accept_(h)
         \/ Flush /\ Rest
         \/ Discard /\ Rest
         \/ Rebase /\ Rest
         \/ SetPolicy /\ Rest
         \/ Nothing
         \/ UNCHANGED vars
<1>1. NoPoints(ImuPacket)
  BY Zenon DEF NoPoints, ImuPacket
<1>2. CASE Arrive
  <2>1. PICK h \in net \cup {ImuPacket} :
          WithinHalfCycle(h) /\ (PushEmpty(h) \/ PushLate(h) \/ PushAccept(h))
    BY <1>2, Zenon DEF Arrive
  <2>2. Rest
    BY <1>2, Zenon DEF Arrive, Rest
  <2>3. CASE PushEmpty(h)
    BY <2>2, <2>3, Zenon DEF PushEmpty, Nothing
  <2>4. CASE PushLate(h)
    BY <1>1, <2>1, <2>2, <2>4, Zenon DEF PushLate, Late_
  <2>5. CASE PushAccept(h)
    BY <1>1, <2>1, <2>2, <2>5, Zenon DEF PushAccept, Accept_
  <2>. QED
    BY <2>1, <2>3, <2>4, <2>5, Zenon
<1>3. CASE Call
  BY <1>3, Zenon DEF Call, Rest
<1>. QED
  BY <1>2, <1>3, Zenon DEF Next

(* The packet sent has the next number, a later udp_cnt unless it restarts, and is   *)
(* of the current frame or of the next one.                                          *)
LEMMA SendFacts ==
  ASSUME TypeInv, Send
  PROVE  \E p \in Packets :
           /\ net' = {h \in net : h.n > lidar.n - InFlight} \cup {p}
           /\ p.udp_cnt = p.udp % UdpMod /\ p.frame_cnt = p.frame % FrameMod
           /\ p.n = lidar.n
           /\ PerFrameReset \/ p.udp >= lidar.udp
           /\ p.frame \in lidar.frame .. lidar.frame + 1
           /\ lidar.n = 0 => p.frame = lidar.frame
           /\ lidar'.n = lidar.n + 1
           /\ lidar'.udp = p.udp + 1
           /\ lidar'.frame = p.frame
           /\ now' \in Int
<1>1. PICK step \in Steps, new \in FrameEnds, d \in DataTypes, t \in TimeTypes,
           k \in Skews, dots \in DotNums :
       /\ t = lidar.time_type => k = lidar.skew \/ t # "kNoSync"
       /\ now' = now + step
       /\ net' = {h \in net : h.n > lidar.n - InFlight}
                   \cup {Sent(new, d, t, now + step + k, dots)}
       /\ lidar' = [n |-> lidar.n + 1, udp |-> SentUdp(new, d) + 1,
                    frame |-> SentFrame(new), skew |-> k, data_type |-> d,
                    time_type |-> t]
  BY Zenon DEF Send
<1>. DEFINE frame == SentFrame(new)
            udp == SentUdp(new, d)
            p == Sent(new, d, t, now + step + k, dots)
<1>2. lidar.n \in Nat /\ lidar.udp \in Nat /\ lidar.frame \in Nat /\ now \in Int
      /\ step \in Int /\ k \in Int /\ dots \in Nat
  BY Assumed DEF TypeInv, SenderOK
<1>3. udp \in Nat /\ (PerFrameReset \/ udp >= lidar.udp)
  BY <1>2 DEF SentUdp
<1>4. /\ frame \in Nat /\ frame \in lidar.frame .. lidar.frame + 1
      /\ lidar.n = 0 => frame = lidar.frame
  BY <1>2 DEF SentFrame, Begins
<1>5. now + step + k \in Int /\ now + step \in Int
  BY <1>2
<1>6. p = [n |-> lidar.n, udp |-> udp, udp_cnt |-> udp % UdpMod,
           frame |-> frame, frame_cnt |-> frame % FrameMod,
           timestamp |-> now + step + k, dot_num |-> dots, data_type |-> d,
           time_type |-> t]
  BY Zenon DEF Sent
<1>. HIDE DEF udp, frame, p
<1>7. udp % UdpMod \in Nat /\ frame % FrameMod \in Nat
  BY <1>3, <1>4, Assumed, DivMod
<1>8. p \in Packets
  BY <1>2, <1>3, <1>4, <1>5, <1>6, <1>7, Zenon DEF Packets
<1>9. p.udp_cnt = p.udp % UdpMod /\ p.frame_cnt = p.frame % FrameMod
      /\ p.n = lidar.n /\ p.udp = udp /\ p.frame = frame
  BY <1>6, Zenon
<1>10. lidar'.n = lidar.n + 1 /\ lidar'.udp = udp + 1 /\ lidar'.frame = frame
  BY <1>1, Zenon DEF udp, frame
<1>11. net' = {h \in net : h.n > lidar.n - InFlight} \cup {p}
  BY <1>1, Zenon DEF p
<1>12. now' \in Int
  BY <1>1, <1>5, Zenon
<1>. QED
  BY <1>3, <1>4, <1>8, <1>9, <1>10, <1>11, <1>12, Zenon

LEMMA SendType ==
  ASSUME TypeInv, Send
  PROVE  TypeInv'
<1>1. PICK p \in Packets :
        /\ net' = {h \in net : h.n > lidar.n - InFlight} \cup {p}
        /\ p.udp_cnt = p.udp % UdpMod /\ p.frame_cnt = p.frame % FrameMod
        /\ lidar'.n = lidar.n + 1
        /\ lidar'.udp = p.udp + 1
        /\ lidar'.frame = p.frame
        /\ now' \in Int
  BY SendFacts, Zenon
<1>2. SenderOK /\ DataOK
  BY Zenon DEF TypeInv
<1>3. lidar'.n \in Nat /\ lidar'.udp \in Nat /\ lidar'.frame \in Nat
  BY <1>1, <1>2 DEF SenderOK, Packets
<1>4. net' \subseteq Packets
  BY <1>1, <1>2, Zenon DEF SenderOK
<1>5. \A h \in net' : h.udp_cnt = h.udp % UdpMod /\ h.frame_cnt = h.frame % FrameMod
  BY <1>1, <1>2, Zenon DEF SenderOK
<1>6. SenderOK'
  BY <1>1, <1>3, <1>4, <1>5, Zenon DEF SenderOK
<1>7. UNCHANGED state /\ hist' = Quiet
  BY Zenon DEF Send
<1>8. HistoryOK(hist')
  BY <1>7, QuietType, Zenon
<1>9. DataOK'
  BY <1>2, <1>7, <1>8, Zenon DEF DataOK, state
<1>. QED
  BY <1>6, <1>9, Zenon DEF TypeInv

LEMMA FlushFacts ==
  ASSUME TypeInv, Flush
  PROVE  /\ CountersOK(counters')
         /\ counters'.packets = counters.packets
         /\ counters'.points = counters.points
         /\ counters'.frames = counters.frames + (IF Partial THEN 1 ELSE 0)
         /\ counters'.dropped = counters.dropped
         /\ counters'.type_switch_gaps = counters.type_switch_gaps
         /\ counters'.reordered = counters.reordered
         /\ HistoryOK(hist')
         /\ hist'.delivered = hist.delivered + Len(cur.points)
         /\ hist'.top = hist.top
         /\ hist'.origin = hist.origin /\ hist'.since = hist.since
         /\ hist'.frame = hist.frame /\ hist'.windowed = hist.windowed
         /\ hist'.skipped = FALSE
<1>. DEFINE fr == IF Partial THEN 1 ELSE 0
            q == Quiet
            l == Len(cur.points)
<1>1. CountersOK(counters) /\ fr \in Int /\ cur.points \in Seq(Samples)
  BY DEF TypeInv, DataOK, FrameOK
<1>2. l \in Int
  BY <1>1, LenProperties
<1>3. HistoryOK(q) /\ q.skipped = FALSE
      /\ q.top = hist.top
      /\ q.delivered = hist.delivered /\ q.origin = hist.origin
      /\ q.since = hist.since /\ q.frame = hist.frame
      /\ q.windowed = hist.windowed
  BY QuietType, Zenon
<1>4. /\ counters' = [counters EXCEPT !.frames = @ + fr]
      /\ hist' = [q EXCEPT !.delivered = @ + l]
  BY Zenon DEF Flush
<1>. HIDE DEF fr, q, l
<1>5. /\ counters'.packets = counters.packets
      /\ counters'.points = counters.points
      /\ counters'.frames = counters.frames + fr
      /\ counters'.dropped = counters.dropped
      /\ counters'.type_switch_gaps = counters.type_switch_gaps
      /\ counters'.reordered = counters.reordered
      /\ DOMAIN counters' = DOMAIN counters
  BY <1>1, <1>4, Zenon DEF CountersOK
<1>6. CountersOK(counters')
  BY <1>1, <1>5 DEF CountersOK
<1>7. /\ hist'.delivered = q.delivered + l
      /\ hist'.top = q.top
      /\ hist'.origin = q.origin /\ hist'.since = q.since
      /\ hist'.frame = q.frame /\ hist'.windowed = q.windowed
      /\ hist'.skipped = q.skipped
      /\ DOMAIN hist' = DOMAIN q
  BY <1>3, <1>4, Zenon DEF HistoryOK
<1>8. HistoryOK(hist')
  BY <1>2, <1>3, <1>7 DEF HistoryOK
<1>. QED
  BY <1>3, <1>5, <1>6, <1>7, <1>8, Zenon DEF fr, l

LEMMA DiscardFacts ==
  ASSUME TypeInv, Discard
  PROVE  /\ CountersOK(counters')
         /\ counters'.packets = counters.packets
         /\ counters'.points = counters.points - Len(cur.points)
         /\ counters'.frames = counters.frames
         /\ counters'.dropped = counters.dropped
         /\ counters'.type_switch_gaps = counters.type_switch_gaps
         /\ counters'.reordered = counters.reordered
         /\ FrameOK(cur') /\ cur'.points = <<>>
<1>. DEFINE l == Len(cur.points)
<1>1. CountersOK(counters) /\ FrameOK(cur)
  BY Zenon DEF TypeInv, DataOK
<1>2. l \in Int
  BY <1>1, LenProperties DEF FrameOK
<1>3. /\ counters' = [counters EXCEPT !.points = @ - l]
      /\ cur' = [cur EXCEPT !.points = <<>>, !.packets = 0, !.dropped = 0]
  BY Zenon DEF Discard
<1>. HIDE DEF l
<1>4. /\ counters'.packets = counters.packets
      /\ counters'.points = counters.points - l
      /\ counters'.frames = counters.frames
      /\ counters'.dropped = counters.dropped
      /\ counters'.type_switch_gaps = counters.type_switch_gaps
      /\ counters'.reordered = counters.reordered
      /\ DOMAIN counters' = DOMAIN counters
  BY <1>1, <1>3, Zenon DEF CountersOK
<1>5. CountersOK(counters')
  BY <1>1, <1>2, <1>4 DEF CountersOK
<1>6. /\ cur'.points = <<>>
      /\ cur'.base_time = cur.base_time /\ cur'.end_time = cur.end_time
      /\ DOMAIN cur' = DOMAIN cur
  BY <1>1, <1>3, Zenon DEF FrameOK
<1>7. <<>> \in Seq(Samples)
  OBVIOUS
<1>8. FrameOK(cur')
  BY <1>1, <1>6, <1>7, Zenon DEF FrameOK
<1>. QED
  BY <1>4, <1>5, <1>6, <1>8, Zenon DEF l

LEMMA LateFacts ==
  ASSUME TypeInv, NEW h \in net, PushLate(h)
  PROVE  /\ HistoryOK(hist')
         /\ hist'.top = Witnessed(h).top
         /\ hist'.delivered = hist.delivered /\ hist'.origin = hist.origin
         /\ hist'.since = hist.since /\ hist'.frame = hist.frame
         /\ hist'.windowed = hist.windowed
         /\ hist'.packet = h
<1>. DEFINE w == Witnessed(h)
<1>1. HistoryOK(w) /\ w.delivered = hist.delivered /\ w.origin = hist.origin
      /\ w.since = hist.since /\ w.frame = hist.frame
      /\ w.windowed = hist.windowed /\ w.packet = h
  BY WitnessedType, Zenon
<1>2. hist' = [w EXCEPT !.skipped = TRUE]
  BY Zenon DEF PushLate
<1>. HIDE DEF w
<1>3. /\ hist'.top = w.top
      /\ hist'.delivered = w.delivered /\ hist'.origin = w.origin
      /\ hist'.since = w.since /\ hist'.frame = w.frame
      /\ hist'.windowed = w.windowed
      /\ hist'.packet = w.packet
      /\ DOMAIN hist' = DOMAIN w
  BY <1>1, <1>2, Zenon DEF HistoryOK
<1>4. HistoryOK(hist')
  BY <1>1, <1>3, Zenon DEF HistoryOK
<1>. QED
  BY <1>1, <1>3, <1>4, Zenon DEF w

LEMMA SetPolicyFacts ==
  ASSUME TypeInv, SetPolicy
  PROVE  /\ HistoryOK(hist')
         /\ hist'.delivered = hist.delivered
         /\ hist'.top = hist.top
         /\ hist'.origin = window_start /\ hist'.since = 0
         /\ hist'.frame = hist.frame /\ hist'.windowed = hist.windowed
         /\ hist'.skipped = FALSE
<1>. DEFINE q == Quiet
<1>1. HistoryOK(q) /\ q.skipped = FALSE
      /\ q.top = hist.top
      /\ q.delivered = hist.delivered /\ q.frame = hist.frame
      /\ q.windowed = hist.windowed
  BY QuietType, Zenon
<1>2. hist' = [q EXCEPT !.origin = window_start, !.since = 0]
  BY Zenon DEF SetPolicy
<1>3. window_start \in Int
  BY Zenon DEF TypeInv, DataOK
<1>. HIDE DEF q
<1>4. /\ hist'.delivered = q.delivered
      /\ hist'.top = q.top
      /\ hist'.origin = window_start /\ hist'.since = 0
      /\ hist'.frame = q.frame /\ hist'.windowed = q.windowed
      /\ hist'.skipped = q.skipped
      /\ DOMAIN hist' = DOMAIN q
  BY <1>1, <1>2, Zenon DEF HistoryOK
<1>5. HistoryOK(hist')
  BY <1>1, <1>3, <1>4 DEF HistoryOK
<1>. QED
  BY <1>1, <1>4, <1>5, Zenon

(* The values the proofs take from the constructor. *)
LEMMA InitValues ==
  Init => /\ cur = EmptyFrame /\ out = <<>> /\ net = {} /\ next_index = 0
          /\ drops.have = FALSE /\ prev.have = FALSE
          /\ counters.points = 0 /\ counters.frames = 0 /\ counters.dropped = 0
          /\ counters.reordered = 0 /\ counters.type_switch_gaps = 0
          /\ hist.delivered = 0 /\ hist.skipped = FALSE
<1>. SUFFICES ASSUME Init
              PROVE  /\ cur = EmptyFrame /\ out = <<>> /\ net = {} /\ next_index = 0
                     /\ drops.have = FALSE /\ prev.have = FALSE
                     /\ counters.points = 0 /\ counters.frames = 0
                     /\ counters.dropped = 0 /\ counters.reordered = 0
                     /\ counters.type_switch_gaps = 0
                     /\ hist.delivered = 0 /\ hist.skipped = FALSE
  BY Zenon
<1>1. cur = EmptyFrame /\ out = <<>> /\ net = {} /\ next_index = 0
      /\ drops.have = FALSE /\ prev.have = FALSE
  BY Zenon DEF Init
<1>2. counters.points = 0 /\ counters.frames = 0 /\ counters.dropped = 0
      /\ counters.reordered = 0 /\ counters.type_switch_gaps = 0
  BY Zenon DEF Init
<1>3. hist.delivered = 0 /\ hist.skipped = FALSE
  BY Zenon DEF Init
<1>. QED
  BY <1>1, <1>2, <1>3, Zenon

LEMMA TypeInit == Init => TypeInv
<1>. SUFFICES ASSUME Init PROVE TypeInv
  BY Zenon
<1>1. SenderOK
  BY Assumed, Zenon DEF Init, SenderOK
<1>2. policy \in Policies /\ next_index \in Int /\ first_time \in Int \cup {None}
      /\ window_start \in Int
  BY DEF Init
<1>3. TimesOK(time)
  <2>1. time = [offset |-> None, synced |-> FALSE]
    BY Zenon DEF Init
  <2>. QED
    BY <2>1, Zenon DEF TimesOK
<1>4. DropsOK(drops)
  <2>1. drops = [have |-> FALSE, last |-> 0]
    BY Zenon DEF Init
  <2>. QED
    BY <2>1 DEF DropsOK
<1>5. CountersOK(counters)
  <2>1. counters = [packets |-> 0, points |-> 0, frames |-> 0, dropped |-> 0,
                    reordered |-> 0, frame_cnt_fallback |-> 0, type_switch_gaps |-> 0]
    BY Zenon DEF Init
  <2>. QED
    BY <2>1 DEF CountersOK
<1>6. FrameOK(cur)
  BY EmptyFrameOK, Zenon DEF Init
<1>7. HistoryOK(hist)
  <2>1. hist = [top |-> 0, delivered |-> 0,
                origin |-> 0, since |-> 0, frame |-> 0, windowed |-> FALSE,
                packet |-> None, skipped |-> FALSE]
    BY Zenon DEF Init
  <2>. QED
    BY <2>1 DEF HistoryOK
<1>. QED
  BY <1>1, <1>2, <1>3, <1>4, <1>5, <1>6, <1>7, Zenon DEF TypeInv, DataOK

LEMMA FirstTimeType ==
  ASSUME TypeInv, NEW h \in net
  PROVE  FirstTime(h) \in Int
<1>1. T0(h) \in Int /\ first_time \in Int \cup {None}
  BY MapType, Zenon DEF TypeInv, DataOK
<1>. QED
  BY <1>1, Zenon DEF FirstTime

(* A window start on the grid is at most the time of the packet, and less than a      *)
(* window before it; it has advanced by a window when the previous one has expired.  *)
LEMMA GridStart ==
  ASSUME NEW w \in Nat \ {0}, NEW s \in Int, NEW t \in Int
  PROVE  LET g == s + w * ((t - s) \div w)
         IN /\ g \in Int /\ g <= t /\ t < g + w
            /\ t >= s + w => g >= s + w
<1>. DEFINE a == t - s
            q == a \div w
            r == a % w
<1>1. a \in Int
  OBVIOUS
<1>. HIDE DEF a
<1>2. q \in Int /\ r \in Int /\ 0 <= r /\ r < w /\ a = w * q + r
  BY <1>1, DivMod
<1>. HIDE DEF q, r
<1>3. w * q \in Int
  BY <1>2, MulBound, Zenon
<1>4. a >= w => q >= 1
  <2>1. ~(q <= -1) /\ q # 0 => q >= 1
    BY <1>2
  <2>2. q <= -1 => w * q <= -w
    BY <1>2, MulBound, Zenon
  <2>3. q = 0 => w * q = 0
    BY <1>2
  <2>. QED
    BY <1>1, <1>2, <1>3, <2>1, <2>2, <2>3
<1>5. a >= w => w * q >= w
  BY <1>2, <1>4, MulBound, Zenon
<1>. DEFINE x == w * q
<1>6. x \in Int /\ a = x + r /\ (a >= w => x >= w)
  BY <1>2, <1>3, <1>5, Zenon
<1>. HIDE DEF x
<1>7. s + x \in Int /\ s + x <= t /\ t < s + x + w /\ (t >= s + w => s + x >= s + w)
  BY <1>2, <1>6 DEF a
<1>. QED
  BY <1>7, Zenon DEF x, q, a

LEMMA WindowStartType ==
  ASSUME TypeInv, NEW h \in net, NEW b \in BOOLEAN
  PROVE  WindowStart(b, T0(h)) \in Int
<1>. DEFINE w == policy.window
            t == T0(h)
<1>1. w \in Nat \ {0} /\ window_start \in Int /\ t \in Int
  BY Assumed, MapType, Zenon DEF TypeInv, DataOK
<1>. HIDE DEF w, t
<1>2. window_start + w * ((t - window_start) \div w) \in Int
  BY <1>1, GridStart, Zenon
<1>. QED
  BY <1>1, <1>2, Zenon DEF WindowStart, w, t

LEMMA AcceptType ==
  ASSUME TypeInv, NEW h \in net, PushAccept(h)
  PROVE  DataOK'
<1>1. DataOK
  BY Zenon DEF TypeInv
<1>2. policy' \in Policies
  BY <1>1, Zenon DEF DataOK, PushAccept
<1>3. TimesOK(time')
  BY MapType, Zenon DEF PushAccept
<1>4. DropsOK(drops')
  BY ObserveType, Zenon DEF PushAccept
<1>5. CountersOK(counters')
  BY AcceptedCounts, Zenon
<1>6. FrameOK(cur')
  BY Accepted, Zenon
<1>7. next_index' \in Int
  BY <1>1 DEF DataOK, PushAccept
<1>8. first_time' \in Int \cup {None}
  BY FirstTimeType, Zenon DEF PushAccept
<1>9. window_start' \in Int
  <2>1. OnGrid(h) \in BOOLEAN
    BY Zenon DEF OnGrid, Closes
  <2>2. window_start' = IF Fresh(h) THEN WindowStart(OnGrid(h), T0(h)) ELSE window_start
    BY Zenon DEF PushAccept
  <2>3. WindowStart(OnGrid(h), T0(h)) \in Int
    BY <2>1, WindowStartType, Zenon
  <2>4. window_start \in Int
    BY <1>1, Zenon DEF DataOK
  <2>. QED
    BY <2>2, <2>3, <2>4, Zenon
<1>10. HistoryOK(hist')
  BY AcceptedHistory, Zenon
<1>. QED
  BY <1>2, <1>3, <1>4, <1>5, <1>6, <1>7, <1>8, <1>9, <1>10, Zenon DEF DataOK

LEMMA LateType ==
  ASSUME TypeInv, NEW h \in net, PushLate(h)
  PROVE  DataOK'
<1>1. DataOK
  BY DEF TypeInv
<1>2. TimesOK(time')
  BY MapType, Zenon DEF PushLate
<1>3. DropsOK(drops')
  BY ObserveType, Zenon DEF PushLate
<1>4. CountersOK(counters')
  BY CountedType, Zenon DEF PushLate
<1>5. HistoryOK(hist')
  BY LateFacts, Zenon
<1>6. UNCHANGED <<policy, cur, next_index, first_time, window_start>>
  BY Zenon DEF PushLate
<1>. QED
  BY <1>1, <1>2, <1>3, <1>4, <1>5, <1>6, Zenon DEF DataOK

LEMMA TypeStep == TypeInv /\ [Next]_vars => TypeInv'
<1>. SUFFICES ASSUME TypeInv, [Next]_vars PROVE TypeInv'
  BY Zenon
<1>1. SenderOK /\ DataOK
  BY Zenon DEF TypeInv
<1>2. Rest => SenderOK'
  BY <1>1, Zenon DEF Rest, SenderOK
<1>3. HistoryOK(Quiet)
  BY QuietType, Zenon
<1>4. CASE Send
  BY <1>4, SendType, Zenon
<1>5. CASE \E h \in net : Late_(h)
  BY <1>2, <1>5, LateType, Zenon DEF Late_, TypeInv
<1>6. CASE \E h \in net : Accept_(h)
  BY <1>2, <1>6, AcceptType, Zenon DEF Accept_, TypeInv
<1>7. CASE Flush /\ Rest
  <2>1. CountersOK(counters') /\ HistoryOK(hist')
    BY <1>7, FlushFacts, Zenon
  <2>2. FrameOK(cur')
    BY <1>1, <1>7, EmptyFrameOK, Zenon DEF Flush, DataOK
  <2>3. next_index' \in Int
    BY <1>1, <1>7 DEF Flush, DataOK
  <2>4. UNCHANGED <<policy, time, drops, first_time, window_start>>
    BY <1>7, Zenon DEF Flush
  <2>5. DataOK'
    BY <1>1, <2>1, <2>2, <2>3, <2>4, Zenon DEF DataOK
  <2>. QED
    BY <1>2, <1>7, <2>5, Zenon DEF TypeInv
<1>8. CASE Discard /\ Rest
  <2>1. CountersOK(counters') /\ FrameOK(cur')
    BY <1>8, DiscardFacts, Zenon
  <2>2. UNCHANGED <<policy, time, drops, next_index, first_time, window_start>>
        /\ hist' = Quiet
    BY <1>8, Zenon DEF Discard
  <2>3. DataOK'
    BY <1>1, <1>3, <2>1, <2>2, Zenon DEF DataOK
  <2>. QED
    BY <1>2, <1>8, <2>3 DEF TypeInv
<1>9. CASE Rebase /\ Rest
  <2>1. TimesOK(time')
    BY <1>9, Zenon DEF Rebase, TimesOK
  <2>2. DropsOK(drops')
    BY <1>1, <1>9, Zenon DEF Rebase, DropsOK, DataOK
  <2>3. UNCHANGED <<policy, counters, cur, next_index, first_time, window_start>>
        /\ hist' = Quiet
    BY <1>9, Zenon DEF Rebase
  <2>4. DataOK'
    BY <1>1, <1>3, <2>1, <2>2, <2>3, Zenon DEF DataOK
  <2>. QED
    BY <1>2, <1>9, <2>4 DEF TypeInv
<1>10. CASE SetPolicy /\ Rest
  <2>1. HistoryOK(hist')
    BY <1>10, SetPolicyFacts, Zenon
  <2>2. policy' \in Policies /\ first_time' = None
    BY <1>10, Zenon DEF SetPolicy
  <2>3. UNCHANGED <<time, drops, counters, cur, next_index, window_start>>
    BY <1>10, Zenon DEF SetPolicy
  <2>4. first_time' \in Int \cup {None}
    BY <2>2, Zenon
  <2>5. DataOK'
    BY <1>1, <2>1, <2>2, <2>3, <2>4, Zenon DEF DataOK
  <2>. QED
    BY <1>2, <1>10, <2>5 DEF TypeInv
<1>11. CASE Nothing
  BY <1>1, <1>2, <1>3, <1>11, Zenon DEF Nothing, TypeInv, DataOK, state
<1>12. CASE UNCHANGED vars
  BY <1>1, <1>12, Zenon DEF TypeInv, DataOK, SenderOK, vars, state
<1>. QED
  BY <1>4, <1>5, <1>6, <1>7, <1>8, <1>9, <1>10, <1>11, <1>12, Cases, Zenon

-----------------------------------------------------------------------------
(* The statistics *)

LEMMA TakenFields ==
  ASSUME TypeInv
  PROVE  /\ Taken(cur).index = next_index
         /\ Taken(cur).points = cur.points
         /\ Taken(cur).base_time = cur.base_time
         /\ Taken(cur).end_time = cur.end_time
         /\ Taken(cur).frame_cnt = cur.frame_cnt
         /\ Taken(cur).source_type = cur.source_type
         /\ Taken(cur).time_type = cur.time_type
BY Zenon DEF TypeInv, DataOK, FrameOK, Taken

(* The lengths of the partial frame and of the frame a packet joins. *)
LEMMA BaseLength ==
  ASSUME TypeInv, NEW h \in net
  PROVE  /\ Len(cur.points) \in Nat /\ Len(Base(h).points) \in Nat
         /\ Fresh(h) => Len(Base(h).points) = 0
         /\ ~Fresh(h) => Len(Base(h).points) = Len(cur.points) /\ ~Closes(h)
         /\ Fresh(h) /\ ~Closes(h) => Len(cur.points) = 0
         /\ Closes(h) => Fresh(h)
<1>1. cur.points \in Seq(Samples) /\ Base(h).points \in Seq(Samples)
  BY BaseType, Zenon DEF TypeInv, DataOK, FrameOK
<1>2. Len(cur.points) \in Nat /\ Len(Base(h).points) \in Nat
  BY <1>1, LenProperties, Zenon
<1>3. Len(<<>>) = 0
  BY Zenon
<1>4. ASSUME Fresh(h) PROVE Len(Base(h).points) = 0
  <2>1. Base(h).points = <<>>
    BY <1>4, MapType, NewFrameType, Zenon DEF Base
  <2>. QED
    BY <1>3, <2>1, Zenon
<1>5. ASSUME ~Fresh(h) PROVE Len(Base(h).points) = Len(cur.points) /\ ~Closes(h)
  BY <1>5, Zenon DEF Base, Fresh
<1>6. ASSUME Fresh(h), ~Closes(h) PROVE Len(cur.points) = 0
  BY <1>3, <1>6, Zenon DEF Fresh, Partial
<1>. QED
  BY <1>2, <1>4, <1>5, <1>6, Zenon DEF Fresh

LEMMA ConservedAccept ==
  ASSUME TypeInv, PointsConserved, NEW h \in net, PushAccept(h)
  PROVE  PointsConserved'
<1>. DEFINE a == IF Closes(h) THEN 1 ELSE 0
            l == Len(cur.points)
            b == Len(Base(h).points)
            g == IF Closes(h) THEN l ELSE 0
            n == h.dot_num
            p == counters'.points
            d == hist'.delivered
            m == Len(cur'.points)
<1>1. counters.points \in Int /\ counters.frames \in Int /\ hist.delivered \in Int
      /\ next_index \in Int /\ n \in Int
  BY DEF TypeInv, SenderOK, DataOK, CountersOK, HistoryOK, Packets
<1>2. p = counters.points + n /\ counters'.frames = counters.frames + a
  BY AcceptedCounts, Zenon
<1>3. d = hist.delivered + g
  BY AcceptedHistory, Zenon
<1>4. m = b + n
  BY Accepted, Zenon
<1>5. l \in Nat /\ b \in Nat /\ g + b = l
  <2>1. /\ l \in Nat /\ b \in Nat
        /\ Fresh(h) => b = 0
        /\ ~Fresh(h) => b = l /\ ~Closes(h)
        /\ Fresh(h) /\ ~Closes(h) => l = 0
    BY BaseLength, Zenon
  <2>. HIDE DEF l, b
  <2>. QED
    BY <2>1
<1>6. counters.points = hist.delivered + l /\ counters.frames = next_index
  BY Zenon DEF PointsConserved
<1>7. g \in Int /\ a \in Int
  BY <1>5
<1>. HIDE DEF a, l, b, g, n, p, d, m
<1>8. p = d + m
  BY <1>1, <1>2, <1>3, <1>4, <1>5, <1>6, <1>7
<1>9. counters'.points = hist'.delivered + Len(cur'.points)
  BY <1>8, Zenon DEF p, d, m
<1>10. next_index' = next_index + a
  BY Zenon DEF PushAccept, a
<1>11. counters'.frames = next_index'
  BY <1>2, <1>6, <1>10, Zenon
<1>12. \A i \in DOMAIN out' : out'[i].index = next_index' - 1 /\ out'[i].points # <<>>
  <2>1. CASE Closes(h)
    <3>1. out' = <<Taken(cur)>> /\ cur.points # <<>>
      BY <2>1, Zenon DEF PushAccept, Closes, Partial
    <3>2. next_index' - 1 = next_index
      BY <1>1, <1>10, <2>1 DEF a
    <3>. QED
      BY <3>1, <3>2, TakenFields
  <2>2. CASE ~Closes(h)
    BY <2>2 DEF PushAccept
  <2>. QED
    BY <2>1, <2>2, Zenon
<1>. QED
  BY <1>9, <1>11, <1>12, Zenon DEF PointsConserved

LEMMA ConservedStep == TypeInv /\ PointsConserved /\ [Next]_vars => PointsConserved'
<1>. SUFFICES ASSUME TypeInv, PointsConserved, [Next]_vars PROVE PointsConserved'
  BY Zenon
<1>1. /\ counters.points = hist.delivered + Len(cur.points)
      /\ counters.frames = next_index
  BY Zenon DEF PointsConserved
<1>2. counters.points \in Int /\ counters.frames \in Int /\ hist.delivered \in Int
      /\ next_index \in Int /\ Len(cur.points) \in Nat
  BY LenProperties, Zenon DEF TypeInv, DataOK, CountersOK, HistoryOK, FrameOK
<1>3. Quiet.delivered = hist.delivered
  BY QuietType, Zenon
<1>4. ASSUME UNCHANGED <<counters, cur, next_index>>, hist'.delivered = hist.delivered,
             out' = <<>>
      PROVE  PointsConserved'
  BY <1>1, <1>4 DEF PointsConserved
<1>5. CASE Send
  BY <1>3, <1>4, <1>5, Zenon DEF Send, state
<1>6. CASE \E h \in net : Late_(h)
  <2>1. PICK h \in net : PushLate(h)
    BY <1>6, Zenon DEF Late_
  <2>. DEFINE c == Counted(h)
  <2>2. counters' = c /\ UNCHANGED <<cur, next_index>> /\ out' = <<>>
    BY <2>1, Zenon DEF PushLate
  <2>3. c.points = counters.points /\ c.frames = counters.frames
    BY CountedType, Zenon
  <2>4. hist'.delivered = hist.delivered
    BY <2>1, LateFacts, Zenon
  <2>. HIDE DEF c
  <2>. QED
    BY <1>1, <2>2, <2>3, <2>4 DEF PointsConserved
<1>7. CASE \E h \in net : Accept_(h)
  BY <1>7, ConservedAccept, Zenon DEF Accept_
<1>8. CASE Flush /\ Rest
  <2>1. /\ counters'.points = counters.points
        /\ counters'.frames = counters.frames + (IF Partial THEN 1 ELSE 0)
        /\ hist'.delivered = hist.delivered + Len(cur.points)
    BY <1>8, FlushFacts, Zenon
  <2>2. Len(cur'.points) = 0
    <3>1. cur'.points = <<>>
      BY <1>8, EmptyFrameOK, Zenon DEF Flush, Partial
    <3>. QED
      BY <3>1
  <2>3. next_index' = next_index + (IF Partial THEN 1 ELSE 0)
    BY <1>8, Zenon DEF Flush
  <2>4. \A i \in DOMAIN out' : out'[i].index = next_index' - 1 /\ out'[i].points # <<>>
    <3>1. CASE Partial
      <4>1. out' = <<Taken(cur)>> /\ cur.points # <<>>
        BY <1>8, <3>1, Zenon DEF Flush, Partial
      <4>2. next_index' - 1 = next_index
        BY <1>2, <2>3, <3>1
      <4>. QED
        BY <4>1, <4>2, TakenFields
    <3>2. CASE ~Partial
      BY <1>8, <3>2 DEF Flush
    <3>. QED
      BY <3>1, <3>2, Zenon
  <2>5. counters'.points = hist'.delivered + Len(cur'.points)
    BY <1>1, <1>2, <2>1, <2>2
  <2>6. counters'.frames = next_index'
    BY <1>1, <2>1, <2>3, Zenon
  <2>. QED
    BY <2>4, <2>5, <2>6, Zenon DEF PointsConserved
<1>9. CASE Discard /\ Rest
  <2>1. /\ counters'.points = counters.points - Len(cur.points)
        /\ counters'.frames = counters.frames
        /\ cur'.points = <<>>
    BY <1>9, DiscardFacts, Zenon
  <2>2. hist'.delivered = hist.delivered /\ next_index' = next_index /\ out' = <<>>
    BY <1>3, <1>9, Zenon DEF Discard
  <2>3. Len(cur'.points) = 0
    BY <2>1
  <2>4. counters'.points = hist'.delivered + Len(cur'.points)
    BY <1>1, <1>2, <2>1, <2>2, <2>3
  <2>. QED
    BY <1>1, <2>1, <2>2, <2>4 DEF PointsConserved
<1>10. CASE Rebase /\ Rest
  BY <1>3, <1>4, <1>10, Zenon DEF Rebase
<1>11. CASE SetPolicy /\ Rest
  <2>1. hist'.delivered = hist.delivered
    BY <1>11, SetPolicyFacts, Zenon
  <2>. QED
    BY <1>4, <1>11, <2>1, Zenon DEF SetPolicy
<1>12. CASE Nothing
  BY <1>3, <1>4, <1>12, Zenon DEF Nothing, state
<1>13. CASE UNCHANGED vars
  BY <1>13, Zenon DEF PointsConserved, vars, state
<1>. QED
  BY <1>5, <1>6, <1>7, <1>8, <1>9, <1>10, <1>11, <1>12, <1>13, Cases, Zenon

(* The remainder of a number within half a cycle of zero. *)
LEMMA HalfCycle ==
  ASSUME NEW m \in Nat \ {0}, NEW x \in (1 - m \div 2) .. (m \div 2)
  PROVE  /\ x \in Int /\ m \div 2 \in Nat
         /\ x >= 0 => x % m = x
         /\ x < 0 => x % m > m \div 2 /\ x % m # 0
<1>1. m \div 2 \in Nat /\ 2 * (m \div 2) <= m /\ m \div 2 < m
  BY SMT
<1>. DEFINE k == m \div 2
<1>2. x \in Int /\ 1 - k <= x /\ x <= k
  BY <1>1
<1>3. k \in Nat /\ 2 * k <= m /\ k < m
  BY <1>1, Zenon
<1>. HIDE DEF k
<1>4. ASSUME x >= 0 PROVE x % m = x
  <2>1. x = m * 0 + x /\ x < m
    BY <1>2, <1>3
  <2>. QED
    BY <1>2, <1>4, <2>1, DivUnique
<1>5. ASSUME x < 0 PROVE x % m > k /\ x % m # 0
  <2>. DEFINE y == x + m
  <2>1. y \in Int /\ x = m * (-1) + y /\ 0 <= y /\ y < m /\ y > k
    BY <1>2, <1>3, <1>5
  <2>. HIDE DEF y
  <2>2. x % m = y
    BY <1>2, <2>1, DivUnique
  <2>. QED
    BY <1>3, <2>1, <2>2
<1>. QED
  BY <1>2, <1>3, <1>4, <1>5, Zenon DEF k

(* DropCounter::observe agrees with the unbounded numbers. *)
LEMMA ObserveExact ==
  ASSUME TypeInv, ~PerFrameReset, NEW h \in net, WithinHalfCycle(h),
         drops.have => drops.last = hist.top % UdpMod
  PROVE  LET o == Observe(h.udp_cnt, FrameChanged(h))
         IN /\ o.reordered <=> Behind(h)
            /\ o.dropped = IF Restarts(h) \/ Behind(h) THEN 0 ELSE h.udp - hist.top - 1
<1>. DEFINE c == h.udp_cnt
            o == Observe(c, FrameChanged(h))
            gap == (c - (drops.last + 1)) % UdpMod
            seq == ~drops.have \/ gap = 0 \/ (c = 0 /\ FrameChanged(h))
            late == ~seq /\ gap > UdpMod \div 2
            x == h.udp - hist.top - 1
<1>1. /\ o.dropped = (IF seq \/ late THEN 0 ELSE gap)
      /\ o.reordered = late
  BY Zenon DEF Observe
<1>2. h.udp \in Int /\ hist.top \in Int /\ c = h.udp % UdpMod
      /\ UdpMod \in Nat \ {0} /\ x \in Int
  BY Assumed DEF TypeInv, SenderOK, DataOK, HistoryOK, Packets
<1>3. CASE Restarts(h)
  <2>1. seq /\ ~late
    BY <1>3, Zenon DEF Restarts
  <2>. QED
    BY <1>1, <1>3, <2>1, Zenon DEF Behind
<1>4. CASE ~Restarts(h)
  <2>1. drops.have /\ ~(c = 0 /\ FrameChanged(h))
    BY <1>4, Zenon DEF Restarts
  <2>2. gap = x % UdpMod
    <3>1. ((h.udp % UdpMod) - ((hist.top % UdpMod) + 1)) % UdpMod = x % UdpMod
      BY <1>2, GapMod, Zenon
    <3>. QED
      BY <1>2, <2>1, <3>1, Zenon
  <2>3. x \in (1 - UdpMod \div 2) .. (UdpMod \div 2)
    BY <2>1, Zenon DEF WithinHalfCycle
  <2>4. (seq <=> gap = 0) /\ (late <=> gap # 0 /\ gap > UdpMod \div 2)
    BY <2>1, Zenon
  <2>5. Behind(h) <=> x < 0
    BY <1>2, <1>4 DEF Behind
  <2>. HIDE DEF gap, seq, late, x, o
  <2>6. /\ x \in Int /\ UdpMod \div 2 \in Nat
        /\ x >= 0 => x % UdpMod = x
        /\ x < 0 => x % UdpMod > UdpMod \div 2 /\ x % UdpMod # 0
    BY <1>2, <2>3, HalfCycle, Zenon
  <2>7. CASE x >= 0
    <3>1. gap = x /\ x <= UdpMod \div 2
      BY <2>2, <2>3, <2>6, <2>7
    <3>2. ~late
      BY <2>4, <2>6, <3>1
    <3>3. ~Behind(h)
      BY <2>5, <2>6, <2>7
    <3>4. o.dropped = x
      <4>1. CASE seq
        BY <1>1, <2>4, <3>1, <4>1, Zenon
      <4>2. CASE ~seq
        BY <1>1, <3>1, <3>2, <4>2, Zenon
      <4>. QED
        BY <4>1, <4>2, Zenon
    <3>. QED
      BY <1>1, <1>4, <3>2, <3>3, <3>4, Zenon DEF o, x
  <2>8. CASE x < 0
    <3>1. late /\ Behind(h)
      BY <2>2, <2>4, <2>5, <2>6, <2>8, Zenon
    <3>. QED
      BY <1>1, <3>1, Zenon DEF o
  <2>. QED
    BY <2>6, <2>7, <2>8
<1>. QED
  BY <1>3, <1>4, Zenon

LEMMA DropsInit == Init => DropsInv
<1>. SUFFICES ASSUME Init PROVE DropsInv
  BY Zenon
<1>1. truth = [newest |-> None, lost |-> 0, late |-> 0, misread |-> FALSE]
  BY Zenon DEF Init
<1>2. truth.newest = None /\ truth.lost = 0 /\ truth.late = 0 /\ DOMAIN truth = TruthFields
  BY <1>1 DEF TruthFields
<1>3. counters.dropped + counters.type_switch_gaps = 0
  BY InitValues
<1>. QED
  BY <1>2, <1>3, InitValues, Zenon DEF DropsInv, DropsCounted, DropsCountedEver

(* A packet that is not misread is what the DropCounter takes it for. *)
LEMMA NotMisread ==
  ASSUME TypeInv, NEW h \in net, ~Misread(h),
         truth.newest = (IF drops.have THEN hist.top ELSE None)
  PROVE  /\ Overtaken(h) <=> Behind(h)
         /\ Missing(h) = IF Restarts(h) \/ Behind(h) THEN 0 ELSE h.udp - hist.top - 1
<1>1. h.udp \in Int /\ hist.top \in Int /\ hist.top # None
  <2>1. hist.top \in Int /\ h.udp \in Int
    BY DEF TypeInv, SenderOK, DataOK, HistoryOK, Packets
  <2>. QED
    BY <2>1, FrameAssemblerAssumption
<1>2. CASE ~drops.have
  BY <1>2, Zenon DEF Overtaken, Missing, Behind, Restarts
<1>3. CASE drops.have /\ Restarts(h)
  <2>1. truth.newest = hist.top /\ h.udp = hist.top + 1
    BY <1>1, <1>3, Zenon DEF Misread, Restarts
  <2>2. ~(h.udp <= hist.top) /\ h.udp - hist.top - 1 = 0
    BY <1>1, <2>1
  <2>. QED
    BY <1>1, <1>3, <2>1, <2>2, Zenon DEF Overtaken, Missing, Behind
<1>4. CASE drops.have /\ ~Restarts(h)
  BY <1>1, <1>4, Zenon DEF Overtaken, Missing, Behind
<1>. QED
  BY <1>2, <1>3, <1>4, Zenon

LEMMA DropsPush ==
  ASSUME TypeInv, DropsInv, ~PerFrameReset, NEW h \in net, WithinHalfCycle(h),
         drops' = Observe(h.udp_cnt, FrameChanged(h)).drops,
         counters'.dropped = Counted(h).dropped,
         counters'.type_switch_gaps = Counted(h).type_switch_gaps,
         counters'.reordered = Counted(h).reordered,
         hist'.top = Witnessed(h).top,
         truth' = Received(h)
  PROVE  DropsInv'
<1>. DEFINE o == Observe(h.udp_cnt, FrameChanged(h))
            c == Counted(h)
            e == IF Restarts(h) \/ Behind(h) THEN 0 ELSE h.udp - hist.top - 1
<1>1. drops.have => drops.last = hist.top % UdpMod
  BY Zenon DEF DropsInv
<1>2. (o.reordered <=> Behind(h)) /\ o.dropped = e
  BY <1>1, ObserveExact, Zenon
<1>3. /\ c.dropped + c.type_switch_gaps
           = counters.dropped + counters.type_switch_gaps + o.dropped
      /\ c.reordered = counters.reordered + (IF o.reordered THEN 1 ELSE 0)
  BY CountedType, Zenon
<1>4. hist'.top = IF Behind(h) THEN hist.top ELSE h.udp
  BY WitnessedType, Zenon
<1>5. drops'.have /\ drops'.last = hist'.top % UdpMod
  <2>1. CASE Behind(h)
    <3>1. drops' = drops /\ hist'.top = hist.top /\ drops.have
      BY <1>2, <1>4, <2>1, ObserveType, Zenon DEF Behind, Restarts
    <3>. QED
      BY <1>1, <3>1, Zenon
  <2>2. CASE ~Behind(h)
    <3>1. drops'.have /\ drops'.last = h.udp_cnt /\ hist'.top = h.udp
      BY <1>2, <1>4, <2>2, ObserveType, Zenon
    <3>2. h.udp_cnt = h.udp % UdpMod
      BY Zenon DEF TypeInv, SenderOK
    <3>. QED
      BY <3>1, <3>2, Zenon
  <2>. QED
    BY <2>1, <2>2, Zenon
<1>6. ASSUME ~truth'.misread
      PROVE  DropsCountedEver' /\ truth'.newest = hist'.top
  <2>1. ~truth.misread /\ ~Misread(h)
    BY <1>6, Zenon DEF Received
  <2>2. /\ counters.dropped + counters.type_switch_gaps = truth.lost
        /\ counters.reordered = truth.late
        /\ truth.newest = (IF drops.have THEN hist.top ELSE None)
    BY <2>1, Zenon DEF DropsInv, DropsCounted, DropsCountedEver
  <2>3. (Overtaken(h) <=> Behind(h)) /\ Missing(h) = e
    BY <2>1, <2>2, NotMisread, Zenon
  <2>4. /\ truth'.newest = IF Overtaken(h) THEN truth.newest ELSE h.udp
        /\ truth'.lost = truth.lost + Missing(h)
        /\ truth'.late = truth.late + (IF Overtaken(h) THEN 1 ELSE 0)
    BY Zenon DEF Received
  <2>5. truth'.newest = hist'.top
    BY <1>4, <2>2, <2>3, <2>4, Zenon DEF Behind, Restarts
  <2>. HIDE DEF o, c, e
  <2>6. counters'.dropped + counters'.type_switch_gaps = truth'.lost
    BY <1>2, <1>3, <2>2, <2>3, <2>4, Zenon DEF c
  <2>7. counters'.reordered = truth'.late
    BY <1>2, <1>3, <2>2, <2>3, <2>4, Zenon DEF c
  <2>. QED
    BY <2>5, <2>6, <2>7, Zenon DEF DropsCountedEver
<1>7. DOMAIN truth' = TruthFields
  BY Zenon DEF Received, TruthFields
<1>. QED
  BY <1>5, <1>6, <1>7, Zenon DEF DropsInv, DropsCounted

LEMMA DropsStep == ~PerFrameReset /\ TypeInv /\ DropsInv /\ [Next]_vars => DropsInv'
<1>. SUFFICES ASSUME ~PerFrameReset, TypeInv, DropsInv, [Next]_vars PROVE DropsInv'
  BY Zenon
<1>2. Quiet.top = hist.top
  BY QuietType, Zenon
<1>3. ASSUME counters'.dropped = counters.dropped,
             counters'.type_switch_gaps = counters.type_switch_gaps,
             counters'.reordered = counters.reordered,
             hist'.top = hist.top, truth' = truth, drops' = drops
      PROVE  DropsInv'
  BY <1>3, Zenon DEF DropsInv, DropsCounted, DropsCountedEver
<1>4. CASE Send
  BY <1>2, <1>3, <1>4, Zenon DEF Send, state
<1>5. CASE \E h \in net : Late_(h)
  <2>1. PICK h \in net : WithinHalfCycle(h) /\ PushLate(h)
    BY <1>5, Zenon DEF Late_
  <2>2. drops' = Observe(h.udp_cnt, FrameChanged(h)).drops /\ counters' = Counted(h)
        /\ truth' = Received(h)
    BY <2>1, Zenon DEF PushLate
  <2>3. hist'.top = Witnessed(h).top
    BY <2>1, LateFacts, Zenon
  <2>. QED
    BY <2>1, <2>2, <2>3, DropsPush, Zenon
<1>6. CASE \E h \in net : Accept_(h)
  <2>1. PICK h \in net : WithinHalfCycle(h) /\ PushAccept(h)
    BY <1>6, Zenon DEF Accept_
  <2>2. drops' = Observe(h.udp_cnt, FrameChanged(h)).drops /\ truth' = Received(h)
    BY <2>1, Zenon DEF PushAccept
  <2>3. /\ counters'.dropped = Counted(h).dropped
        /\ counters'.type_switch_gaps = Counted(h).type_switch_gaps
        /\ counters'.reordered = Counted(h).reordered
    BY <2>1, AcceptedCounts, Zenon
  <2>4. hist'.top = Witnessed(h).top
    BY <2>1, AcceptedHistory, Zenon
  <2>. QED
    BY <2>1, <2>2, <2>3, <2>4, DropsPush, Zenon
<1>7. CASE Flush /\ Rest
  <2>1. drops' = drops /\ truth' = truth
    BY <1>7, Zenon DEF Flush
  <2>. QED
    BY <1>3, <1>7, <2>1, FlushFacts, Zenon
<1>8. CASE Discard /\ Rest
  <2>1. drops' = drops /\ hist' = Quiet /\ truth' = truth
    BY <1>8, Zenon DEF Discard
  <2>. QED
    BY <1>2, <1>3, <1>8, <2>1, DiscardFacts, Zenon
<1>9. CASE Rebase /\ Rest
  <2>1. ~drops'.have
    BY <1>9, Zenon DEF Rebase, TypeInv, DataOK, DropsOK
  <2>2. counters' = counters /\ truth' = [truth EXCEPT !.newest = None]
    BY <1>9, Zenon DEF Rebase
  <2>3. /\ truth'.misread = truth.misread /\ truth'.lost = truth.lost /\ truth'.late = truth.late
        /\ truth'.newest = None /\ DOMAIN truth' = TruthFields
    <3>1. DOMAIN truth = TruthFields
      BY Zenon DEF DropsInv
    <3>. QED
      BY <2>2, <3>1 DEF TruthFields
  <2>. QED
    BY <2>1, <2>2, <2>3, Zenon DEF DropsInv, DropsCounted, DropsCountedEver
<1>10. CASE SetPolicy /\ Rest
  <2>1. drops' = drops /\ counters' = counters /\ truth' = truth
    BY <1>10, Zenon DEF SetPolicy
  <2>. QED
    BY <1>3, <1>10, <2>1, SetPolicyFacts, Zenon
<1>11. CASE Nothing
  BY <1>2, <1>3, <1>11, Zenon DEF Nothing, state
<1>12. CASE UNCHANGED vars
  BY <1>3, <1>12, Zenon DEF vars, state
<1>. QED
  BY <1>4, <1>5, <1>6, <1>7, <1>8, <1>9, <1>10, <1>11, <1>12, Cases, Zenon

(* The statistics are exact, whatever the order of arrival, the losses and the calls *)
(* between the packets, until one is misread as a restart of udp_cnt, when the LiDAR *)
(* does not restart it with the frame: push(), flush(), discard(), rebase(),         *)
(* set_policy().                                                                     *)
THEOREM FramesCountsExact == ~PerFrameReset => (Spec => []CountsExact)
<1>. SUFFICES ASSUME ~PerFrameReset PROVE Spec => []CountsExact
  BY Zenon
<1>1. Init => TypeInv /\ PointsConserved /\ DropsInv
  <2>1. ASSUME Init PROVE PointsConserved
    <3>1. Len(<<>>) = 0 /\ 0 = 0 + 0 /\ DOMAIN <<>> = {}
      OBVIOUS
    <3>. QED
      BY <2>1, <3>1, InitValues, EmptyFrameOK, Zenon DEF PointsConserved
  <2>2. ASSUME Init PROVE DropsInv
    BY <2>2, DropsInit, Zenon
  <2>. QED
    BY <2>1, <2>2, TypeInit, Zenon
<1>2. (TypeInv /\ PointsConserved /\ DropsInv) /\ [Next]_vars
        => (TypeInv /\ PointsConserved /\ DropsInv)'
  BY TypeStep, ConservedStep, DropsStep, Zenon
<1>3. TypeInv /\ PointsConserved /\ DropsInv => CountsExact
  BY Zenon DEF CountsExact, DropsInv
<1>. QED
  BY <1>1, <1>2, <1>3, PTL DEF Spec

-----------------------------------------------------------------------------
(* The header of a frame *)

(* FrameTrue depends only on the points and the header. *)
LEMMA SameHeader ==
  ASSUME NEW f, NEW g, FrameTrue(f), g.points = f.points, g.base_time = f.base_time,
         g.end_time = f.end_time, g.frame_cnt = f.frame_cnt,
         g.source_type = f.source_type, g.time_type = f.time_type
  PROVE  FrameTrue(g)
BY Zenon DEF FrameTrue

LEMMA NoPointsTrue ==
  ASSUME NEW f, f.points = <<>>
  PROVE  FrameTrue(f)
BY DEF FrameTrue

(* The packet may join the frame: the same header, near enough in time. *)
Joins(h, t0, w, f) ==
  /\ FrameTrue(f)
  /\ h.dot_num # 0
  /\ h.data_type = f.source_type
  /\ h.time_type = f.time_type
  /\ ~w /\ (\A j \in DOMAIN f.points : ~f.points[j].by_window)
       => h.frame_cnt = f.frame_cnt
  /\ t0 >= f.base_time => t0 - f.base_time + Span <= MaxOffset
  /\ f.end_time - f.base_time <= MaxOffset

(* The header of g is true; its last point is that of the packet. *)
Enlarged(h, t0, w, g) ==
  /\ FrameTrue(g)
  /\ g.points # <<>>
  /\ (\A j \in DOMAIN g.points : ~g.points[j].by_window) => h.frame_cnt = g.frame_cnt
  /\ g.points[Len(g.points)].by_window = w
  /\ g.points[Len(g.points)].ts = Sample(h, t0, h.dot_num)

LEMMA AppendTrue ==
  ASSUME NEW h \in Packets, NEW t0 \in Int, NEW w \in BOOLEAN,
         NEW f, FrameOK(f), Joins(h, t0, w, f),
         NEW g, Joined(h, t0, w, f, g)
  PROVE  Enlarged(h, t0, w, g)
<1>. DEFINE n == h.dot_num
            b == f.base_time
            e == f.end_time
            s == SamplePoints(b, h, t0, w)
            l == Len(f.points)
            last == Sample(h, t0, n)
<1>0. /\ g.points = f.points \o s /\ g.base_time = b
      /\ g.end_time = IF last > e THEN last ELSE e
      /\ g.frame_cnt = f.frame_cnt /\ g.source_type = f.source_type
      /\ g.time_type = f.time_type
      /\ FrameTrue(f)
      /\ h.data_type = f.source_type /\ h.time_type = f.time_type
      /\ ~w /\ (\A j \in DOMAIN f.points : ~f.points[j].by_window)
           => h.frame_cnt = f.frame_cnt
  BY Zenon DEF Joins, Joined
<1>a. /\ g.base_time = b
      /\ t0 >= b => t0 - b + Span <= MaxOffset
      /\ e - b <= MaxOffset
  BY Zenon DEF Joins, Joined
<1>b. n \in Nat
  BY Zenon DEF Packets
<1>c. b \in Int /\ e \in Int /\ f.points \in Seq(Samples)
  BY Zenon DEF FrameOK
<1>d. n # 0
  BY Zenon DEF Joins
<1>e. n >= 1 /\ n \in 1 .. n
  <2>. HIDE DEF n
  <2>. QED
    BY <1>b, <1>d
<1>1. n \in Nat /\ n >= 1 /\ n \in 1 .. n /\ b \in Int /\ e \in Int
      /\ f.points \in Seq(Samples)
  BY <1>b, <1>c, <1>e, Zenon
<1>f. b \in Int /\ e \in Int /\ Span \in Int /\ MaxOffset \in Nat /\ Span <= MaxOffset
  BY <1>c, Assumed
<1>2. s \in Seq(Samples) /\ Len(s) = n
      /\ \A i \in 1 .. n : /\ s[i].ts = Sample(h, t0, i)
                           /\ s[i].offset = Offset(b, Sample(h, t0, i))
                           /\ s[i].frame_cnt = h.frame_cnt
                           /\ s[i].data_type = h.data_type
                           /\ s[i].time_type = h.time_type
                           /\ s[i].by_window = w
  <2>1. Sampled(s, b, h, t0, w)
    BY <1>c, SamplePointsType, Zenon
  <2>. QED
    BY <2>1, Zenon DEF Sampled
<1>3. l \in Nat /\ DOMAIN f.points = 1 .. l
  BY <1>1, LenProperties, Zenon
<1>4. /\ g.points \in Seq(Samples)
      /\ Len(g.points) = l + n
      /\ \A i \in 1 .. l + n : g.points[i] = IF i <= l THEN f.points[i] ELSE s[i - l]
  <2>. DEFINE p == f.points
  <2>1. p \in Seq(Samples) /\ s \in Seq(Samples) /\ g.points = p \o s
    BY <1>0, <1>1, <1>2, Zenon
  <2>. HIDE DEF p, s
  <2>2. /\ p \o s \in Seq(Samples)
        /\ Len(p \o s) = Len(p) + Len(s)
        /\ \A i \in 1 .. Len(p) + Len(s) :
             (p \o s)[i] = IF i <= Len(p) THEN p[i] ELSE s[i - Len(p)]
    BY <2>1, ConcatProperties, Zenon
  <2>. QED
    BY <1>2, <2>1, <2>2, Zenon DEF p
<1>5. DOMAIN g.points = 1 .. l + n
  BY <1>4, LenProperties, Zenon
<1>6. last \in Int /\ t0 <= last /\ last <= t0 + Span
  BY <1>1, SampleBound, Zenon
<1>7. g.end_time \in Int /\ e <= g.end_time /\ last <= g.end_time
      /\ (g.end_time = e \/ g.end_time = last)
  <2>. HIDE DEF last, e
  <2>1. g.end_time = IF last > e THEN last ELSE e
    BY <1>0, Zenon DEF last, e
  <2>. QED
    BY <1>1, <1>6, <2>1
<1>. HIDE DEF s, l, last, n, b, e
<1>8. (\A j \in DOMAIN g.points : ~g.points[j].by_window)
        => ~w /\ (\A j \in DOMAIN f.points : ~f.points[j].by_window)
  <2>. SUFFICES ASSUME \A j \in DOMAIN g.points : ~g.points[j].by_window
                PROVE  ~w /\ (\A j \in DOMAIN f.points : ~f.points[j].by_window)
    BY Zenon
  <2>1. ~w
    <3>1. l + n \in 1 .. l + n /\ ~(l + n <= l) /\ (l + n) - l = n /\ n \in 1 .. n
      BY <1>1, <1>3
    <3>2. g.points[l + n] = s[n]
      BY <1>4, <3>1, Zenon
    <3>. QED
      BY <1>2, <1>5, <3>1, <3>2, Zenon
  <2>2. ASSUME NEW j \in DOMAIN f.points PROVE ~f.points[j].by_window
    <3>1. j \in 1 .. l + n /\ j <= l
      BY <1>1, <1>3, <2>2
    <3>2. g.points[j] = f.points[j]
      BY <1>4, <3>1, Zenon
    <3>. QED
      BY <1>5, <3>1, <3>2, Zenon
  <2>. QED
    BY <2>1, <2>2, Zenon
<1>9. ASSUME NEW i \in 1 .. n
      PROVE  /\ s[i].data_type = g.source_type
             /\ s[i].time_type = g.time_type
             /\ (\A j \in DOMAIN g.points : ~g.points[j].by_window)
                  => s[i].frame_cnt = g.frame_cnt
             /\ s[i].offset = (IF s[i].ts >= g.base_time THEN s[i].ts - g.base_time ELSE 0)
             /\ s[i].ts <= g.end_time
  <2>. DEFINE t == Sample(h, t0, i)
  <2>1. t \in Int /\ t0 <= t /\ t <= last
    BY SampleBound, Zenon DEF n, last
  <2>2. s[i].ts = t /\ s[i].offset = Offset(b, t)
    BY <1>2, Zenon
  <2>. HIDE DEF t
  <2>3. Offset(b, t) = IF t >= b THEN t - b ELSE 0
    <3>1. t >= b => t - b <= MaxOffset
      <4>1. CASE t0 >= b
        BY <1>a, <1>f, <1>6, <2>1, <4>1
      <4>2. CASE t0 < b
        BY <1>f, <1>6, <2>1, <4>2
      <4>. QED
        BY <1>1, <4>1, <4>2
    <3>. QED
      BY <1>f, <2>1, <3>1 DEF Offset
  <2>4. t <= g.end_time
    BY <1>6, <1>7, <2>1
  <2>5. s[i].offset = (IF s[i].ts >= g.base_time THEN s[i].ts - g.base_time ELSE 0)
    BY <1>0, <2>2, <2>3, Zenon
  <2>6. s[i].data_type = g.source_type /\ s[i].time_type = g.time_type
    BY <1>0, <1>2, Zenon
  <2>7. (\A j \in DOMAIN g.points : ~g.points[j].by_window)
          => s[i].frame_cnt = g.frame_cnt
    BY <1>0, <1>2, <1>8, Zenon
  <2>. QED
    BY <2>2, <2>4, <2>5, <2>6, <2>7, Zenon
<1>10. ASSUME NEW i \in 1 .. l
       PROVE  /\ f.points[i].data_type = g.source_type
              /\ f.points[i].time_type = g.time_type
              /\ (\A j \in DOMAIN g.points : ~g.points[j].by_window)
                   => f.points[i].frame_cnt = g.frame_cnt
              /\ f.points[i].offset = (IF f.points[i].ts >= g.base_time
                                         THEN f.points[i].ts - g.base_time ELSE 0)
              /\ f.points[i].ts <= g.end_time
  <2>1. /\ f.points[i].data_type = f.source_type
        /\ f.points[i].time_type = f.time_type
        /\ (\A j \in DOMAIN f.points : ~f.points[j].by_window)
             => f.points[i].frame_cnt = f.frame_cnt
        /\ f.points[i].offset = (IF f.points[i].ts >= f.base_time
                                   THEN f.points[i].ts - f.base_time ELSE 0)
        /\ f.points[i].ts <= f.end_time
    BY <1>0, <1>3, Zenon DEF FrameTrue
  <2>2. f.points[i].ts \in Int
    <3>1. f.points[i] \in Samples
      BY <1>1, <1>3, ElementOfSeq, Zenon DEF l
    <3>. QED
      BY <3>1, Zenon DEF Samples
  <2>3. f.points[i].ts <= g.end_time
    <3>. DEFINE x == f.points[i].ts
                y == g.end_time
    <3>1. x \in Int /\ x <= e
      BY <2>1, <2>2, Zenon DEF e
    <3>2. y \in Int /\ e \in Int /\ e <= y
      BY <1>1, <1>7, Zenon
    <3>. HIDE DEF x, y
    <3>3. x <= y
      BY <3>1, <3>2
    <3>. QED
      BY <3>3, Zenon DEF x, y
  <2>. QED
    BY <1>0, <1>8, <2>1, <2>3, Zenon DEF b
<1>11. ASSUME NEW i \in DOMAIN g.points
       PROVE  /\ g.points[i].data_type = g.source_type
              /\ g.points[i].time_type = g.time_type
              /\ (\A j \in DOMAIN g.points : ~g.points[j].by_window)
                   => g.points[i].frame_cnt = g.frame_cnt
              /\ g.points[i].offset = (IF g.points[i].ts >= g.base_time
                                         THEN g.points[i].ts - g.base_time ELSE 0)
              /\ g.points[i].ts <= g.end_time
  <2>1. i \in 1 .. l + n
    BY <1>5, Zenon
  <2>2. CASE i <= l
    <3>1. i \in 1 .. l
      BY <1>3, <1>b, <2>1, <2>2
    <3>2. g.points[i] = f.points[i]
      BY <1>4, <2>1, <2>2, Zenon
    <3>. QED
      BY <1>10, <3>1, <3>2, Zenon
  <2>3. CASE ~(i <= l)
    <3>1. i - l \in 1 .. n
      BY <1>1, <1>3, <2>1, <2>3
    <3>2. g.points[i] = s[i - l]
      BY <1>4, <2>1, <2>3, Zenon
    <3>. QED
      BY <1>9, <3>1, <3>2, Zenon
  <2>. QED
    BY <2>2, <2>3, Zenon
<1>12. g.end_time - g.base_time <= MaxOffset
  <2>1. CASE t0 >= b
    BY <1>a, <1>f, <1>6, <1>7, <2>1
  <2>2. CASE t0 < b
    BY <1>a, <1>f, <1>6, <1>7, <2>2
  <2>. QED
    BY <1>1, <2>1, <2>2
<1>13. FrameTrue(g)
  BY <1>11, <1>12, Zenon DEF FrameTrue
<1>14. l + n \in 1 .. l + n /\ ~(l + n <= l) /\ (l + n) - l = n /\ n \in 1 .. n
       /\ l + n # 0
  BY <1>1, <1>3
<1>15. g.points # <<>>
  <2>1. Len(<<>>) = 0
    BY Zenon
  <2>. QED
    BY <1>4, <1>14, <2>1, Zenon
<1>16. g.points[Len(g.points)] = s[n]
  BY <1>4, <1>14, Zenon
<1>17. g.points[Len(g.points)].by_window = w /\ g.points[Len(g.points)].ts = last
  BY <1>2, <1>14, <1>16, Zenon DEF last
<1>18. (\A j \in DOMAIN g.points : ~g.points[j].by_window) => h.frame_cnt = g.frame_cnt
  BY <1>0, <1>8, Zenon
<1>. QED
  BY <1>13, <1>15, <1>17, <1>18, Zenon DEF Enlarged, last, n

LEMMA AcceptTrue ==
  ASSUME TypeInv, HeaderInv, NEW h \in net, PushAccept(h)
  PROVE  /\ FrameTrue(cur')
         /\ cur'.points # <<>>
         /\ (\A j \in DOMAIN cur'.points : ~cur'.points[j].by_window)
              => h.frame_cnt = cur'.frame_cnt
         /\ cur'.points[Len(cur'.points)].by_window = ByWindow(h)
         /\ cur'.points[Len(cur'.points)].ts = Sample(h, T0(h), h.dot_num)
<1>. DEFINE f == Base(h)
            t0 == T0(h)
            w == ByWindow(h)
<1>1. /\ h \in Packets /\ h.dot_num # 0
  BY Zenon DEF TypeInv, SenderOK, PushAccept, NoPoints
<1>2. t0 \in Int /\ w \in BOOLEAN /\ FrameOK(f)
  BY MapType, ByWindowType, BaseType, Zenon
<1>3. Joins(h, t0, w, f)
  <2>. SUFFICES
         /\ FrameTrue(f)
         /\ h.data_type = f.source_type /\ h.time_type = f.time_type
         /\ (t0 >= f.base_time => t0 - f.base_time + Span <= MaxOffset)
         /\ f.end_time - f.base_time <= MaxOffset
         /\ (~w /\ (\A j \in DOMAIN f.points : ~f.points[j].by_window)
               => h.frame_cnt = f.frame_cnt)
    BY <1>1, Zenon DEF Joins
  <2>1. CASE Fresh(h)
    <3>1. f = NewFrame(h, t0)
      BY <2>1, Zenon DEF Base
    <3>. HIDE DEF f, t0
    <3>2. f.points = <<>> /\ f.base_time = t0 /\ f.end_time = t0
          /\ f.frame_cnt = h.frame_cnt /\ f.source_type = h.data_type
          /\ f.time_type = h.time_type
      BY <1>2, <3>1, NewFrameType, Zenon
    <3>3. FrameTrue(f)
      BY <3>2, NoPointsTrue, Zenon
    <3>4. /\ t0 >= f.base_time => t0 - f.base_time + Span <= MaxOffset
          /\ f.end_time - f.base_time <= MaxOffset
      BY <1>2, <3>2, Assumed
    <3>. QED
      BY <3>2, <3>3, <3>4, Zenon
  <2>2. CASE ~Fresh(h)
    <3>1. f = cur /\ Partial /\ ~Closes(h)
      BY <2>2, Zenon DEF Base, Fresh
    <3>2. ~ForcedClose(h, t0) /\ (~w => ~FrameChanged(h))
      BY <3>1, Zenon DEF Closes, Forced
    <3>3. FrameTrue(cur)
          /\ ((\A j \in DOMAIN cur.points : ~cur.points[j].by_window)
               => prev.have /\ prev.frame_cnt = cur.frame_cnt)
      BY <3>1, Zenon DEF HeaderInv
    <3>4. h.data_type = cur.source_type /\ h.time_type = cur.time_type
      BY <3>2, Zenon DEF ForcedClose
    <3>5. t0 >= cur.base_time => ~(t0 - cur.base_time + Span > MaxOffset)
      BY <3>2, Zenon DEF ForcedClose
    <3>6. cur.end_time - cur.base_time <= MaxOffset
      BY <3>1, <3>3, Zenon DEF FrameTrue, Partial
    <3>7. ~w /\ (\A j \in DOMAIN cur.points : ~cur.points[j].by_window)
            => h.frame_cnt = cur.frame_cnt
      BY <3>2, <3>3, Zenon DEF FrameChanged
    <3>8. t0 >= cur.base_time => t0 - cur.base_time + Span <= MaxOffset
      <4>. HIDE DEF t0
      <4>. QED
        BY <1>2, <3>1, <3>5, Assumed DEF FrameOK
    <3>. QED
      BY <3>1, <3>3, <3>4, <3>6, <3>7, <3>8, Zenon
  <2>. QED
    BY <2>1, <2>2, Zenon
<1>4. Joined(h, t0, w, f, cur')
  BY Accepted, Zenon
<1>. HIDE DEF f, t0
<1>5. Enlarged(h, t0, w, cur')
  BY <1>1, <1>2, <1>3, <1>4, AppendTrue, Zenon
<1>. QED
  BY <1>5, Zenon DEF Enlarged, t0

OutTrue == \A i \in DOMAIN out : FrameTrue(out[i])

LEMMA HeaderStep ==
  TypeInv /\ HeaderInv /\ OutTrue /\ [Next]_vars => HeaderInv' /\ OutTrue'
<1>. SUFFICES ASSUME TypeInv, HeaderInv, OutTrue, [Next]_vars
              PROVE  HeaderInv' /\ OutTrue'
  BY Zenon
<1>1. out' = <<>> => OutTrue'
  BY DEF OutTrue
<1>2. out' = <<Taken(cur)>> => OutTrue'
  <2>1. FrameTrue(cur)
    BY Zenon DEF HeaderInv
  <2>2. FrameTrue(Taken(cur))
    BY <2>1, TakenFields, SameHeader, Zenon
  <2>3. out' = <<Taken(cur)>> => \A i \in DOMAIN out' : out'[i] = Taken(cur)
    OBVIOUS
  <2>. QED
    BY <2>2, <2>3, Zenon DEF OutTrue
<1>3. UNCHANGED <<cur, prev>> => HeaderInv'
  BY Zenon DEF HeaderInv, Partial
<1>4. cur'.points = <<>> => HeaderInv'
  BY NoPointsTrue, Zenon DEF HeaderInv, Partial
<1>5. CASE Send
  BY <1>1, <1>3, <1>5, Zenon DEF Send, state
<1>6. CASE \E h \in net : Late_(h)
  BY <1>1, <1>3, <1>6, Zenon DEF Late_, PushLate
<1>7. CASE \E h \in net : Accept_(h)
  <2>1. PICK h \in net : PushAccept(h)
    BY <1>7, Zenon DEF Accept_
  <2>2. /\ FrameTrue(cur')
        /\ (\A j \in DOMAIN cur'.points : ~cur'.points[j].by_window)
             => h.frame_cnt = cur'.frame_cnt
    BY <2>1, AcceptTrue, Zenon
  <2>3. prev'.have /\ prev'.frame_cnt = h.frame_cnt
    BY <2>1, Zenon DEF PushAccept
  <2>4. HeaderInv'
    BY <2>2, <2>3, Zenon DEF HeaderInv
  <2>5. out' = <<Taken(cur)>> \/ out' = <<>>
    BY <2>1, Zenon DEF PushAccept
  <2>. QED
    BY <1>1, <1>2, <2>4, <2>5, Zenon
<1>8. CASE Flush /\ Rest
  <2>1. out' = <<Taken(cur)>> \/ out' = <<>>
    BY <1>8, Zenon DEF Flush
  <2>2. cur'.points = <<>>
    BY <1>8, EmptyFrameOK, Zenon DEF Flush, Partial
  <2>. QED
    BY <1>1, <1>2, <1>4, <2>1, <2>2, Zenon
<1>9. CASE Discard /\ Rest
  <2>1. cur'.points = <<>>
    BY <1>9, DiscardFacts, Zenon
  <2>2. out' = <<>>
    BY <1>9, Zenon DEF Discard
  <2>. QED
    BY <1>1, <1>4, <2>1, <2>2, Zenon
<1>10. CASE Rebase /\ Rest
  BY <1>1, <1>3, <1>10, Zenon DEF Rebase
<1>11. CASE SetPolicy /\ Rest
  BY <1>1, <1>3, <1>11, Zenon DEF SetPolicy
<1>12. CASE Nothing
  BY <1>1, <1>3, <1>12, Zenon DEF Nothing, state
<1>13. CASE UNCHANGED vars
  <2>1. OutTrue'
    BY <1>13, Zenon DEF OutTrue, vars
  <2>. QED
    BY <1>3, <1>13, <2>1, Zenon DEF vars, state
<1>. QED
  BY <1>5, <1>6, <1>7, <1>8, <1>9, <1>10, <1>11, <1>12, <1>13, Cases, Zenon

LEMMA HeaderInit == Init => HeaderInv /\ OutTrue
<1>. SUFFICES ASSUME Init PROVE HeaderInv /\ OutTrue
  BY Zenon
<1>1. cur.points = <<>>
  BY EmptyFrameOK, Zenon DEF Init
<1>2. HeaderInv
  BY <1>1, NoPointsTrue, Zenon DEF HeaderInv, Partial
<1>3. OutTrue
  <2>1. DOMAIN <<>> = {}
    OBVIOUS
  <2>. QED
    BY <2>1, InitValues, Zenon DEF OutTrue
<1>. QED
  BY <1>2, <1>3, Zenon

(* The header of every partial and every returned frame is true of each of its       *)
(* points, whatever the widths, the policy, the clock and the order of arrival.      *)
THEOREM FramesHeaderTrue == Spec => []HeaderTrue
<1>1. Init => TypeInv /\ HeaderInv /\ OutTrue
  BY TypeInit, HeaderInit, Zenon
<1>2. (TypeInv /\ HeaderInv /\ OutTrue) /\ [Next]_vars => (TypeInv /\ HeaderInv /\ OutTrue)'
  BY TypeStep, HeaderStep, Zenon
<1>3. TypeInv /\ HeaderInv /\ OutTrue => HeaderTrue
  <2>. SUFFICES ASSUME HeaderInv, OutTrue PROVE HeaderTrue
    BY Zenon
  <2>1. \A f \in {cur} \cup {out[i] : i \in DOMAIN out} : FrameTrue(f)
    BY Zenon DEF HeaderInv, OutTrue
  <2>2. FrameUniform
    BY <2>1, Zenon DEF FrameUniform, FrameTrue
  <2>3. OffsetsExact
    BY <2>1, Zenon DEF OffsetsExact, FrameTrue
  <2>. QED
    BY <2>2, <2>3, Zenon DEF HeaderTrue
<1>. QED
  BY <1>1, <1>2, <1>3, PTL DEF Spec

-----------------------------------------------------------------------------
(* The grid of the windows *)

(* The window of a frame after one closed by time is on the same grid, at least one  *)
(* window further.                                                                   *)
LEMMA GridNext ==
  ASSUME NEW w \in Nat \ {0}, NEW s \in Int, NEW o \in Int, NEW t \in Int, NEW n \in Nat,
         s >= o + n * w, (s - o) % w = 0, t >= s + w
  PROVE  LET g == s + w * ((t - s) \div w)
         IN g >= o + (n + 1) * w /\ (g - o) % w = 0
<1>. DEFINE a == s - o
            b == t - s
            p == a \div w
            q == b \div w
            g == s + w * q
<1>1. a \in Int /\ b \in Int
  OBVIOUS
<1>. HIDE DEF a, b
<1>2. p \in Int /\ q \in Int /\ a = w * p
  <2>1. /\ a \div w \in Int /\ b \div w \in Int
        /\ a = w * (a \div w) + (a % w)
    BY <1>1, DivMod, Zenon
  <2>2. a % w = 0 /\ w * (a \div w) \in Int
    BY <2>1, MulBound, Zenon DEF a
  <2>. QED
    BY <2>1, <2>2
<1>3. g >= s + w
  <2>1. s + w * ((t - s) \div w) >= s + w
    BY GridStart, Zenon
  <2>. QED
    BY <2>1, Zenon DEF b
<1>. HIDE DEF p, q
<1>4. w * (p + q) = w * p + w * q /\ w * p \in Int /\ w * q \in Int
  BY <1>2, MulSub, MulBound
<1>5. (n + 1) * w = n * w + w /\ n * w \in Int
  BY SMT
<1>6. g >= o + (n + 1) * w
  <2>. DEFINE x == n * w
              y == w * q
  <2>1. x \in Int /\ y \in Int /\ s >= o + x /\ s + y >= s + w /\ (n + 1) * w = x + w
    BY <1>3, <1>4, <1>5, Zenon
  <2>. HIDE DEF x, y
  <2>2. s + y >= o + (x + w)
    BY <2>1
  <2>. QED
    BY <2>1, <2>2, Zenon DEF y
<1>7. (g - o) % w = 0
  <2>. DEFINE c == g - o
              r == p + q
  <2>1. c \in Int /\ r \in Int /\ c = w * r + 0
    BY <1>2, <1>4 DEF a
  <2>. HIDE DEF c, r
  <2>2. c % w = 0
    BY <2>1, DivUnique
  <2>. QED
    BY <2>2, Zenon DEF c
<1>. QED
  BY <1>6, <1>7, Zenon DEF q, b

(* Where the window of the packet starts, and the frame it joins. *)
LEMMA WindowFacts ==
  ASSUME TypeInv, NEW h \in net, PushAccept(h)
  PROVE  /\ ~Fresh(h) => /\ Partial /\ ~Closes(h)
                         /\ window_start' = window_start
                         /\ cur'.base_time = cur.base_time
                         /\ hist'.origin = hist.origin /\ hist'.since = hist.since
         /\ Fresh(h) => cur'.base_time = T0(h)
         /\ Fresh(h) /\ ~OnGrid(h) => /\ window_start' = T0(h)
                                      /\ hist'.origin = T0(h) /\ hist'.since = 0
         /\ OnGrid(h) => /\ Fresh(h) /\ Partial
                         /\ T0(h) >= window_start + policy.window
                         /\ window_start' = window_start
                              + policy.window * ((T0(h) - window_start) \div policy.window)
                         /\ hist'.origin = hist.origin /\ hist'.since = hist.since + 1
<1>1. window_start' = IF Fresh(h) THEN WindowStart(OnGrid(h), T0(h)) ELSE window_start
  BY Zenon DEF PushAccept
<1>2. /\ hist'.origin = IF Fresh(h) /\ ~OnGrid(h) THEN T0(h) ELSE hist.origin
      /\ hist'.since = IF OnGrid(h) THEN hist.since + 1
                       ELSE IF Fresh(h) THEN 0 ELSE hist.since
  BY AcceptedHistory, Zenon
<1>3. cur'.base_time = Base(h).base_time
  BY Accepted, Zenon DEF Joined
<1>4. OnGrid(h) => Fresh(h) /\ Partial /\ T0(h) >= window_start + policy.window
  BY Zenon DEF OnGrid, Closes, Fresh, Expired
<1>5. Fresh(h) => Base(h).base_time = T0(h)
  BY MapType, NewFrameType, Zenon DEF Base
<1>6. ~Fresh(h) => Base(h) = cur /\ Partial /\ ~Closes(h)
  BY Zenon DEF Base, Fresh
<1>. QED
  BY <1>1, <1>2, <1>3, <1>4, <1>5, <1>6, Zenon DEF WindowStart

LEMMA GridAccept ==
  ASSUME TypeInv, GridInv, NEW h \in net, PushAccept(h)
  PROVE  GridInv'
<1>. DEFINE w == policy.window
            t == T0(h)
            s == window_start
            o == hist.origin
            n == hist.since
            s1 == window_start'
            o1 == hist'.origin
            n1 == hist'.since
            b1 == cur'.base_time
<1>1. w \in Nat \ {0} /\ t \in Int /\ s \in Int /\ o \in Int /\ n \in Nat
      /\ cur.base_time \in Int /\ policy' = policy
  BY Assumed, MapType, Zenon DEF TypeInv, DataOK, HistoryOK, FrameOK, PushAccept
<1>2. Partial => /\ s <= cur.base_time
                 /\ s >= o + n * w
                 /\ n > 0 => (s - o) % w = 0
                 /\ n = 0 => s = o
  BY Zenon DEF GridInv, NoDrift, Partial
<1>3. SUFFICES /\ s1 <= b1
               /\ s1 >= o1 + n1 * w
               /\ n1 > 0 => (s1 - o1) % w = 0
               /\ n1 = 0 => s1 = o1
  BY <1>1, Zenon DEF GridInv, NoDrift, Partial
<1>4. CASE ~Fresh(h)
  <2>1. Partial /\ s1 = s /\ b1 = cur.base_time /\ o1 = o /\ n1 = n
    BY <1>4, WindowFacts, Zenon
  <2>. QED
    BY <1>2, <2>1, Zenon
<1>5. CASE Fresh(h) /\ ~OnGrid(h)
  <2>1. s1 = t /\ b1 = t /\ o1 = t /\ n1 = 0
    BY <1>5, WindowFacts, Zenon
  <2>. HIDE DEF w, t, s1, o1, n1, b1
  <2>2. 0 * w = 0
    BY <1>1
  <2>. QED
    BY <1>1, <2>1, <2>2
<1>6. CASE OnGrid(h)
  <2>1. Partial /\ t >= s + w /\ b1 = t /\ o1 = o /\ n1 = n + 1
        /\ s1 = s + w * ((t - s) \div w)
    BY <1>6, WindowFacts, Zenon
  <2>. HIDE DEF w, t, s, o, n, s1, o1, n1, b1
  <2>2. s1 <= t
    BY <1>1, <2>1, GridStart, Zenon
  <2>3. (s - o) % w = 0
    <3>1. CASE n > 0
      BY <1>2, <2>1, <3>1, Zenon
    <3>2. CASE n = 0
      <4>1. s - o = 0
        BY <1>1, <1>2, <2>1, <3>2
      <4>2. 0 % w = 0
        <5>1. 0 = w * 0 + 0 /\ 0 < w
          BY <1>1
        <5>. QED
          BY <1>1, <5>1, DivUnique
      <4>. QED
        BY <4>1, <4>2, Zenon
    <3>. QED
      BY <1>1, <3>1, <3>2
  <2>4. s1 >= o + (n + 1) * w /\ (s1 - o) % w = 0
    BY <1>1, <1>2, <2>1, <2>3, GridNext, Zenon
  <2>5. n + 1 # 0
    BY <1>1
  <2>. QED
    BY <2>1, <2>2, <2>4, <2>5, Zenon
<1>. QED
  BY <1>4, <1>5, <1>6, Zenon

LEMMA GridStep == TypeInv /\ GridInv /\ [Next]_vars => GridInv'
<1>. SUFFICES ASSUME TypeInv, GridInv, [Next]_vars PROVE GridInv'
  BY Zenon
<1>1. cur'.points = <<>> => GridInv'
  BY Zenon DEF GridInv, NoDrift, Partial
<1>2. ASSUME UNCHANGED <<cur, policy, window_start>>, hist'.origin = hist.origin,
             hist'.since = hist.since
      PROVE  GridInv'
  BY <1>2, Zenon DEF GridInv, NoDrift, Partial
<1>3. Quiet.origin = hist.origin /\ Quiet.since = hist.since
  BY QuietType, Zenon
<1>4. CASE Send
  BY <1>2, <1>3, <1>4, Zenon DEF Send, state
<1>5. CASE \E h \in net : Late_(h)
  <2>1. PICK h \in net : PushLate(h)
    BY <1>5, Zenon DEF Late_
  <2>2. hist'.origin = hist.origin /\ hist'.since = hist.since
    BY <2>1, LateFacts, Zenon
  <2>. QED
    BY <1>2, <2>1, <2>2, Zenon DEF PushLate
<1>6. CASE \E h \in net : Accept_(h)
  BY <1>6, GridAccept, Zenon DEF Accept_
<1>7. CASE Flush /\ Rest
  BY <1>1, <1>7, EmptyFrameOK, Zenon DEF Flush, Partial
<1>8. CASE Discard /\ Rest
  BY <1>1, <1>8, DiscardFacts, Zenon
<1>9. CASE Rebase /\ Rest
  BY <1>2, <1>3, <1>9, Zenon DEF Rebase
<1>10. CASE SetPolicy /\ Rest
  <2>. DEFINE v == policy'.window
              s == window_start
  <2>1. cur' = cur /\ window_start' = s /\ hist'.origin = s /\ hist'.since = 0
    BY <1>10, SetPolicyFacts, Zenon DEF SetPolicy
  <2>2. v \in Nat /\ s \in Int
    BY <1>10, Assumed, Zenon DEF SetPolicy, TypeInv, DataOK
  <2>3. s >= s + 0 * v
    <3>. HIDE DEF v, s
    <3>. QED
      BY <2>2
  <2>4. cur.points # <<>> => s <= cur.base_time
    BY Zenon DEF GridInv, NoDrift
  <2>5. ~(0 > 0)
    OBVIOUS
  <2>. QED
    BY <2>1, <2>3, <2>4, <2>5, Zenon DEF GridInv, NoDrift
<1>11. CASE Nothing
  BY <1>2, <1>3, <1>11, Zenon DEF Nothing, state
<1>12. CASE UNCHANGED vars
  BY <1>2, <1>12, Zenon DEF vars, state
<1>. QED
  BY <1>4, <1>5, <1>6, <1>7, <1>8, <1>9, <1>10, <1>11, <1>12, Cases, Zenon

(* Time windows do not drift, for every length of the window and every spacing of    *)
(* the packets.                                                                      *)
THEOREM FramesNoDrift == Spec => []NoDrift
<1>1. Init => TypeInv /\ GridInv
  <2>1. Init => cur.points = <<>>
    BY EmptyFrameOK, Zenon DEF Init
  <2>. QED
    BY <2>1, TypeInit, Zenon DEF GridInv, NoDrift, Partial
<1>2. (TypeInv /\ GridInv) /\ [Next]_vars => (TypeInv /\ GridInv)'
  BY TypeStep, GridStep, Zenon
<1>3. GridInv => NoDrift
  BY Zenon DEF GridInv
<1>. QED
  BY <1>1, <1>2, <1>3, PTL DEF Spec

(* The last point of the partial frame, when its packet joined by the time window,   *)
(* is near the window and near the base time.                                        *)
InWindow ==
  LET p == cur'.points[Len(cur'.points)]
  IN (counters'.packets > counters.packets /\ p.by_window)
       => /\ p.ts - Span < window_start' + policy.window
          /\ p.ts + policy.window > cur'.base_time

LEMMA WindowAccept ==
  ASSUME TypeInv, HeaderInv, NEW h \in net, PushAccept(h)
  PROVE  InWindow
<1>. DEFINE w == policy.window
            t == T0(h)
            s == window_start
            s1 == window_start'
            b1 == cur'.base_time
            p == cur'.points[Len(cur'.points)]
            ts == p.ts
<1>1. w \in Nat \ {0} /\ t \in Int /\ s \in Int /\ cur.base_time \in Int
  BY Assumed, MapType, Zenon DEF TypeInv, DataOK, FrameOK
<1>0. h \in Packets /\ h.dot_num # 0
  BY Zenon DEF TypeInv, SenderOK, PushAccept, NoPoints
<1>2. p.by_window = ByWindow(h) /\ ts = Sample(h, t, h.dot_num)
  BY AcceptTrue, Zenon
<1>3. ts \in Int /\ t <= ts /\ ts <= t + Span
  <2>1. h.dot_num \in 1 .. h.dot_num
    BY <1>0, Assumed DEF Packets
  <2>2. Sample(h, t, h.dot_num) \in Int /\ t <= Sample(h, t, h.dot_num)
        /\ Sample(h, t, h.dot_num) <= t + Span
    BY <1>0, <1>1, <2>1, SampleBound, Zenon
  <2>. QED
    BY <1>2, <2>2, Zenon
<1>4. SUFFICES ASSUME ByWindow(h)
               PROVE  ts - Span < s1 + w /\ ts + w > b1
  BY <1>2, Zenon DEF InWindow
<1>5. CASE ~Fresh(h)
  <2>1. Partial /\ ~Closes(h) /\ s1 = s /\ b1 = cur.base_time
    BY <1>5, WindowFacts, Zenon
  <2>2. ~(t >= s + w) /\ ~(t + w <= cur.base_time)
    BY <1>4, <2>1, Zenon DEF Closes, Expired, Forced, ForcedClose
  <2>. HIDE DEF w, t, s, s1, b1, p, ts
  <2>. QED
    BY <1>1, <1>3, <2>1, <2>2, Assumed
<1>6. CASE Fresh(h) /\ ~OnGrid(h)
  <2>1. s1 = t /\ b1 = t
    BY <1>6, WindowFacts, Zenon
  <2>. HIDE DEF w, t, s, s1, b1, p, ts
  <2>. QED
    BY <1>1, <1>3, <2>1, Assumed
<1>7. CASE OnGrid(h)
  <2>1. b1 = t /\ s1 = s + w * ((t - s) \div w)
    BY <1>7, WindowFacts, Zenon
  <2>. HIDE DEF w, t, s, s1, b1, p, ts
  <2>2. s1 \in Int /\ t < s1 + w
    BY <1>1, <2>1, GridStart, Zenon
  <2>. QED
    BY <1>1, <1>3, <2>1, <2>2, Assumed
<1>. QED
  BY <1>5, <1>6, <1>7, Zenon

LEMMA WindowStep == TypeInv /\ HeaderInv /\ [Next]_vars => [InWindow]_vars
<1>. SUFFICES ASSUME TypeInv, HeaderInv, [Next]_vars PROVE [InWindow]_vars
  BY Zenon
<1>1. ASSUME counters'.packets = counters.packets PROVE InWindow
  <2>1. counters.packets \in Int
    BY Zenon DEF TypeInv, DataOK, CountersOK
  <2>2. ~(counters.packets > counters.packets)
    BY <2>1
  <2>. QED
    BY <1>1, <2>2, Zenon DEF InWindow
<1>2. CASE Send
  BY <1>1, <1>2, Zenon DEF Send, state
<1>3. CASE \E h \in net : Late_(h)
  <2>1. PICK h \in net : PushLate(h)
    BY <1>3, Zenon DEF Late_
  <2>2. counters' = Counted(h)
    BY <2>1, Zenon DEF PushLate
  <2>. QED
    BY <1>1, <2>2, CountedType, Zenon
<1>4. CASE \E h \in net : Accept_(h)
  BY <1>4, WindowAccept, Zenon DEF Accept_
<1>5. CASE Flush /\ Rest
  BY <1>1, <1>5, FlushFacts, Zenon
<1>6. CASE Discard /\ Rest
  BY <1>1, <1>6, DiscardFacts, Zenon
<1>7. CASE Rebase /\ Rest
  BY <1>1, <1>7, Zenon DEF Rebase
<1>8. CASE SetPolicy /\ Rest
  BY <1>1, <1>8, Zenon DEF SetPolicy
<1>9. CASE Nothing
  BY <1>1, <1>9, Zenon DEF Nothing, state
<1>10. CASE UNCHANGED vars
  BY <1>10, Zenon
<1>. QED
  BY <1>2, <1>3, <1>4, <1>5, <1>6, <1>7, <1>8, <1>9, <1>10, Cases, Zenon

(* Under the time window no packet joins a frame a window or more after the window   *)
(* start or before the base time, for every policy and every step of the clock.      *)
THEOREM FramesWindowHolds == Spec => WindowHolds
<1>1. Init => TypeInv /\ HeaderInv /\ OutTrue
  BY TypeInit, HeaderInit
<1>2. (TypeInv /\ HeaderInv /\ OutTrue) /\ [Next]_vars => (TypeInv /\ HeaderInv /\ OutTrue)'
  BY TypeStep, HeaderStep
<1>3. (TypeInv /\ HeaderInv /\ OutTrue) /\ [Next]_vars => [InWindow]_vars
  BY WindowStep, Zenon
<1>4. Spec => [][InWindow]_vars
  BY <1>1, <1>2, <1>3, PTL DEF Spec
<1>. QED
  BY <1>4, Zenon DEF WindowHolds, InWindow

-----------------------------------------------------------------------------
(* The order of the frames *)

(* The fields of the packets on the network that order them. *)
LEMMA NetNumbers ==
  ASSUME TypeInv, NEW g \in net
  PROVE  /\ g.n \in Int /\ g.udp \in Int /\ g.frame \in Int
         /\ g.frame_cnt = g.frame % FrameMod
         /\ lidar.n \in Int /\ lidar.udp \in Int /\ lidar.frame \in Int
         /\ hist.top \in Int /\ hist.frame \in Int
BY DEF TypeInv, SenderOK, DataOK, HistoryOK, Packets

LEMMA OrderSend ==
  ASSUME TypeInv, OrderInv, ~PerFrameReset, InFlight <= FrameMod, Send
  PROVE  OrderInv'
<1>. DEFINE n == lidar.n
            u == lidar.udp
            f == lidar.frame
<1>1. PICK p \in Packets :
        /\ net' = {h \in net : h.n > n - InFlight} \cup {p}
        /\ p.n = n
        /\ p.udp >= u
        /\ p.frame \in f .. f + 1
        /\ lidar'.n = n + 1 /\ lidar'.udp = p.udp + 1 /\ lidar'.frame = p.frame
  BY SendFacts, Zenon
<1>2. n \in Int /\ u \in Int /\ f \in Int /\ p.udp \in Int /\ p.frame \in Int
      /\ hist.top \in Int /\ hist.frame \in Int
      /\ InFlight \in Int /\ FrameMod \in Int /\ FrameMod >= 1
  BY Assumed DEF TypeInv, SenderOK, DataOK, HistoryOK, Packets
<1>3. f <= p.frame /\ p.frame <= f + 1
  BY <1>1, <1>2
<1>4. ASSUME NEW g \in net
      PROVE  g.n \in Int /\ g.udp \in Int /\ g.frame \in Int
             /\ g.udp < u /\ g.frame <= f /\ g.n < n /\ f - g.frame < n - g.n
  BY NetNumbers, Zenon DEF OrderInv
<1>5. UNCHANGED <<drops, prev>> /\ hist'.top = hist.top /\ hist'.frame = hist.frame
      /\ hist'.windowed = hist.windowed
  BY QuietType, Zenon DEF Send, state
<1>. HIDE DEF n, u, f
<1>6. ASSUME NEW g \in net' PROVE (g \in net /\ g.n > n - InFlight) \/ g = p
  BY <1>1, <1>6, Zenon
<1>7. ASSUME NEW g \in net'
      PROVE  /\ g.udp < lidar'.udp /\ g.frame <= lidar'.frame /\ g.n < lidar'.n
             /\ lidar'.frame - g.frame < lidar'.n - g.n
             /\ lidar'.n - g.n <= FrameMod
  <2>. DEFINE m == lidar'.n
              v == lidar'.udp
              e == lidar'.frame
  <2>0. m = n + 1 /\ v = p.udp + 1 /\ e = p.frame
    BY <1>1, Zenon
  <2>. HIDE DEF m, v, e
  <2>1. CASE g = p
    <3>1. p.udp < v /\ p.frame <= e /\ p.n < m
          /\ e - p.frame < m - p.n /\ m - p.n <= FrameMod
      BY <1>1, <1>2, <2>0
    <3>. QED
      BY <2>1, <3>1, Zenon DEF m, v, e
  <2>2. CASE g \in net /\ g.n > n - InFlight
    <3>1. g.udp < v /\ g.frame <= e /\ g.n < m
          /\ e - g.frame < m - g.n /\ m - g.n <= FrameMod
      BY <1>1, <1>2, <1>3, <1>4, <2>0, <2>2
    <3>. QED
      BY <3>1, Zenon DEF m, v, e
  <2>. QED
    BY <1>6, <1>7, <2>1, <2>2, Zenon
<1>8. ASSUME NEW g \in net', NEW h \in net', g.udp <= h.udp PROVE g.frame <= h.frame
  <2>1. CASE h = p
    <3>1. CASE g = p
      BY <1>2, <2>1, <3>1
    <3>2. CASE g \in net
      BY <1>2, <1>3, <1>4, <2>1, <3>2
    <3>. QED
      BY <1>6, <1>8, <3>1, <3>2, Zenon
  <2>2. CASE h \in net
    <3>1. CASE g = p
      BY <1>1, <1>2, <1>4, <1>8, <2>2, <3>1
    <3>2. CASE g \in net
      BY <1>8, <2>2, <3>2, Zenon DEF OrderInv
    <3>. QED
      BY <1>6, <1>8, <3>1, <3>2, Zenon
  <2>. QED
    BY <1>6, <1>8, <2>1, <2>2, Zenon
<1>9. ASSUME prev.have
      PROVE  /\ prev.frame_cnt = hist.frame % FrameMod
             /\ hist.top < p.udp + 1 /\ hist.frame <= p.frame
             /\ ~hist.windowed =>
                  \A g \in net' : g.udp <= hist.top => g.frame <= hist.frame
  <2>1. /\ prev.frame_cnt = hist.frame % FrameMod
        /\ hist.top < u /\ hist.frame <= f
        /\ ~hist.windowed => \A g \in net : g.udp <= hist.top => g.frame <= hist.frame
    BY <1>9, Zenon DEF OrderInv, u, f
  <2>2. hist.top < p.udp + 1 /\ hist.frame <= p.frame /\ ~(p.udp <= hist.top)
    BY <1>1, <1>2, <1>3, <2>1
  <2>. QED
    BY <1>6, <2>1, <2>2, Zenon
<1>10. drops'.have => prev'.have
  BY <1>5, Zenon DEF OrderInv
<1>. QED
  BY <1>1, <1>5, <1>7, <1>8, <1>9, <1>10, Zenon DEF OrderInv

(* The packet of another frame that push() finds behind the newest is of an earlier  *)
(* frame; the newest packet and the one accepted last stay what they were.           *)
LEMMA OrderLate ==
  ASSUME TypeInv, DropsInv, OrderInv, ~PerFrameReset, NEW h \in net,
         WithinHalfCycle(h), PushLate(h), Rest
  PROVE  OrderInv' /\ DiscardedIsOlder'
<1>1. Behind(h) /\ prev.have /\ h.frame_cnt # prev.frame_cnt
  <2>1. Observe(h.udp_cnt, FrameChanged(h)).reordered /\ FrameChanged(h)
    BY Zenon DEF PushLate, Late
  <2>2. drops.have => drops.last = hist.top % UdpMod
    BY Zenon DEF DropsInv
  <2>. QED
    BY <2>1, <2>2, ObserveExact, Zenon DEF FrameChanged
<1>2. hist'.top = hist.top /\ hist'.frame = hist.frame /\ hist'.packet = h
      /\ hist'.windowed = hist.windowed
  BY <1>1, LateFacts, WitnessedType, Zenon
<1>3. UNCHANGED <<prev, net, lidar>>
  BY Zenon DEF PushLate, Rest
<1>4. OrderInv'
  BY <1>1, <1>2, <1>3, Zenon DEF OrderInv
<1>5. ASSUME ~hist.windowed PROVE h.frame < hist.frame
  <2>1. h.frame <= hist.frame
    BY <1>1, <1>5, Zenon DEF OrderInv, Behind
  <2>2. h.frame # hist.frame
    BY <1>1, NetNumbers, Zenon DEF OrderInv
  <2>3. h.frame \in Int /\ hist.frame \in Int
    BY NetNumbers, Zenon
  <2>. QED
    BY <2>1, <2>2, <2>3
<1>. QED
  BY <1>2, <1>4, <1>5, Zenon DEF DiscardedIsOlder

(* A packet behind the newest that joins by frame_cnt is of the frame of the packet  *)
(* accepted last: two frames of the same frame_cnt are not on the network together.  *)
LEMMA OrderBehind ==
  ASSUME TypeInv, DropsInv, OrderInv, ~PerFrameReset, NEW h \in net,
         WithinHalfCycle(h), PushAccept(h), Behind(h), ~ByWindow(h), ~hist.windowed
  PROVE  h.frame = hist.frame
<1>1. drops.have => drops.last = hist.top % UdpMod
  BY Zenon DEF DropsInv
<1>2. Observe(h.udp_cnt, FrameChanged(h)).reordered
  BY <1>1, ObserveExact, Zenon
<1>3. ~FrameChanged(h)
  BY <1>2, Zenon DEF PushAccept, Late, ByWindow
<1>4. prev.have /\ h.udp <= hist.top
  BY Zenon DEF Behind, Restarts, OrderInv
<1>5. h.frame_cnt = prev.frame_cnt
  BY <1>3, <1>4, Zenon DEF FrameChanged
<1>. DEFINE a == h.frame
            b == hist.frame
            f == lidar.frame
            d == lidar.n - h.n
<1>6. a <= b /\ b <= f /\ f - a < d /\ d <= FrameMod /\ a % FrameMod = b % FrameMod
  BY <1>4, <1>5, NetNumbers, Zenon DEF OrderInv
<1>7. a \in Int /\ b \in Int /\ f \in Int /\ d \in Int
  BY NetNumbers
<1>. HIDE DEF a, b, f, d
<1>8. FrameMod \in Nat \ {0} /\ a - b < FrameMod /\ b - a < FrameMod
  BY <1>6, <1>7, Assumed
<1>9. a = b
  BY <1>6, <1>7, <1>8, SameRemainder, Zenon
<1>. QED
  BY <1>9, Zenon DEF a, b

LEMMA OrderAccept ==
  ASSUME TypeInv, DropsInv, OrderInv, ~PerFrameReset, NEW h \in net,
         WithinHalfCycle(h), PushAccept(h), Rest
  PROVE  OrderInv'
<1>1. /\ hist'.top = IF Behind(h) THEN hist.top ELSE h.udp
      /\ hist'.frame = h.frame
      /\ hist'.windowed = (ByWindow(h) \/ (hist.windowed /\ h.udp <= hist.top))
  BY AcceptedHistory, WitnessedType, Zenon
<1>2. UNCHANGED <<net, lidar>> /\ prev'.have /\ prev'.frame_cnt = h.frame_cnt
  BY Zenon DEF PushAccept, Rest
<1>3. h.udp < lidar.udp /\ h.frame <= lidar.frame /\ h.frame_cnt = h.frame % FrameMod
  BY NetNumbers, Zenon DEF OrderInv
<1>4. Behind(h) => h.udp <= hist.top /\ hist.top < lidar.udp /\ prev.have
  BY Zenon DEF Behind, Restarts, OrderInv
<1>5. ASSUME ~hist'.windowed, NEW g \in net, g.udp <= hist'.top PROVE g.frame <= h.frame
  <2>1. CASE ~Behind(h)
    BY <1>1, <1>5, <2>1, Zenon DEF OrderInv
  <2>2. CASE Behind(h)
    <3>1. ~ByWindow(h) /\ ~hist.windowed /\ g.udp <= hist.top
      BY <1>1, <1>4, <1>5, <2>2, Zenon
    <3>2. h.frame = hist.frame
      BY <2>2, <3>1, OrderBehind, Zenon
    <3>. QED
      BY <1>4, <2>2, <3>1, <3>2, Zenon DEF OrderInv
  <2>. QED
    BY <2>1, <2>2, Zenon
<1>. QED
  BY <1>1, <1>2, <1>3, <1>4, <1>5, Zenon DEF OrderInv

LEMMA OrderStep ==
  ~PerFrameReset /\ InFlight <= FrameMod /\ TypeInv /\ DropsInv /\ OrderInv
    /\ DiscardedIsOlder /\ [Next]_vars => OrderInv' /\ DiscardedIsOlder'
<1>. SUFFICES ASSUME ~PerFrameReset, InFlight <= FrameMod, TypeInv, DropsInv, OrderInv,
                     DiscardedIsOlder, [Next]_vars
              PROVE  OrderInv' /\ DiscardedIsOlder'
  BY Zenon
<1>1. hist'.skipped = FALSE => DiscardedIsOlder'
  BY Zenon DEF DiscardedIsOlder
<1>2. ASSUME Rest, prev' = prev, drops'.have => drops.have, hist'.top = hist.top,
             hist'.frame = hist.frame, hist'.windowed = hist.windowed
      PROVE  OrderInv'
  BY <1>2, Zenon DEF OrderInv, Rest
<1>3. Quiet.top = hist.top /\ Quiet.frame = hist.frame /\ Quiet.skipped = FALSE
      /\ Quiet.windowed = hist.windowed
  BY QuietType, Zenon
<1>4. CASE Send
  BY <1>1, <1>3, <1>4, OrderSend, Zenon DEF Send
<1>5. CASE \E h \in net : Late_(h)
  BY <1>5, OrderLate, Zenon DEF Late_
<1>6. CASE \E h \in net : Accept_(h)
  <2>1. PICK h \in net : WithinHalfCycle(h) /\ PushAccept(h) /\ Rest
    BY <1>6, Zenon DEF Accept_
  <2>2. hist'.skipped = FALSE
    BY <2>1, AcceptedHistory, Zenon
  <2>. QED
    BY <1>1, <2>1, <2>2, OrderAccept, Zenon
<1>7. CASE Flush /\ Rest
  BY <1>1, <1>2, <1>7, FlushFacts, Zenon DEF Flush
<1>8. CASE Discard /\ Rest
  BY <1>1, <1>2, <1>3, <1>8, Zenon DEF Discard
<1>9. CASE Rebase /\ Rest
  <2>1. drops'.have = FALSE
    BY <1>9, Zenon DEF Rebase, TypeInv, DataOK, DropsOK
  <2>. QED
    BY <1>1, <1>2, <1>3, <1>9, <2>1, Zenon DEF Rebase
<1>10. CASE SetPolicy /\ Rest
  BY <1>1, <1>2, <1>10, SetPolicyFacts, Zenon DEF SetPolicy
<1>11. CASE Nothing
  BY <1>1, <1>2, <1>3, <1>11, Zenon DEF Nothing, state
<1>12. CASE UNCHANGED vars
  BY <1>2, <1>12, Zenon DEF vars, state, Rest, DiscardedIsOlder
<1>. QED
  BY <1>4, <1>5, <1>6, <1>7, <1>8, <1>9, <1>10, <1>11, <1>12, Cases, Zenon

(* push() discards only packets of a frame earlier than that of the packet accepted  *)
(* last, when udp_cnt does not restart with the frame and a packet is delayed by at  *)
(* most as many packets as frame_cnt has values.                                     *)
THEOREM FramesDiscardedIsOlder ==
  ~PerFrameReset /\ InFlight <= FrameMod => (Spec => []DiscardedIsOlder)
<1>. SUFFICES ASSUME ~PerFrameReset, InFlight <= FrameMod PROVE Spec => []DiscardedIsOlder
  BY Zenon
<1>. DEFINE Inv == TypeInv /\ DropsInv /\ OrderInv /\ DiscardedIsOlder
<1>1. Init => Inv
  <2>1. Init => TypeInv /\ DropsInv
    BY TypeInit, DropsInit, Zenon
  <2>2. Init => OrderInv /\ DiscardedIsOlder
    BY InitValues, Zenon DEF OrderInv, DiscardedIsOlder
  <2>. QED
    BY <2>1, <2>2, Zenon
<1>2. Inv /\ [Next]_vars => Inv'
  BY TypeStep, DropsStep, OrderStep, Zenon
<1>3. Inv => DiscardedIsOlder
  BY Zenon
<1>. HIDE DEF Inv
<1>. QED
  BY <1>1, <1>2, <1>3, PTL DEF Spec
=============================================================================
