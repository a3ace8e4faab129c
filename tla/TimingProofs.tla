---------------------------- MODULE TimingProofs ----------------------------
(***************************************************************************)
(* Proofs about what waits for a LiDAR's answers: the deadlines of a       *)
(* Device, the collection of the firmware log, and discovery.              *)
(*                                                                         *)
(* Timing, for every value of the time outs: the deadlines the receive     *)
(* thread keeps (DeadlineInv), the wait of the worker for the power-down   *)
(* (WaitInv) and the reconnection after an acknowledged reboot()           *)
(* (RebootInv).                                                            *)
(*                                                                         *)
(* FirmwareLog, for every number of calls, files and chunks: what the      *)
(* caller knows of the collection (CommandInv), and that a gap in a file   *)
(* is reported (LidarInv, ChunkInv).                                       *)
(*                                                                         *)
(* Discovery, for every set of LiDARs, addresses and answers: a discovery  *)
(* that succeeds has found what it was asked for (FoundInv).               *)
(***************************************************************************)
EXTENDS Timing, FirmwareLog, Discovery, TLAPS


-----------------------------------------------------------------------------
(* Timing *)

Age == Nat \cup {NoAge}

(* The times of the receive thread and of the Device. *)
TimeOK ==
  /\ push_age \in Nat /\ poll \in Nat /\ next_stats \in Nat /\ partial_age \in Age
  /\ sent_age \in Age /\ told \in Age
  /\ w_sent \in Nat /\ w_left \in Nat /\ u_left \in Nat /\ l_left \in Nat

(* Where the threads and the LiDAR are. *)
PlaceOK ==
  /\ rx_at \in {"tick", "poll"}
  /\ worker \in {"idle", "woken", "power", "try", "attempt", "backoff"}
  /\ user \in {"idle", "arm", "request"}
  /\ lidar \in {"up", "dying", "error", "down"}
  /\ health \in {"run", "error"} /\ pushed \in {"none", "run", "error"}

(* What is left of the poll ends before either deadline has been missed. *)
DeadlineInv ==
  /\ poll <= MaxPoll
  /\ connected => /\ push_age <= PushTimeout + MaxPoll
                  /\ rx_at = "poll" => push_age + poll <= PushTimeout + MaxPoll
  /\ partial_age # NoAge => /\ partial_age <= Window
                            /\ rx_at = "poll" => partial_age + poll <= Window

(* Until the worker has passed its wait it knows of the reboot() a caller was    *)
(* told of, and of the push into ERROR that followed it; its sleep ends before   *)
(* the cap, and half a push timeout after a push or the request.                 *)
WaitInv ==
  /\ sent_age # NoAge => sent_age <= PushTimeout /\ told = sent_age
  /\ worker = "power" => /\ w_sent + w_left <= PushTimeout
                         /\ w_left > 0 => push_age + w_left <= Half \/ w_sent + w_left <= Half
  /\ worker \in {"idle", "woken", "power"} =>
       /\ told # NoAge => sent_age # NoAge
       /\ error_seen => reboot_down

(* A request under way keeps the worker from an attempt, and the LiDAR that has   *)
(* told of its power-down does not come back while the request lasts.  A push     *)
(* into ERROR announces the power-down, or misled the worker.                     *)
RequestInv ==
  /\ connected <=> worker = "idle"
  /\ worker = "attempt" => user = "idle"
  /\ user = "request" => told # NoAge /\ u_left <= RequestTime
  /\ user = "request" /\ reboot_down /\ ~misled =>
       /\ lidar \in {"error", "down"}
       /\ lidar = "down" => u_left < l_left

(* During an outage the ACK of reboot() declared, nobody else is in reboot(), the *)
(* worker's clock is that of the call, and a worker that has passed the wait has   *)
(* half a push timeout behind it or a LiDAR that answers nothing any more.         *)
AckedInv ==
  ~connected /\ by_reboot =>
    /\ user = "idle" /\ told # NoAge
    /\ reboot_down /\ ~misled => lidar # "dying"
    /\ worker = "power" => told = w_sent
    /\ worker \in {"try", "attempt", "backoff"} /\ lidar = "dying" => told >= Half \/ misled

RebootInv == RequestInv /\ AckedInv

-----------------------------------------------------------------------------
(* The earlier of two times, as in the wait of the worker. *)
LEMMA LeastOfTwo ==
  ASSUME NEW a \in Int, NEW b \in Int
  PROVE  Least({a, b}) \in {a, b} /\ Least({a, b}) <= a /\ Least({a, b}) <= b
<1>1. \E x \in {a, b} : \A y \in {a, b} : x <= y
  <2>1. CASE a <= b
    BY <2>1
  <2>2. CASE b <= a
    BY <2>2
  <2> QED BY <2>1, <2>2
<1> QED BY <1>1, Zenon DEF Least

(* The poll ends before every deadline and before kMaxPoll. *)
LEMMA PollBounds ==
  ASSUME NEW D, NEW n \in Nat,
         D = {} \/ \E d \in Nat : D = {d}
  PROVE  /\ PollTimeout(D \cup {n}) \in Nat /\ PollTimeout(D \cup {n}) <= MaxPoll
         /\ \A d \in D : PollTimeout(D \cup {n}) <= d
<1> DEFINE S == (D \cup {n}) \cup {MaxPoll}
<1>0. MaxPoll \in Nat
  BY TimingAssumption, Zenon
<1>1. S \subseteq Nat /\ MaxPoll \in S
  BY <1>0, Zenon
<1>2. \E x \in S : \A y \in S : x <= y
  <2>1. PICK m \in {n, MaxPoll} : m <= n /\ m <= MaxPoll
    BY <1>0
  <2>2. CASE D = {}
    BY <1>0, <2>1, <2>2, Zenon
  <2>3. CASE \E d \in Nat : D = {d}
    <3>1. PICK d \in Nat : D = {d}
      BY <2>3, Zenon
    <3>2. CASE d <= m
      BY <1>0, <2>1, <3>1, <3>2
    <3>3. CASE m <= d
      BY <1>0, <2>1, <3>1, <3>3, Zenon
    <3> QED BY <1>0, <2>1, <3>1, <3>2, <3>3
  <2> QED BY <2>2, <2>3, Zenon
<1>3. Least(S) \in S /\ \A y \in S : Least(S) <= y
  BY <1>2, Zenon DEF Least
<1> QED BY <1>1, <1>3, Zenon DEF PollTimeout

(* An age grows by one until its bound. *)
LEMMA OlderAge ==
  ASSUME NEW a \in Age, NEW b \in Nat
  PROVE  /\ Older(a, b) \in Age
         /\ a = NoAge => Older(a, b) = NoAge
         /\ a # NoAge => /\ Older(a, b) \in Nat /\ Older(a, b) \in {a + 1, b}
                         /\ Older(a, b) <= a + 1 /\ Older(a, b) <= b
<1>1. CASE a = NoAge
  BY <1>1, Zenon DEF Older, Age
<1>2. CASE a # NoAge
  <2>1. a \in Nat /\ NoAge \notin Nat
    BY <1>2, TimingAssumption, Zenon DEF Age
  <2>2. Older(a, b) = Least({a + 1, b})
    BY <1>2, Zenon DEF Older
  <2> QED BY <1>2, <2>1, <2>2, LeastOfTwo DEF Age
<1> QED BY <1>1, <1>2, Zenon

LEMMA HalfOfTimeout ==
  Half \in Nat /\ Half <= PushTimeout /\ PushTimeout \in Nat /\ NoAge \notin Nat
  BY TimingAssumption DEF Half

-----------------------------------------------------------------------------
(* What tick() leaves: the poll is short of both deadlines. *)
LEMMA TickDeadlines ==
  ASSUME TimeOK, Tick
  PROVE  /\ poll' \in Nat /\ poll' <= MaxPoll /\ next_stats' \in Nat /\ partial_age' \in Age
         /\ connected' => push_age < PushTimeout
         /\ partial_age' # NoAge => /\ partial_age' = partial_age
                                    /\ partial_age + poll' <= Window
<1> DEFINE late == connected /\ push_age >= PushTimeout
           push == IF connected /\ ~late THEN {PushTimeout - push_age} ELSE {}
           flush == partial_age # NoAge /\ partial_age >= Window
           idle == IF partial_age # NoAge /\ ~flush THEN {Window - partial_age} ELSE {}
           D == NextDeadline(push, idle)
<1>0. PushTimeout \in Nat /\ Window \in Nat /\ StatsInterval \in Nat /\ NoAge \notin Nat
  BY TimingAssumption, Zenon
<1>1. next_stats' \in Nat
  BY <1>0, Zenon DEF Tick, TimeOK
<1>2. partial_age' = IF flush THEN NoAge ELSE partial_age
  BY Zenon DEF Tick
<1>3. poll' = PollTimeout(D \cup {next_stats'})
  BY Zenon DEF Tick
<1>4. push = {} \/ \E d \in Nat : push = {d}
  BY <1>0 DEF TimeOK
<1>5. partial_age # NoAge /\ ~flush => Window - partial_age \in Nat /\ idle = {Window - partial_age}
  BY <1>0 DEF TimeOK, Age
<1>6. idle = {} \/ \E d \in Nat : idle = {d}
  BY <1>5, Zenon
<1>7. connected' => push_age < PushTimeout
  <2>1. CASE late
    BY <2>1, Zenon DEF Tick, Declare
  <2>2. CASE ~late
    <3>1. connected' = connected
      BY <2>2, Zenon DEF Tick
    <3> QED BY <1>0, <2>2, <3>1 DEF TimeOK
  <2> QED BY <2>1, <2>2, Zenon
<1>8. partial_age # NoAge /\ ~flush => D = {Window - partial_age}
  BY <1>5, Zenon DEF NextDeadline
<1> HIDE DEF push, idle
<1>9. D = {} \/ \E d \in Nat : D = {d}
  BY <1>4, <1>6, Zenon DEF NextDeadline
<1> HIDE DEF D
<1>10. poll' \in Nat /\ poll' <= MaxPoll /\ \A d \in D : poll' <= d
  <2>1. /\ PollTimeout(D \cup {next_stats'}) \in Nat /\ PollTimeout(D \cup {next_stats'}) <= MaxPoll
        /\ \A d \in D : PollTimeout(D \cup {next_stats'}) <= d
    BY <1>1, <1>9, PollBounds, Zenon
  <2> QED BY <1>3, <2>1, Zenon
<1>11. partial_age' \in Age
  BY <1>2, Zenon DEF TimeOK, Age
<1>12. ASSUME partial_age' # NoAge
       PROVE  partial_age' = partial_age /\ partial_age + poll' <= Window
  <2>1. partial_age # NoAge /\ ~flush /\ partial_age' = partial_age
    BY <1>2, <1>12, Zenon
  <2>2. Window \in Nat /\ poll' \in Nat /\ partial_age \in Nat
    BY <1>0, <1>10, <2>1, Zenon DEF TimeOK, Age
  <2>3. poll' <= Window - partial_age
    BY <1>8, <1>10, <2>1, Zenon
  <2> DEFINE p == poll'
  <2> HIDE DEF p
  <2>4. partial_age + p <= Window
    <3>1. Window \in Nat /\ p \in Nat /\ partial_age \in Nat /\ p <= Window - partial_age
      BY <2>2, <2>3, Zenon DEF p
    <3> QED BY <3>1
  <2> QED BY <2>1, <2>4, Zenon DEF p
<1> QED BY <1>1, <1>7, <1>10, <1>11, <1>12, Zenon

-----------------------------------------------------------------------------
(* Every step keeps the places. *)
LEMMA PlaceStep ==
  ASSUME PlaceOK, [TimingNext]_timingVars
  PROVE  PlaceOK'
<1> USE DEF PlaceOK
<1>1. CASE Tick
  <2>1. rx_at' = "poll" /\ UNCHANGED <<user, lidar, health, pushed>>
    BY <1>1, Zenon DEF Tick, callerVars, lidarTimes
  <2>2. worker' = worker \/ worker' = "woken"
    BY <1>1, Zenon DEF Tick, Declare
  <2> QED BY <2>1, <2>2, Zenon
<1>2. CASE PollTimedOut \/ OnPoint
  BY <1>2, Zenon DEF PollTimedOut, OnPoint, deviceVars, workerVars, callerVars, lidarTimes, history
<1>3. CASE Reboot \/ RebootArms
  BY <1>3, Zenon DEF Reboot, RebootArms, deviceVars, rxVars, workerVars, lidarTimes, history
<1>4. CASE LidarReboots \/ LidarPowersDown \/ LidarStarts \/ LidarHealth
  <2>1. UNCHANGED <<rx_at, worker, user, pushed>>
    BY <1>4, Zenon DEF LidarReboots, LidarPowersDown, LidarStarts, LidarHealth, deviceVars, rxVars,
                workerVars, callerVars
  <2>2. lidar' \in {lidar, "dying", "down", "up"} /\ (health' = health \/ health' \in {"run", "error"})
    BY <1>4, Zenon DEF LidarReboots, LidarPowersDown, LidarStarts, LidarHealth
  <2> QED BY <2>1, <2>2, Zenon
<1>5. CASE RebootAcked \/ RebootFails
  <2>1. user' = "idle" /\ UNCHANGED <<rx_at, lidar, health, pushed>>
    BY <1>5, Zenon DEF RebootAcked, RebootFails, rxVars, lidarTimes
  <2>2. worker' = worker \/ worker' = "woken"
    BY <1>5, Zenon DEF RebootAcked, RebootFails, Declare
  <2> QED BY <2>1, <2>2, Zenon
<1>6. CASE WorkerWakes \/ PowerDownWaits \/ PowerDownEnds
  BY <1>6, Zenon DEF WorkerWakes, PowerDownWaits, PowerDownEnds, deviceVars, rxVars, callerVars, lidarTimes,
              history
<1>7. CASE AttemptBegins \/ AttemptFails \/ AttemptSucceeds \/ BackoffEnds
  BY <1>7, Zenon DEF AttemptBegins, AttemptFails, AttemptSucceeds, BackoffEnds, deviceVars, rxVars,
              callerVars, lidarTimes, history
<1>8. CASE StatePushed
  <2>1. UNCHANGED <<lidar, health, worker, user>>
    BY <1>8, Zenon DEF StatePushed, OnStatePush, workerVars, callerVars
  <2>2. (rx_at' = rx_at \/ rx_at' = "tick") /\ pushed' \in {"error", health, pushed}
    BY <1>8, Zenon DEF StatePushed, OnStatePush, deviceVars, rxVars
  <2> QED BY <2>1, <2>2, Zenon
<1>9. CASE LidarError
  BY <1>9, Zenon DEF LidarError, OnStatePush, workerVars, callerVars
<1>10. CASE Pass
  BY <1>10, Zenon DEF Pass
<1>11. CASE UNCHANGED timingVars
  BY <1>11, Zenon DEF timingVars, deviceVars, rxVars, workerVars, callerVars, lidarTimes, history
<1> QED
  BY <1>1, <1>2, <1>3, <1>4, <1>5, <1>6, <1>7, <1>8, <1>9, <1>10, <1>11, Zenon DEF TimingNext, Worker

(* Every step keeps the times. *)
LEMMA TimeStep ==
  ASSUME TimeOK, [TimingNext]_timingVars
  PROVE  TimeOK'
<1>0. /\ 0 \in Nat /\ NoAge \in Age /\ 0 \in Age /\ \A n \in Nat : n \in Age
      /\ AttemptTime \in Nat /\ Backoff \in Nat /\ RequestTime \in Nat /\ BootTime \in Nat
      /\ RunOns \subseteq Nat /\ PushTimeout \in Nat /\ MaxPoll \in Nat /\ NoAge \notin Nat
  BY TimingAssumption, Zenon DEF Age
<1>1. CASE Tick
  BY <1>1, TickDeadlines, Zenon DEF Tick, TimeOK, callerVars, lidarTimes
<1>2. CASE PollTimedOut \/ OnPoint
  BY <1>0, <1>2, Zenon DEF TimeOK, PollTimedOut, OnPoint, deviceVars, workerVars, callerVars, lidarTimes, history
<1>3. CASE Reboot \/ RebootArms
  BY <1>0, <1>3, Zenon DEF TimeOK, Reboot, RebootArms, deviceVars, rxVars, workerVars, lidarTimes,
                           history
<1>4. CASE LidarReboots \/ LidarPowersDown \/ LidarStarts \/ LidarHealth
  BY <1>0, <1>4, Zenon DEF TimeOK, LidarReboots, LidarPowersDown, LidarStarts, LidarHealth, deviceVars, rxVars,
                    workerVars, callerVars, history
<1>5. CASE RebootAcked \/ RebootFails
  BY <1>0, <1>5, Zenon DEF TimeOK, RebootAcked, RebootFails, rxVars, lidarTimes
<1>6. CASE WorkerWakes \/ PowerDownEnds
  BY <1>0, <1>6, Zenon DEF TimeOK, Age, WorkerWakes, PowerDownEnds, deviceVars, rxVars, callerVars, lidarTimes,
                    history
<1>7. CASE PowerDownWaits
  <2>0. push_age \in Int /\ w_sent \in Int /\ push_age \in Nat /\ w_sent \in Nat
    BY DEF TimeOK
  <2>1. Least({push_age, w_sent}) \in {push_age, w_sent}
    BY <2>0, LeastOfTwo, Zenon
  <2>2a. Least({push_age, w_sent}) \in Nat /\ Half \in Nat
    BY <2>0, <2>1, HalfOfTimeout, Zenon
  <2>2. Quiet \in Int /\ Cap \in Int /\ Quiet > 0 /\ Cap > 0
    BY <1>0, <1>7, <2>2a DEF TimeOK, Quiet, Cap, PowerDownWaits
  <2>3. w_left' \in {Quiet, Cap}
    BY <1>7, <2>2, LeastOfTwo, Zenon DEF PowerDownWaits
  <2>4. w_left' \in Nat
    BY <2>2, <2>3
  <2> QED BY <1>7, <2>4, Zenon DEF TimeOK, PowerDownWaits, deviceVars, rxVars, callerVars, lidarTimes, history
<1>8. CASE AttemptBegins \/ AttemptFails \/ AttemptSucceeds \/ BackoffEnds
  BY <1>0, <1>8, Zenon DEF TimeOK, AttemptBegins, AttemptFails, AttemptSucceeds, BackoffEnds, deviceVars,
                    rxVars, callerVars, lidarTimes, history
<1>9. CASE StatePushed
  BY <1>0, <1>9, Zenon DEF TimeOK, StatePushed, OnStatePush, Noticed, deviceVars, rxVars, workerVars,
                    callerVars, history
<1>10. CASE LidarError
  BY <1>0, <1>10, Zenon DEF TimeOK, LidarError, OnStatePush, Noticed, workerVars, callerVars
<1>11. CASE Pass
  <2>1. push_age' \in Nat
    <3>1. push_age' = Older(push_age, PushTimeout + MaxPoll + 1) /\ push_age \in Age
          /\ push_age # NoAge /\ PushTimeout + MaxPoll + 1 \in Nat
      BY <1>0, <1>11 DEF Pass, TimeOK
    <3> QED BY <3>1, OlderAge, Zenon
  <2>2. sent_age' \in Age /\ told' \in Age
    BY <1>0, <1>11, OlderAge, Zenon DEF Pass, TimeOK
  <2>3. w_sent' \in Nat /\ partial_age' \in Age /\ poll' \in Nat /\ next_stats' \in Nat
    BY <1>11 DEF Pass, Quiescent, TimeOK, Age, Less
  <2>4. w_left' \in Nat /\ u_left' \in Nat /\ l_left' \in Nat
    BY <1>11 DEF Pass, TimeOK, Less
  <2> QED BY <2>1, <2>2, <2>3, <2>4, Zenon DEF TimeOK
<1>12. CASE UNCHANGED timingVars
  BY <1>12, Zenon DEF TimeOK, timingVars, deviceVars, rxVars, workerVars, callerVars, lidarTimes, history
<1> QED
  BY <1>1, <1>2, <1>3, <1>4, <1>5, <1>6, <1>7, <1>8, <1>9, <1>10, <1>11, <1>12, Zenon DEF TimingNext, Worker

-----------------------------------------------------------------------------
(* A step of another thread changes nothing the deadlines depend on, except that  *)
(* it may declare the outage.                                                      *)
LEMMA DeadlineOthers ==
  ASSUME DeadlineInv, connected' => connected,
         UNCHANGED <<push_age, rx_at, poll, partial_age>>
  PROVE  DeadlineInv'
  BY Zenon DEF DeadlineInv

(* A datagram wakes the receive thread. *)
LEMMA DeadlineWoken ==
  ASSUME TimeOK, DeadlineInv, rx_at' = "tick", connected' => connected,
         push_age' \in {push_age, 0}, partial_age' \in {partial_age, 0}, UNCHANGED poll
  PROVE  DeadlineInv'
<1>0. PushTimeout \in Nat /\ MaxPoll \in Nat /\ Window \in Nat /\ 0 <= PushTimeout + MaxPoll
      /\ 0 <= Window
  BY TimingAssumption
<1> QED BY <1>0, Zenon DEF DeadlineInv

(* tick() keeps the deadlines. *)
LEMMA DeadlineTick ==
  ASSUME TimeOK, DeadlineInv, Tick
  PROVE  DeadlineInv'
<1> DEFINE p == poll'
<1> HIDE DEF p
<1>0. PushTimeout \in Nat /\ MaxPoll \in Nat /\ Window \in Nat /\ push_age \in Nat
  BY TimingAssumption, Zenon DEF TimeOK
<1>1. push_age' = push_age
  BY Zenon DEF Tick
<1>2. p \in Nat /\ p <= MaxPoll
  BY TickDeadlines, Zenon DEF p
<1>3. connected' => push_age < PushTimeout
  BY TickDeadlines, Zenon
<1>4. push_age < PushTimeout => /\ push_age <= PushTimeout + MaxPoll
                                /\ push_age + p <= PushTimeout + MaxPoll
  BY <1>0, <1>2
<1>5. partial_age' # NoAge => /\ partial_age' = partial_age
                              /\ partial_age + p <= Window
  BY TickDeadlines, Zenon DEF p
<1>6. partial_age' # NoAge => partial_age <= Window
  BY Zenon DEF Tick, DeadlineInv
<1> QED BY <1>1, <1>2, <1>3, <1>4, <1>5, <1>6, Zenon DEF DeadlineInv, p

(* Time passes. *)
LEMMA DeadlinePass ==
  ASSUME TimeOK, DeadlineInv, Pass
  PROVE  DeadlineInv'
<1> DEFINE a == push_age'
           q == partial_age'
<1> HIDE DEF a, q
<1>0. PushTimeout \in Nat /\ MaxPoll \in Nat /\ Window \in Nat /\ push_age \in Nat /\ poll \in Nat
      /\ NoAge \notin Nat
  BY TimingAssumption, Zenon DEF TimeOK
<1>1. rx_at = "poll" /\ rx_at' = "poll" /\ poll > 0 /\ poll' = poll - 1 /\ connected' = connected
  BY Zenon DEF Pass, Quiescent
<1>2. a \in Nat /\ a <= push_age + 1
  <2>1. a = Older(push_age, PushTimeout + MaxPoll + 1)
    BY Zenon DEF Pass, a
  <2>2. push_age \in Age /\ push_age # NoAge /\ PushTimeout + MaxPoll + 1 \in Nat
    BY <1>0 DEF Age
  <2> QED BY <2>1, <2>2, OlderAge, Zenon
<1>3. connected => /\ a <= PushTimeout + MaxPoll
                   /\ a + (poll - 1) <= PushTimeout + MaxPoll
  <2>1. connected => push_age + poll <= PushTimeout + MaxPoll
    BY <1>1, Zenon DEF DeadlineInv
  <2> QED BY <1>0, <1>1, <1>2, <2>1
<1>4. q # NoAge => partial_age # NoAge /\ partial_age \in Nat /\ q = partial_age + 1
  BY Zenon DEF Pass, TimeOK, Age, q
<1>5. q # NoAge => q <= Window /\ q + (poll - 1) <= Window
  <2>1. partial_age # NoAge => partial_age + poll <= Window
    BY <1>1, Zenon DEF DeadlineInv
  <2> QED BY <1>0, <1>1, <1>4, <2>1
<1>6. poll - 1 <= MaxPoll
  BY <1>0 DEF DeadlineInv
<1> QED BY <1>1, <1>3, <1>5, <1>6, Zenon DEF DeadlineInv, a, q

(* An attempt that succeeds restarts the push deadline. *)
LEMMA DeadlineConnects ==
  ASSUME TimeOK, DeadlineInv, AttemptSucceeds
  PROVE  DeadlineInv'
<1>1. push_age' = 0 /\ UNCHANGED <<rx_at, poll, partial_age>>
  BY Zenon DEF AttemptSucceeds, rxVars
<1>2. 0 <= PushTimeout + MaxPoll /\ 0 + poll <= PushTimeout + MaxPoll
  <2>1. PushTimeout \in Nat /\ MaxPoll \in Nat /\ poll \in Nat /\ poll <= MaxPoll
    BY TimingAssumption, Zenon DEF TimeOK, DeadlineInv
  <2> QED BY <2>1
<1> QED BY <1>1, <1>2, Zenon DEF DeadlineInv

LEMMA DeadlineStep ==
  ASSUME TimeOK, DeadlineInv, [TimingNext]_timingVars
  PROVE  DeadlineInv'
<1>1. CASE Tick
  BY <1>1, DeadlineTick, Zenon
<1>2. CASE PollTimedOut \/ OnPoint
  <2>1. rx_at' = "tick" /\ partial_age' \in {partial_age, 0} /\ UNCHANGED <<connected, push_age, poll>>
    BY <1>2, Zenon DEF PollTimedOut, OnPoint, deviceVars
  <2> QED BY <2>1, DeadlineWoken, Zenon
<1>3. CASE Reboot \/ RebootArms
  <2>1. UNCHANGED <<connected, push_age, rx_at, poll, partial_age>>
    BY <1>3, Zenon DEF Reboot, RebootArms, deviceVars, rxVars
  <2> QED BY <2>1, DeadlineOthers, Zenon
<1>4. CASE LidarReboots \/ LidarPowersDown \/ LidarStarts \/ LidarHealth
  <2>1. UNCHANGED <<connected, push_age, rx_at, poll, partial_age>>
    BY <1>4, Zenon DEF LidarReboots, LidarPowersDown, LidarStarts, LidarHealth, deviceVars, rxVars
  <2> QED BY <2>1, DeadlineOthers
<1>5. CASE RebootAcked \/ RebootFails
  <2>1. connected' => connected
    BY <1>5, Zenon DEF RebootAcked, RebootFails, Declare
  <2> QED BY <1>5, <2>1, DeadlineOthers, Zenon DEF RebootAcked, RebootFails, rxVars
<1>6. CASE WorkerWakes \/ PowerDownWaits \/ PowerDownEnds \/ AttemptBegins \/ AttemptFails
             \/ BackoffEnds
  <2>1. UNCHANGED <<connected, push_age, rx_at, poll, partial_age>>
    BY <1>6, Zenon DEF WorkerWakes, PowerDownWaits, PowerDownEnds, AttemptBegins, AttemptFails, BackoffEnds,
                deviceVars, rxVars
  <2> QED BY <2>1, DeadlineOthers
<1>7. CASE AttemptSucceeds
  BY <1>7, DeadlineConnects
<1>8. CASE StatePushed
  <2>1. CASE \E state : OnStatePush(state)
    <3>1. rx_at' = "tick" /\ push_age' = 0 /\ UNCHANGED <<connected, poll, partial_age>>
      BY <2>1, Zenon DEF OnStatePush
    <3> QED BY <3>1, DeadlineWoken, Zenon
  <2>2. CASE UNCHANGED <<deviceVars, rxVars>>
    BY <2>2, DeadlineOthers, Zenon DEF deviceVars, rxVars
  <2> QED BY <1>8, <2>1, <2>2, Zenon DEF StatePushed
<1>9. CASE LidarError
  BY <1>9, DeadlineWoken, Zenon DEF LidarError, OnStatePush
<1>10. CASE Pass
  BY <1>10, DeadlinePass
<1>11. CASE UNCHANGED timingVars
  BY <1>11, DeadlineOthers, Zenon DEF timingVars, deviceVars, rxVars
<1> QED
  BY <1>1, <1>2, <1>3, <1>4, <1>5, <1>6, <1>7, <1>8, <1>9, <1>10, <1>11, Zenon DEF TimingNext, Worker

(* The initial state. *)
LEMMA TimingInitOK ==
  TimingInit => TimeOK /\ PlaceOK /\ DeadlineInv /\ WaitInv /\ RebootInv
<1> SUFFICES ASSUME TimingInit PROVE TimeOK /\ PlaceOK /\ DeadlineInv /\ WaitInv /\ RebootInv
  BY Zenon
<1>0. /\ StatsInterval \in Nat /\ PushTimeout \in Nat /\ MaxPoll \in Nat /\ NoAge \notin Nat
      /\ 0 <= MaxPoll /\ 0 <= PushTimeout + MaxPoll
  BY TimingAssumption
<1>1. TimeOK
  BY <1>0, Zenon DEF TimingInit, TimeOK, Age
<1>2. PlaceOK
  BY Zenon DEF TimingInit, PlaceOK
<1>3. DeadlineInv
  BY <1>0, Zenon DEF TimingInit, DeadlineInv
<1>4. WaitInv
  BY Zenon DEF TimingInit, WaitInv
<1>5. RebootInv
  BY Zenon DEF TimingInit, RebootInv, RequestInv, AckedInv
<1> QED BY <1>1, <1>2, <1>3, <1>4, <1>5, Zenon

(* A lost connection is noticed one kMaxPoll after the push timeout at the latest,  *)
(* and a partial frame is closed when its window has passed, whatever the time outs *)
(* (tick(), device.cpp; the poll timeout, context.cpp).                             *)
THEOREM TimingTicksInTime == TimingSpec => []TicksInTime
<1>1. TimingInit => TimeOK /\ DeadlineInv
  BY TimingInitOK, Zenon
<1>2. TimeOK /\ DeadlineInv /\ [TimingNext]_timingVars => TimeOK' /\ DeadlineInv'
  BY TimeStep, DeadlineStep, Zenon
<1>3. DeadlineInv => TicksInTime
  BY Zenon DEF DeadlineInv, TicksInTime, OutageNoticed, IdleFrameClosed
<1> QED BY <1>1, <1>2, <1>3, PTL DEF TimingSpec

-----------------------------------------------------------------------------
(* A step that leaves the reboot and the worker alone, or wakes the worker. *)
LEMMA WaitOthers ==
  ASSUME WaitInv, UNCHANGED <<push_age, sent_age, told, w_sent, w_left, error_seen, reboot_down>>,
         worker' = worker \/ (worker = "idle" /\ worker' = "woken")
  PROVE  WaitInv'
  BY Zenon DEF WaitInv

(* The worker passes its wait, or goes on after it. *)
LEMMA WaitPassed ==
  ASSUME WaitInv, worker' \in {"try", "attempt", "backoff"}, UNCHANGED <<told, error_seen>>,
         sent_age' = sent_age \/ sent_age' = NoAge
  PROVE  WaitInv'
  BY Zenon DEF WaitInv

(* A push moves the quiet time on, and the sleep of the worker still ends before it. *)
LEMMA WaitPush ==
  ASSUME TimeOK, PlaceOK, WaitInv, NEW state, NEW down, OnStatePush(state), Noticed(state, down)
  PROVE  WaitInv'
<1>1. UNCHANGED <<sent_age, told, worker, w_sent, w_left>> /\ push_age' = 0
  BY Zenon DEF OnStatePush, Noticed, workerVars
<1>2. ASSUME worker \in {"idle", "woken", "power"}, error_seen'
      PROVE  reboot_down'
  <2>1. CASE error_seen
    BY <1>2, <2>1, Zenon DEF OnStatePush, WaitInv
  <2>2. CASE told # NoAge /\ pushed = "run" /\ state = "error"
    <3>1. sent_age # NoAge
      BY <1>2, <2>2, Zenon DEF WaitInv
    <3>2. GoesIntoError(state)
      BY <2>2, Zenon DEF GoesIntoError
    <3> QED BY <3>1, <3>2, Zenon DEF OnStatePush
  <2> QED BY <1>2, <2>1, <2>2, Zenon DEF Noticed
<1>3. ASSUME worker = "power", w_left > 0
      PROVE  0 + w_left <= Half \/ w_sent + w_left <= Half
  <2>1. push_age + w_left <= Half \/ w_sent + w_left <= Half
    BY <1>3, Zenon DEF WaitInv
  <2>2. push_age \in Nat /\ w_left \in Nat /\ w_sent \in Nat /\ Half \in Nat
    BY HalfOfTimeout, Zenon DEF TimeOK
  <2> QED BY <2>1, <2>2
<1> QED BY <1>1, <1>2, <1>3, Zenon DEF WaitInv

(* Time passes for the caller, the Device and the worker alike. *)
LEMMA WaitPass ==
  ASSUME TimeOK, WaitInv, Pass
  PROVE  WaitInv'
<1> DEFINE a == sent_age'
           w == w_sent'
           l == w_left'
           p == push_age'
<1> HIDE DEF a, w, l, p
<1>0. PushTimeout \in Nat /\ MaxPoll \in Nat /\ Half \in Nat /\ NoAge \notin Nat
  BY HalfOfTimeout, TimingAssumption, Zenon
<1>1. UNCHANGED <<worker, error_seen, reboot_down>>
  BY Zenon DEF Pass
<1>2. a = Older(sent_age, PushTimeout) /\ told' = Older(told, PushTimeout)
  BY Zenon DEF Pass, a
<1>3. (sent_age = NoAge => a = NoAge) /\ (sent_age # NoAge => a # NoAge)
      /\ (a # NoAge => a <= PushTimeout)
  BY <1>0, <1>2, OlderAge, Zenon DEF TimeOK
<1>4. (told = NoAge => told' = NoAge)
  BY <1>2, Zenon DEF Older
<1>5. a # NoAge => told' = a
  BY <1>2, <1>3, Zenon DEF WaitInv
<1>6. worker = "power" => w + l <= PushTimeout /\ (p + l <= Half \/ w + l <= Half)
  <2>1. SUFFICES ASSUME worker = "power"
                 PROVE  w + l <= PushTimeout /\ (p + l <= Half \/ w + l <= Half)
    BY Zenon
  <2>2. /\ w_sent \in Nat /\ w_left \in Nat /\ w_left > 0 /\ w_sent + w_left <= PushTimeout
        /\ push_age \in Nat /\ (push_age + w_left <= Half \/ w_sent + w_left <= Half)
    BY <2>1, Zenon DEF Pass, Quiescent, TimeOK, WaitInv
  <2>3. w = w_sent + 1 /\ l = w_left - 1
    BY <2>1, <2>2, Zenon DEF Pass, Less, w, l
  <2>4. p \in Nat /\ p <= push_age + 1
    <3>1. p = Older(push_age, PushTimeout + MaxPoll + 1) /\ push_age \in Age /\ push_age # NoAge
      BY <1>0, <2>2, Zenon DEF Pass, p, Age
    <3>2. PushTimeout + MaxPoll + 1 \in Nat
      BY <1>0
    <3> QED BY <2>2, <3>1, <3>2, OlderAge, Zenon
  <2> QED BY <1>0, <2>2, <2>3, <2>4
<1> QED BY <1>1, <1>3, <1>4, <1>5, <1>6, Zenon DEF WaitInv, a, w, l, p

(* An iteration of wait_for_power_down() sleeps until the quiet time or its cap. *)
LEMMA WaitWaits ==
  ASSUME TimeOK, WaitInv, PowerDownWaits
  PROVE  WaitInv'
<1> DEFINE l == w_left'
<1> HIDE DEF l
<1>1. /\ UNCHANGED <<push_age, sent_age, told, worker, w_sent, error_seen, reboot_down>>
      /\ l = Least({Quiet, Cap})
  BY Zenon DEF PowerDownWaits, deviceVars, history, l
<1>2. push_age \in Int /\ w_sent \in Int /\ w_sent \in Nat /\ push_age \in Nat
      /\ PushTimeout \in Nat /\ Half \in Nat
  BY HalfOfTimeout DEF TimeOK
<1>3. Least({push_age, w_sent}) \in {push_age, w_sent}
  BY <1>2, LeastOfTwo, Zenon
<1>4. Quiet \in Int /\ Cap \in Int
  BY <1>2, <1>3 DEF Quiet, Cap
<1>5. l \in {Quiet, Cap} /\ l <= Cap /\ l <= Quiet
  BY <1>1, <1>4, LeastOfTwo, Zenon
<1>6. w_sent + l <= PushTimeout /\ (push_age + l <= Half \/ w_sent + l <= Half)
  BY <1>2, <1>3, <1>4, <1>5 DEF Cap, Quiet
<1> QED BY <1>1, <1>6, Zenon DEF WaitInv, l

LEMMA WaitStep ==
  ASSUME TimeOK, PlaceOK, WaitInv, [TimingNext]_timingVars
  PROVE  WaitInv'
<1>1. CASE Tick \/ RebootAcked
  <2>1. UNCHANGED <<push_age, sent_age, told, w_sent, w_left, error_seen, reboot_down>>
    BY <1>1, Zenon DEF Tick, RebootAcked
  <2>2. worker' = worker \/ (worker = "idle" /\ worker' = "woken")
    BY <1>1, Zenon DEF Tick, RebootAcked, Declare
  <2> QED BY <2>1, <2>2, WaitOthers, Zenon
<1>2. CASE PollTimedOut \/ OnPoint \/ Reboot
  <2>1. UNCHANGED <<push_age, sent_age, told, worker, w_sent, w_left, error_seen, reboot_down>>
    BY <1>2, Zenon DEF PollTimedOut, OnPoint, Reboot, deviceVars, workerVars, history
  <2> QED BY <2>1, WaitOthers, Zenon
<1>3. CASE LidarReboots \/ LidarPowersDown \/ LidarStarts \/ LidarHealth
  <2>1. UNCHANGED <<push_age, sent_age, told, worker, w_sent, w_left, error_seen, reboot_down>>
    BY <1>3, Zenon DEF LidarReboots, LidarPowersDown, LidarStarts, LidarHealth, deviceVars, workerVars, history
  <2> QED BY <2>1, WaitOthers
<1>4. CASE RebootArms
  <2>1. /\ sent_age' = 0 /\ told' = 0 /\ error_seen' = FALSE /\ UNCHANGED <<push_age, worker, w_sent, w_left>>
    BY <1>4, Zenon DEF RebootArms, workerVars
  <2>2. 0 <= PushTimeout /\ 0 # NoAge
    BY TimingAssumption
  <2> QED BY <2>1, <2>2, Zenon DEF WaitInv
<1>5. CASE RebootFails
  <2>1. sent_age' = NoAge /\ told' = NoAge /\ error_seen' = FALSE /\ UNCHANGED <<push_age, w_sent, w_left>>
    BY <1>5, Zenon DEF RebootFails
  <2>2. worker' = worker \/ (worker = "idle" /\ worker' = "woken")
    BY <1>5, Zenon DEF RebootFails, Declare
  <2> QED BY <2>1, <2>2, Zenon DEF WaitInv
<1>6. CASE WorkerWakes
  <2>1. worker = "woken" /\ UNCHANGED <<sent_age, told, error_seen, reboot_down>>
    BY <1>6, Zenon DEF WorkerWakes, deviceVars, history
  <2>2. CASE sent_age = NoAge
    BY <1>6, <2>1, <2>2, WaitPassed, Zenon DEF WorkerWakes
  <2>3. CASE sent_age # NoAge
    <3>1. worker' = "power" /\ w_sent' = sent_age /\ w_left' = 0
      BY <1>6, <2>3, Zenon DEF WorkerWakes
    <3>2. sent_age + 0 <= PushTimeout /\ ~(0 > 0)
      BY <2>3 DEF WaitInv, TimeOK, Age
    <3> QED BY <2>1, <3>1, <3>2, Zenon DEF WaitInv
  <2> QED BY <2>2, <2>3, Zenon
<1>7. CASE PowerDownWaits
  BY <1>7, WaitWaits
<1>8. CASE PowerDownEnds \/ AttemptBegins \/ AttemptFails \/ BackoffEnds
  <2>1. /\ worker' \in {"try", "attempt", "backoff"} /\ UNCHANGED <<told, error_seen>>
        /\ sent_age' = sent_age \/ sent_age' = NoAge
    BY <1>8, Zenon DEF PowerDownEnds, AttemptBegins, AttemptFails, BackoffEnds, deviceVars, history
  <2> QED BY <2>1, WaitPassed, Zenon
<1>9. CASE AttemptSucceeds
  BY <1>9, Zenon DEF AttemptSucceeds, WaitInv
<1>10. CASE StatePushed \/ LidarError
  <2>1. UNCHANGED <<push_age, sent_age, told, worker, w_sent, w_left, error_seen, reboot_down>>
          \/ \E state, down : OnStatePush(state) /\ Noticed(state, down)
    BY <1>10, Zenon DEF StatePushed, LidarError, deviceVars, workerVars, history
  <2> QED BY <2>1, WaitOthers, WaitPush, Zenon
<1>11. CASE Pass
  BY <1>11, WaitPass
<1>12. CASE UNCHANGED timingVars
  <2>1. UNCHANGED <<push_age, sent_age, told, worker, w_sent, w_left, error_seen, reboot_down>>
    BY <1>12, Zenon DEF timingVars, deviceVars, workerVars, history
  <2> QED BY <2>1, WaitOthers
<1> QED
  BY <1>1, <1>2, <1>3, <1>4, <1>5, <1>6, <1>7, <1>8, <1>9, <1>10, <1>11, <1>12, Zenon DEF TimingNext, Worker

(* The worker waits for the power-down one push timeout at most, half a push       *)
(* timeout after the request and the last push, and no longer than for a push that *)
(* goes into ERROR (on_push(), wait_for_power_down(), device.cpp).                 *)
THEOREM TimingPowerDownWait == TimingSpec => []PowerDownWait
<1>1. TimingInit => TimeOK /\ PlaceOK /\ WaitInv
  BY TimingInitOK, Zenon
<1>2. TimeOK /\ PlaceOK /\ WaitInv /\ [TimingNext]_timingVars => TimeOK' /\ PlaceOK' /\ WaitInv'
  BY TimeStep, PlaceStep, WaitStep, Zenon
<1>3. TimeOK /\ WaitInv => PowerDownWait
  <2>1. ASSUME TimeOK, WaitInv, worker = "power", w_left > 0
        PROVE  w_sent < PushTimeout /\ (push_age < Half \/ w_sent < Half)
    <3>1. /\ w_sent \in Nat /\ w_left \in Nat /\ w_left > 0 /\ push_age \in Nat
          /\ w_sent + w_left <= PushTimeout /\ PushTimeout \in Nat /\ Half \in Nat
          /\ push_age + w_left <= Half \/ w_sent + w_left <= Half
      BY <2>1, HalfOfTimeout, Zenon DEF TimeOK, WaitInv
    <3> QED BY <3>1
  <2> QED BY <2>1, Zenon DEF PowerDownWait, PowerDownBounded, ErrorPushHeard, WaitInv
<1> QED BY <1>1, <1>2, <1>3, PTL DEF TimingSpec

-----------------------------------------------------------------------------
(* A step that leaves the reboot, the worker and the LiDAR where they are. *)
LEMMA RebootOthers ==
  ASSUME RebootInv,
         UNCHANGED <<connected, worker, by_reboot, reboot_down>>,
         UNCHANGED <<user, u_left, told, misled, w_sent, lidar, l_left>>
  PROVE  RebootInv'
  BY Zenon DEF RebootInv, RequestInv, AckedInv

(* declare_disconnected() by a thread that saw no ACK: no outage of a reboot. *)
LEMMA RebootDeclares ==
  ASSUME RebootInv, Declare(FALSE) \/ UNCHANGED <<connected, worker, by_reboot>>
  PROVE  /\ connected' <=> worker' = "idle"
         /\ worker' = worker \/ worker' = "woken"
         /\ ~connected' /\ by_reboot' =>
              ~connected /\ by_reboot /\ worker' = worker
<1>1. CASE Declare(FALSE)
  BY <1>1, Zenon DEF Declare, RebootInv, RequestInv
<1>2. CASE UNCHANGED <<connected, worker, by_reboot>>
  BY <1>2, Zenon DEF RebootInv, RequestInv
<1> QED BY <1>1, <1>2, Zenon

(* tick() declares an outage when the pushes stay away. *)
LEMMA RebootTick ==
  ASSUME RebootInv, Tick
  PROVE  RebootInv'
<1>1. UNCHANGED <<reboot_down, user, u_left, told, misled, w_sent, lidar, l_left>>
  BY Zenon DEF Tick, callerVars, lidarTimes
<1>2. Declare(FALSE) \/ UNCHANGED <<connected, worker, by_reboot>>
  BY Zenon DEF Tick
<1>3. /\ connected' <=> worker' = "idle"
      /\ worker' = worker \/ worker' = "woken"
      /\ ~connected' /\ by_reboot' => ~connected /\ by_reboot /\ worker' = worker
  BY <1>2, RebootDeclares, Zenon
<1>4. RequestInv'
  BY <1>1, <1>3, Zenon DEF RebootInv, RequestInv
<1>5. AckedInv'
  BY <1>1, <1>3, Zenon DEF RebootInv, AckedInv
<1> QED BY <1>4, <1>5, Zenon DEF RebootInv

(* The user thread: reboot() is entered, armed, answered or given up. *)
LEMMA RebootUser ==
  ASSUME RebootInv, Reboot \/ RebootArms \/ RebootAcked \/ RebootFails
  PROVE  RebootInv'
<1>1. CASE Reboot
  <2>1. /\ connected /\ worker # "attempt" /\ user' = "arm"
        /\ UNCHANGED <<connected, worker, reboot_down, by_reboot>>
    BY <1>1, Zenon DEF Reboot, CmdFree, deviceVars, workerVars, history
  <2> QED BY <2>1, Zenon DEF RebootInv, RequestInv, AckedInv
<1>2. CASE RebootArms
  <2>1. /\ user = "arm" /\ user' = "request" /\ u_left' = RequestTime
        /\ told' = 0 /\ reboot_down' = FALSE
        /\ UNCHANGED <<connected, worker, by_reboot>>
    BY <1>2, Zenon DEF RebootArms, workerVars
  <2>2. 0 # NoAge /\ RequestTime <= RequestTime
    BY TimingAssumption
  <2> QED BY <2>1, <2>2, Zenon DEF RebootInv, RequestInv, AckedInv
<1>3. CASE RebootAcked
  <2>1. /\ user = "request" /\ user' = "idle"
        /\ UNCHANGED <<told, misled, reboot_down, lidar, w_sent>>
    BY <1>3, Zenon DEF RebootAcked, lidarTimes
  <2>2. CASE connected
    <3>1. ~connected' /\ worker' = "woken"
      BY <1>3, <2>2, Zenon DEF RebootAcked, Declare, RebootInv, RequestInv
    <3>2. RequestInv'
      BY <2>1, <3>1, Zenon DEF RequestInv
    <3>3. AckedInv'
      BY <2>1, <3>1, Zenon DEF RebootInv, RequestInv, AckedInv
    <3> QED BY <3>2, <3>3, Zenon DEF RebootInv
  <2>3. CASE ~connected
    <3>1. ~by_reboot
      BY <2>1, <2>3, Zenon DEF RebootInv, AckedInv
    <3>2. ~connected' /\ worker' = worker /\ by_reboot' = by_reboot
      BY <1>3, <2>3, Zenon DEF RebootAcked, Declare
    <3> QED BY <2>1, <2>3, <3>1, <3>2, Zenon DEF RebootInv, RequestInv, AckedInv
  <2> QED BY <2>2, <2>3, Zenon
<1>4. CASE RebootFails
  <2>1. user = "request" /\ user' = "idle"
    BY <1>4, Zenon DEF RebootFails
  <2>2. Declare(FALSE) \/ UNCHANGED <<connected, worker, by_reboot>>
    BY <1>4, Zenon DEF RebootFails
  <2>3. /\ connected' <=> worker' = "idle"
        /\ ~connected' /\ by_reboot' => ~connected /\ by_reboot
    BY <2>2, RebootDeclares, Zenon
  <2>4. RequestInv'
    BY <2>1, <2>3, Zenon DEF RequestInv
  <2>5. AckedInv'
    BY <2>1, <2>3, Zenon DEF RebootInv, AckedInv
  <2> QED BY <2>4, <2>5 DEF RebootInv
<1> QED BY <1>1, <1>2, <1>3, <1>4, Zenon

(* The worker: what it has waited for when it passes wait_for_power_down(). *)
LEMMA RebootWorker ==
  ASSUME TimeOK, WaitInv, RebootInv, Worker
  PROVE  RebootInv'
<1>0. /\ PushTimeout \in Nat /\ Half \in Nat /\ Half <= PushTimeout /\ NoAge \notin Nat
      /\ push_age \in Nat /\ w_sent \in Nat
  BY HalfOfTimeout, Zenon DEF TimeOK
<1>1. CASE WorkerWakes
  <2>1. /\ worker = "woken" /\ worker' \in {"try", "power"}
        /\ UNCHANGED <<connected, by_reboot, reboot_down, user, u_left, told, misled, lidar, l_left>>
    BY <1>1, Zenon DEF WorkerWakes, deviceVars, callerVars, lidarTimes, history
  <2>2. RequestInv'
    BY <2>1, Zenon DEF RebootInv, RequestInv
  <2>3. told # NoAge => worker' = "power" /\ w_sent' = told
    BY <1>1, <2>1, Zenon DEF WorkerWakes, WaitInv
  <2>4. AckedInv'
    BY <2>1, <2>3, Zenon DEF RebootInv, AckedInv
  <2> QED BY <2>2, <2>4, Zenon DEF RebootInv
<1>2. CASE PowerDownWaits
  BY <1>2, RebootOthers, Zenon DEF PowerDownWaits, deviceVars, callerVars, lidarTimes, history
<1>3. CASE PowerDownEnds
  <2>1. /\ worker = "power" /\ worker' = "try" /\ reboot_down' = FALSE
        /\ UNCHANGED <<connected, by_reboot, user, u_left, told, misled, lidar, l_left>>
    BY <1>3, Zenon DEF PowerDownEnds, callerVars, lidarTimes, history
  <2>2. ~reboot_down => w_sent >= Half
    <3>1. SUFFICES ASSUME Quiet <= 0 \/ Cap <= 0 PROVE w_sent >= Half
      BY <1>3, Zenon DEF PowerDownEnds
    <3>2. Least({push_age, w_sent}) \in {push_age, w_sent} /\ Least({push_age, w_sent}) <= w_sent
      <4>1. push_age \in Int /\ w_sent \in Int
        BY <1>0
      <4> QED BY <4>1, LeastOfTwo, Zenon
    <3> QED BY <1>0, <3>1, <3>2 DEF Quiet, Cap
  <2>3. RequestInv'
    BY <2>1, Zenon DEF RebootInv, RequestInv
  <2>4. AckedInv'
    BY <2>1, <2>2, Zenon DEF RebootInv, AckedInv
  <2> QED BY <2>3, <2>4 DEF RebootInv
<1>4. CASE AttemptBegins \/ AttemptFails \/ BackoffEnds
  <2>1. /\ worker \in {"try", "attempt", "backoff"} /\ worker' \in {"try", "attempt", "backoff"}
        /\ worker' = "attempt" => user = "idle"
        /\ UNCHANGED <<connected, by_reboot, reboot_down, user, u_left, told, misled, lidar, l_left>>
    BY <1>4, Zenon DEF AttemptBegins, AttemptFails, BackoffEnds, CmdFree, deviceVars, callerVars, lidarTimes,
                history
  <2>2. RequestInv'
    BY <2>1, Zenon DEF RebootInv, RequestInv
  <2>3. AckedInv'
    BY <2>1, Zenon DEF RebootInv, AckedInv
  <2> QED BY <2>2, <2>3 DEF RebootInv
<1>5. CASE AttemptSucceeds
  <2>1. worker = "attempt" /\ worker' = "idle" /\ connected' = TRUE /\ user' = user
    BY <1>5, Zenon DEF AttemptSucceeds, callerVars
  <2> QED BY <2>1, Zenon DEF RebootInv, RequestInv, AckedInv
<1> QED BY <1>1, <1>2, <1>3, <1>4, <1>5, Zenon DEF Worker

(* The LiDAR: its ERROR push, its power-down and its start. *)
LEMMA RebootLidar ==
  ASSUME RequestTime < BootTime, TimeOK, PlaceOK, WaitInv, RebootInv,
         LidarReboots \/ StatePushed \/ LidarError \/ LidarHealth \/ LidarPowersDown \/ LidarStarts
  PROVE  RebootInv'
<1>0. RequestTime \in Nat /\ BootTime \in Nat /\ u_left \in Nat /\ l_left \in Nat
  BY TimingAssumption, Zenon DEF TimeOK
<1>1. CASE LidarReboots
  <2>1. /\ user = "request" /\ lidar = "up"
        /\ UNCHANGED <<connected, worker, by_reboot, reboot_down, user, u_left, told, misled>>
    BY <1>1, Zenon DEF LidarReboots, deviceVars, workerVars, callerVars, history
  <2>2. (reboot_down => misled) /\ ~(~connected /\ by_reboot)
    BY <2>1, Zenon DEF RebootInv, RequestInv, AckedInv
  <2> QED BY <2>1, <2>2, Zenon DEF RebootInv, RequestInv, AckedInv
<1>2. CASE StatePushed
  <2>1. UNCHANGED <<connected, worker, by_reboot, user, u_left, told, w_sent, lidar, l_left>>
    BY <1>2, Zenon DEF StatePushed, OnStatePush, Noticed, deviceVars, workerVars, callerVars, history
  <2>2. (misled => misled') /\ (reboot_down' => reboot_down \/ lidar = "error" \/ misled')
    <3>1. CASE UNCHANGED <<deviceVars, rxVars, workerVars, callerVars, history>>
      BY <3>1, Zenon DEF deviceVars, history
    <3>2. CASE \E state : OnStatePush(state) /\ Noticed(state, lidar = "error")
      <4>1. PICK state : OnStatePush(state) /\ Noticed(state, lidar = "error")
        BY <3>2, Zenon
      <4>2. GoesIntoError(state) => pushed = "run" /\ state = "error"
        BY Zenon DEF GoesIntoError, PlaceOK
      <4>3. sent_age # NoAge => told # NoAge
        BY Zenon DEF WaitInv
      <4> QED BY <4>1, <4>2, <4>3, Zenon DEF OnStatePush, Noticed
    <3> QED BY <1>2, <3>1, <3>2, Zenon DEF StatePushed
  <2>3. RequestInv'
    BY <2>1, <2>2, Zenon DEF RebootInv, RequestInv
  <2>4. AckedInv'
    BY <2>1, <2>2, Zenon DEF RebootInv, AckedInv
  <2> QED BY <2>3, <2>4, Zenon DEF RebootInv
<1>3. CASE LidarError
  <2>1. lidar' = "error" /\ UNCHANGED <<connected, worker, by_reboot, user, u_left, told, w_sent>>
    BY <1>3, Zenon DEF LidarError, OnStatePush, Noticed, workerVars, callerVars
  <2> QED BY <2>1, Zenon DEF RebootInv, RequestInv, AckedInv
<1>6. CASE LidarHealth
  BY <1>6, RebootOthers, Zenon DEF LidarHealth, deviceVars, workerVars, callerVars, history
<1>4. CASE LidarPowersDown
  <2>1. /\ lidar' = "down" /\ l_left' = BootTime
        /\ UNCHANGED <<connected, worker, by_reboot, reboot_down, user, u_left, told, misled, w_sent>>
    BY <1>4, Zenon DEF LidarPowersDown, deviceVars, workerVars, callerVars, history
  <2>2. user = "request" => u_left < BootTime
    BY <1>0 DEF RebootInv, RequestInv
  <2> QED BY <2>1, <2>2, Zenon DEF RebootInv, RequestInv, AckedInv
<1>5. CASE LidarStarts
  <2>1. /\ lidar = "down" /\ lidar' = "up" /\ l_left = 0
        /\ UNCHANGED <<connected, worker, by_reboot, reboot_down, user, u_left, told, misled, w_sent>>
    BY <1>5, Zenon DEF LidarStarts, deviceVars, workerVars, callerVars, history
  <2>2. ~(user = "request" /\ reboot_down /\ ~misled)
    BY <1>0, <2>1 DEF RebootInv, RequestInv
  <2> QED BY <2>1, <2>2, Zenon DEF RebootInv, RequestInv, AckedInv
<1> QED BY <1>1, <1>2, <1>3, <1>4, <1>5, <1>6, Zenon

(* Time passes: the clocks of the request, of the LiDAR, of the caller and of the *)
(* worker keep together.                                                          *)
LEMMA RebootPass ==
  ASSUME TimeOK, PlaceOK, WaitInv, RebootInv, Pass
  PROVE  RebootInv'
<1> DEFINE u == u_left'
           l == l_left'
           t == told'
<1> HIDE DEF u, l, t
<1>0. /\ PushTimeout \in Nat /\ Half \in Nat /\ Half <= PushTimeout /\ NoAge \notin Nat
      /\ RequestTime \in Nat /\ u_left \in Nat /\ l_left \in Nat /\ w_sent \in Nat /\ w_left \in Nat
      /\ told \in Age
  BY HalfOfTimeout, TimingAssumption, Zenon DEF TimeOK
<1>1. UNCHANGED <<connected, worker, by_reboot, reboot_down, user, lidar, misled>>
  BY Zenon DEF Pass
<1>2. t = Older(told, PushTimeout)
  BY Zenon DEF Pass, t
<1>3. told # NoAge => /\ told \in Nat /\ t \in Nat /\ t \in {told + 1, PushTimeout}
                      /\ t <= told + 1 /\ t <= PushTimeout
  <2>1. told # NoAge => told \in Nat
    BY <1>0, Zenon DEF Age
  <2> QED BY <1>0, <1>2, <2>1, OlderAge, Zenon
<1>4. user = "request" => u = u_left - 1 /\ u_left > 0
  BY Zenon DEF Pass, Quiescent, Less, u
<1>5. lidar = "down" => l = l_left - 1 /\ l_left > 0
  BY Zenon DEF Pass, Quiescent, Less, l
<1>6. RequestInv'
  <2>1. user = "request" => t # NoAge /\ u <= RequestTime
    BY <1>0, <1>3, <1>4 DEF RebootInv, RequestInv
  <2>2. user = "request" /\ reboot_down /\ ~misled /\ lidar = "down" => u < l
    <3> SUFFICES ASSUME user = "request", reboot_down, ~misled, lidar = "down" PROVE u < l
      BY Zenon
    <3>1. u_left < l_left
      BY Zenon DEF RebootInv, RequestInv
    <3> QED BY <1>0, <1>4, <1>5, <3>1
  <2> QED BY <1>1, <2>1, <2>2, Zenon DEF RebootInv, RequestInv, u, l, t
<1>7. AckedInv'
  <2> SUFFICES ASSUME ~connected, by_reboot PROVE AckedInv'
    BY <1>1, Zenon DEF AckedInv
  <2>1. /\ user = "idle" /\ told # NoAge /\ (reboot_down /\ ~misled => lidar # "dying")
        /\ (worker = "power" => told = w_sent)
        /\ (worker \in {"try", "attempt", "backoff"} /\ lidar = "dying" => told >= Half \/ misled)
    BY Zenon DEF RebootInv, AckedInv
  <2>2. t # NoAge
    BY <1>0, <1>3, <2>1, Zenon
  <2>3. worker = "power" => t = w_sent'
    <3> SUFFICES ASSUME worker = "power" PROVE t = w_sent'
      BY Zenon
    <3>1. w_sent' = w_sent + 1 /\ w_left > 0 /\ w_sent + w_left <= PushTimeout
      BY Zenon DEF Pass, Quiescent, WaitInv
    <3>2. w_sent + 1 <= PushTimeout
      BY <1>0, <3>1
    <3>3. t = w_sent + 1
      BY <1>0, <1>3, <2>1, <3>2
    <3> QED BY <3>1, <3>3, Zenon
  <2>4. told >= Half => t >= Half
    BY <1>0, <1>3, <2>1
  <2> QED BY <1>1, <2>1, <2>2, <2>3, <2>4, Zenon DEF AckedInv, t
<1> QED BY <1>6, <1>7, Zenon DEF RebootInv

LEMMA RebootStep ==
  ASSUME RequestTime < BootTime, TimeOK, PlaceOK, WaitInv, RebootInv, [TimingNext]_timingVars
  PROVE  RebootInv'
<1>1. CASE PollTimedOut \/ OnPoint
  <2>1. /\ UNCHANGED <<connected, worker, by_reboot, reboot_down>>
        /\ UNCHANGED <<user, u_left, told, misled, w_sent, lidar, l_left>>
    BY <1>1, Zenon DEF PollTimedOut, OnPoint, deviceVars, workerVars, callerVars, lidarTimes, history
  <2> QED BY <2>1, RebootOthers, Zenon
<1>2. CASE UNCHANGED timingVars
  <2>1. /\ UNCHANGED <<connected, worker, by_reboot, reboot_down>>
        /\ UNCHANGED <<user, u_left, told, misled, w_sent, lidar, l_left>>
    BY <1>2, Zenon DEF timingVars, deviceVars, workerVars, callerVars, lidarTimes, history
  <2> QED BY <2>1, RebootOthers
<1> QED BY <1>1, <1>2, RebootTick, RebootUser, RebootWorker, RebootLidar, RebootPass, Zenon DEF TimingNext

(* After reboot() was acknowledged the worker does not reconnect to the instance    *)
(* that is about to power down before half a push timeout has passed, unless that   *)
(* went into ERROR meanwhile for another reason; whatever the time outs, if the     *)
(* LiDAR takes longer to boot than a request may take (reboot() and                 *)
(* wait_for_power_down(), device.cpp).                                              *)
THEOREM TimingNoEarlyReconnect ==
  RequestTime < BootTime => (TimingSpec => NoEarlyReconnect)
<1> SUFFICES ASSUME RequestTime < BootTime PROVE TimingSpec => NoEarlyReconnect
  BY Zenon
<1> DEFINE Inv == TimeOK /\ PlaceOK /\ WaitInv /\ RebootInv
<1>1. TimingInit => Inv
  BY TimingInitOK, Zenon
<1>2. Inv /\ [TimingNext]_timingVars => Inv'
  BY TimeStep, PlaceStep, WaitStep, RebootStep, Zenon
<1>3. Inv /\ [TimingNext]_timingVars =>
        [worker = "attempt" /\ worker' = "idle" /\ lidar = "dying" /\ by_reboot
           => told # NoAge /\ (told >= Half \/ misled)]_timingVars
  BY Zenon DEF RebootInv, RequestInv, AckedInv
<1> QED BY <1>1, <1>2, <1>3, PTL DEF TimingSpec, NoEarlyReconnect

-----------------------------------------------------------------------------
(* FirmwareLog *)

(* The command side.  Sequence numbers do not wrap while calls are left; an ACK in flight with *)
(* the number of a call not yet made is of an earlier Device.                                  *)
CommandType ==
  /\ pc \in {"idle", "send", "wait"} /\ enable \in BOOLEAN /\ collecting \in BOOLEAN
  /\ calls \in 0 .. MaxCalls

CommandInv ==
  /\ log_next_seq = MaxCalls - calls + 1 /\ log_seq_wanted = MaxCalls - calls
  /\ acks \subseteq Nat \X Answers
  /\ \A a \in acks : a[1] <= log_seq_wanted \/ a[1] \in OldAcks
  /\ calls = MaxCalls => pc = "idle" /\ result # "kSuccess"
  /\ calls < MaxCalls /\ log_ack = "kSuccess" => <<log_seq_wanted, "kSuccess">> \in acks
  /\ calls < MaxCalls /\ <<log_seq_wanted, "kSuccess">> \in acks => collecting = enable

LEMMA LogInitValues ==
  ASSUME LogInit
  PROVE  /\ pc = "idle" /\ enable = FALSE /\ collecting = FALSE /\ calls = MaxCalls
         /\ result = Absent /\ log_next_seq = 1 /\ log_seq_wanted = 0 /\ log_ack = Absent
         /\ acks = OldAcks \X {"kSuccess"}
         /\ files = 0 /\ next = 0 /\ resend = Absent
BY Zenon DEF LogInit

LEMMA LogInitChunks ==
  ASSUME LogInit
  PROVE  /\ log_track = [active |-> FALSE, file_index |-> 0, last_trans |-> 0]
         /\ gapped = [i \in 0 .. FileMod - 1 |-> FALSE]
         /\ writer = [open |-> FALSE, file_index |-> 0]
         /\ disk = [i \in 0 .. FileMod - 1 |-> <<>>]
BY Zenon DEF LogInit

LEMMA CommandTypeStep ==
  ASSUME CommandType, [LogNext]_collectionVars
  PROVE  CommandType'
<1>. USE DEF CommandType, commandVars
<1>1. ASSUME NEW e \in BOOLEAN, Begin(e) PROVE CommandType'
  BY <1>1, FirmwareLogAssumption DEF Begin
<1>2. CASE Send
  BY <1>2, Zenon DEF Send, Return
<1>3. CASE Wake
  BY <1>3, Zenon DEF Wake, Return
<1>4. CASE Cancel
  BY <1>4, Zenon DEF Cancel
<1>5. CASE OnAck
  BY <1>5, Zenon DEF OnAck
<1>6. ASSUME NEW end \in BOOLEAN, LidarPushes(end) PROVE CommandType'
  BY <1>6, Zenon DEF LidarPushes
<1>7. CASE LidarResends
  BY <1>7, Zenon DEF LidarResends
<1>8. CASE EnsureOpen
  BY <1>8, Zenon DEF EnsureOpen
<1>9. CASE UNCHANGED collectionVars
  BY <1>9, Zenon DEF collectionVars
<1>. QED
  BY <1>1, <1>2, <1>3, <1>4, <1>5, <1>6, <1>7, <1>8, <1>9, Zenon DEF LogNext

LEMMA NextSeqGrows ==
  ASSUME NEW s \in 0 .. MaxCalls
  PROVE  NextSeq(s) = s + 1
<1>1. s + 1 \in Nat /\ s + 1 < SeqMod /\ s + 1 # 0 /\ SeqMod \in Nat \ {0}
  BY FirmwareLogAssumption
<1>2. (s + 1) % SeqMod = s + 1
  BY <1>1, Z3
<1>. QED
  BY <1>1, <1>2, Zenon DEF NextSeq

LEMMA CommandStep ==
  ASSUME OldAcks \cap (1 .. MaxCalls) = {}, CommandType, CommandInv, CollectionKnown,
         [LogNext]_collectionVars
  PROVE  CommandInv' /\ CollectionKnown'
<1>. USE DEF CommandType, CommandInv, CollectionKnown, commandVars
<1>1. ASSUME NEW e \in BOOLEAN, Begin(e) PROVE CommandInv' /\ CollectionKnown'
  <2>1. /\ calls \in 1 .. MaxCalls /\ calls' = calls - 1 /\ pc' = "send" /\ log_ack' = Absent
        /\ log_seq_wanted' = log_next_seq /\ acks' = acks /\ result' = Absent
        /\ collecting' = collecting /\ enable' = e
    BY <1>1, FirmwareLogAssumption DEF Begin
  <2>2. log_next_seq' = log_next_seq + 1
    <3>1. log_next_seq \in 0 .. MaxCalls
      BY <2>1, FirmwareLogAssumption
    <3>. QED
      BY <1>1, <3>1, NextSeqGrows, Zenon DEF Begin
  <2>3. \A a \in acks : a[1] # log_next_seq
    BY <2>1, FirmwareLogAssumption
  <2>4. Absent # "kSuccess"
    BY FirmwareLogAssumption, Zenon DEF Answers
  <2>. QED
    BY <2>1, <2>2, <2>3, <2>4, FirmwareLogAssumption
<1>2. CASE Send
  <2>1. /\ pc = "send" /\ calls' = calls /\ enable' = enable /\ log_ack' = log_ack
        /\ log_next_seq' = log_next_seq /\ log_seq_wanted' = log_seq_wanted
        /\ pc' = "idle" => result' # "kSuccess"
    BY <1>2, Zenon DEF Send, Return
  <2>2. calls # MaxCalls
    BY <2>1, Zenon
  <2>3. \/ acks' = acks /\ collecting' = collecting
        \/ \E a \in Answers \ {"kSuccess"} :
             acks' = acks \cup {<<log_seq_wanted, a>>} /\ collecting' = collecting
        \/ acks' = acks \cup {<<log_seq_wanted, "kSuccess">>} /\ collecting' = enable
    BY <1>2, Zenon DEF Send
  <2>4. log_seq_wanted \in Nat
    BY FirmwareLogAssumption
  <2>5. CollectionKnown'
    BY <2>1, Zenon
  <2>6. CASE acks' = acks /\ collecting' = collecting
    BY <2>1, <2>2, <2>5, <2>6, Zenon
  <2>7. ASSUME NEW a \in Answers \ {"kSuccess"},
               acks' = acks \cup {<<log_seq_wanted, a>>} /\ collecting' = collecting
        PROVE  CommandInv'
    BY <2>1, <2>2, <2>4, <2>7 DEF Answers
  <2>8. CASE acks' = acks \cup {<<log_seq_wanted, "kSuccess">>} /\ collecting' = enable
    BY <2>1, <2>2, <2>4, <2>8 DEF Answers
  <2>. QED
    BY <2>3, <2>5, <2>6, <2>7, <2>8, Zenon
<1>3. CASE Wake
  <2>1. /\ pc = "wait" /\ calls' = calls /\ enable' = enable /\ log_ack' = log_ack
        /\ log_next_seq' = log_next_seq /\ log_seq_wanted' = log_seq_wanted
        /\ acks' = acks /\ collecting' = collecting
    BY <1>3, Zenon DEF Wake
  <2>2. calls < MaxCalls
    BY <2>1, FirmwareLogAssumption
  <2>3. pc' = "idle" /\ result' = "kSuccess" => log_ack = "kSuccess" /\ log_requested' = enable
    BY <1>3, Zenon DEF Wake, Return
  <2>. QED
    BY <2>1, <2>2, <2>3, Zenon
<1>4. CASE Cancel
  BY <1>4, Zenon DEF Cancel
<1>5. CASE OnAck
  <2>1. PICK a \in acks : a[1] = log_seq_wanted /\ log_ack' = a[2]
    BY <1>5, Zenon DEF OnAck
  <2>2. a = <<log_seq_wanted, log_ack'>>
    BY <2>1
  <2>. QED
    BY <1>5, <2>2, Zenon DEF OnAck
<1>6. ASSUME NEW end \in BOOLEAN, LidarPushes(end) PROVE CommandInv' /\ CollectionKnown'
  BY <1>6, Zenon DEF LidarPushes
<1>7. CASE LidarResends
  BY <1>7, Zenon DEF LidarResends
<1>8. CASE EnsureOpen
  BY <1>8, Zenon DEF EnsureOpen
<1>9. CASE UNCHANGED collectionVars
  BY <1>9, Zenon DEF collectionVars
<1>. QED
  BY <1>1, <1>2, <1>3, <1>4, <1>5, <1>6, <1>7, <1>8, <1>9, Zenon DEF LogNext

(* A start or stop of the collection that succeeded holds until the next call: the LiDAR does     *)
(* what was asked, and the replay after a reconnect asks for the same, however late and however   *)
(* often the ACKs of earlier calls arrive (send_log_control_locked(), on_log()).  No ACK of an    *)
(* earlier Device of the Context carries a number this Device will use.                           *)
THEOREM LogCollectionKnown ==
  OldAcks \cap (1 .. MaxCalls) = {} => (LogSpec => []CollectionKnown)
<1>. SUFFICES ASSUME OldAcks \cap (1 .. MaxCalls) = {} PROVE LogSpec => []CollectionKnown
  BY Zenon
<1>. DEFINE Inv == CommandType /\ CommandInv /\ CollectionKnown
<1>1. LogInit => Inv
  <2>. SUFFICES ASSUME LogInit PROVE Inv
    BY Zenon
  <2>1. CommandType
    BY LogInitValues, FirmwareLogAssumption DEF CommandType
  <2>2. CommandInv /\ CollectionKnown
    <3>1. acks = OldAcks \X {"kSuccess"}
      BY LogInitValues, Zenon
    <3>2. acks \subseteq Nat \X Answers /\ \A a \in acks : a[1] \in OldAcks
      <4>1. OldAcks \subseteq Nat
        BY FirmwareLogAssumption
      <4>2. \A a \in OldAcks \X {"kSuccess"} : a \in Nat \X Answers /\ a[1] \in OldAcks
        BY <4>1, Zenon DEF Answers
      <4>. QED
        BY <3>1, <4>2, Zenon
    <3>3. /\ log_next_seq = MaxCalls - calls + 1 /\ log_seq_wanted = MaxCalls - calls
          /\ pc = "idle" /\ result # "kSuccess" /\ ~(calls < MaxCalls)
      BY LogInitValues, FirmwareLogAssumption DEF Answers
    <3>. QED
      BY <3>2, <3>3, Zenon DEF CommandInv, CollectionKnown
  <2>. QED
    BY <2>1, <2>2, Zenon
<1>2. Inv /\ [LogNext]_collectionVars => Inv'
  BY CommandTypeStep, CommandStep, Zenon
<1>3. Inv => CollectionKnown
  BY Zenon
<1>. HIDE DEF Inv
<1>. QED
  BY <1>1, <1>2, <1>3, PTL DEF LogSpec

-----------------------------------------------------------------------------
(* The chunks.  A file is named by its index, which does not wrap; what was pushed last is what *)
(* log_track holds and, after a "file end", of an earlier file than the next chunk.             *)
LidarInv ==
  /\ files \in Nat /\ next \in Nat
  /\ files + (IF pc # "idle" /\ enable /\ ~collecting THEN 1 ELSE 0) <= MaxFiles + MaxCalls - calls
  /\ resend # Absent => /\ resend.file = files /\ resend.file_index = files % FileMod
                        /\ resend.trans_index \in Nat /\ resend.end = FALSE

ChunkInv ==
  /\ disk \in [0 .. FileMod - 1 -> Seq([file : Nat, trans : Nat])]
  /\ gapped \in [0 .. FileMod - 1 -> BOOLEAN]
  /\ log_track \in [active : BOOLEAN, file_index : Nat, last_trans : Nat]
  /\ writer \in [open : BOOLEAN, file_index : 0 .. FileMod - 1]
  /\ ~writer.open => \A i \in 0 .. FileMod - 1 : disk[i] = <<>>
  /\ LET d == disk[writer.file_index] IN
     d # <<>> =>
       /\ log_track.file_index = writer.file_index /\ log_track.last_trans = d[Len(d)].trans
       /\ log_track.file_index <= files
       /\ ~log_track.active => log_track.file_index < files

LEMMA LidarStep ==
  ASSUME ~EndAsks, CommandType, LidarInv, [LogNext]_collectionVars
  PROVE  LidarInv'
<1>. USE FirmwareLogAssumption DEF CommandType, LidarInv, lidarVars
<1>1. ASSUME NEW e \in BOOLEAN, Begin(e) PROVE LidarInv'
  BY <1>1 DEF Begin
<1>2. CASE Send
  <2>1. /\ pc = "send" /\ enable' = enable /\ calls' = calls
        /\ \/ UNCHANGED <<collecting, files, next, resend>>
           \/ enable /\ ~collecting /\ collecting' /\ files' = files + 1 /\ next' = 0 /\ resend' = Absent
           \/ (~enable \/ collecting) /\ collecting' = enable /\ UNCHANGED <<files, next, resend>>
    BY <1>2, Zenon DEF Send
  <2>. QED
    BY <2>1
<1>3. CASE Wake
  <2>1. enable' = enable /\ calls' = calls /\ collecting' = collecting /\ UNCHANGED lidarVars /\ pc # "idle"
    BY <1>3, Zenon DEF Wake
  <2>. QED
    BY <2>1
<1>4. CASE Cancel
  BY <1>4, Zenon DEF Cancel
<1>5. CASE OnAck
  BY <1>5, Zenon DEF OnAck
<1>6. ASSUME NEW end \in BOOLEAN, LidarPushes(end) PROVE LidarInv'
  <2>1. UNCHANGED <<pc, enable, calls, collecting>> /\ collecting /\ files' \in Nat /\ next' \in Nat
    BY <1>6 DEF LidarPushes, commandVars
  <2>2. calls' = calls /\ files' + 0 <= MaxFiles + MaxCalls - calls
    BY <1>6 DEF LidarPushes, commandVars
  <2>3. resend' # Absent => ~end /\ resend' = Chunk(end) /\ files' = files
    BY <1>6 DEF LidarPushes
  <2>4. resend' # Absent => /\ resend'.file = files' /\ resend'.file_index = files' % FileMod
                            /\ resend'.trans_index \in Nat /\ resend'.end = FALSE
    BY <2>3 DEF Chunk
  <2>5. (IF pc' # "idle" /\ enable' /\ ~collecting' THEN 1 ELSE 0) = 0 /\ calls' = calls
    BY <2>1, Zenon
  <2>. QED
    BY <2>1, <2>2, <2>4, <2>5, Zenon
<1>7. CASE LidarResends
  BY <1>7, Zenon DEF LidarResends, commandVars
<1>8. CASE EnsureOpen
  BY <1>8, Zenon DEF EnsureOpen, commandVars
<1>9. CASE UNCHANGED collectionVars
  BY <1>9, Zenon DEF collectionVars, commandVars
<1>. QED
  BY <1>1, <1>2, <1>3, <1>4, <1>5, <1>6, <1>7, <1>8, <1>9, Zenon DEF LogNext

(* The cells of a file that is not empty. *)
LEMMA FileCells ==
  ASSUME NEW S, NEW s \in Seq(S)
  PROVE  /\ DOMAIN s = 1 .. Len(s)
         /\ s # <<>> => Len(s) >= 1 /\ 1 \in 1 .. Len(s) /\ Head(s) = s[1]
  OBVIOUS

(* on_log() and LogWriter::on_chunk() with a chunk of the LiDAR's current file, which is not      *)
(* current any more after its "file end".                                                         *)
LEMMA PushStep ==
  ASSUME ChunkInv, GapsReported, files \in Nat, files' \in Nat, files < FileMod,
         NEW c \in [file : Nat, file_index : {files}, trans_index : Nat, end : BOOLEAN],
         files <= files', c.end => files < files', OnPush(c)
  PROVE  ChunkInv' /\ GapsReported'
<1>. USE FirmwareLogAssumption
<1>. DEFINE f == c.file_index
            cell == [file |-> c.file, trans |-> c.trans_index]
            kept == IF Opens(c) THEN <<>> ELSE disk[f]
<1>1. f = files /\ f \in 0 .. FileMod - 1 /\ cell \in [file : Nat, trans : Nat]
  OBVIOUS
<1>2. kept \in Seq([file : Nat, trans : Nat])
  BY <1>1 DEF ChunkInv
<1>3. /\ log_track' = [active |-> ~c.end, file_index |-> f, last_trans |-> c.trans_index]
      /\ gapped' = [gapped EXCEPT ![f] = (gapped[f] /\ ~Opens(c)) \/ IsGap(c)]
      /\ writer' = [open |-> TRUE, file_index |-> f]
      /\ disk' = [disk EXCEPT ![f] = Append(kept, cell)]
  BY Zenon DEF OnPush
<1>. HIDE DEF kept, cell
<1>4. /\ disk' \in [0 .. FileMod - 1 -> Seq([file : Nat, trans : Nat])]
      /\ disk'[f] = Append(kept, cell)
      /\ \A i \in 0 .. FileMod - 1 : i # f => disk'[i] = disk[i]
  BY <1>1, <1>2, <1>3 DEF ChunkInv
<1>5. /\ Append(kept, cell) # <<>> /\ Len(Append(kept, cell)) = Len(kept) + 1
      /\ Append(kept, cell)[Len(kept) + 1] = cell
      /\ \A k \in 1 .. Len(kept) : Append(kept, cell)[k] = kept[k]
      /\ Len(kept) \in Nat
      /\ DOMAIN Append(kept, cell) = 1 .. Len(kept) + 1
      /\ Head(Append(kept, cell)) = Append(kept, cell)[1]
  <2>1. PICK S : kept \in Seq(S) /\ cell \in S
    BY <1>1, <1>2, Zenon
  <2>2. Append(kept, cell) # <<>> /\ Len(Append(kept, cell)) = Len(kept) + 1 /\ Len(kept) \in Nat
    BY <2>1
  <2>3. Append(kept, cell)[Len(kept) + 1] = cell
    BY <2>1
  <2>4. \A k \in 1 .. Len(kept) : Append(kept, cell)[k] = kept[k]
    BY <2>1
  <2>5. DOMAIN Append(kept, cell) = 1 .. Len(kept) + 1 /\ Head(Append(kept, cell)) = Append(kept, cell)[1]
    BY <2>1
  <2>. QED
    BY <2>2, <2>3, <2>4, <2>5, Zenon
<1>6. /\ gapped' \in [0 .. FileMod - 1 -> BOOLEAN]
      /\ gapped'[f] = ((gapped[f] /\ ~Opens(c)) \/ IsGap(c))
      /\ \A i \in 0 .. FileMod - 1 : i # f => gapped'[i] = gapped[i]
  BY <1>1, <1>3, Zenon DEF ChunkInv, IsGap
<1>7. ChunkInv'
  <2>1. disk'[writer'.file_index][Len(disk'[writer'.file_index])].trans = c.trans_index
    BY <1>3, <1>4, <1>5 DEF cell
  <2>2. /\ log_track' \in [active : BOOLEAN, file_index : Nat, last_trans : Nat]
        /\ writer' \in [open : BOOLEAN, file_index : 0 .. FileMod - 1]
        /\ writer'.open /\ log_track'.file_index = writer'.file_index
        /\ log_track'.last_trans = c.trans_index
        /\ log_track'.file_index <= files'
        /\ ~log_track'.active => log_track'.file_index < files'
    BY <1>1, <1>3, Zenon
  <2>. QED
    BY <1>4, <1>6, <2>1, <2>2, Zenon DEF ChunkInv
<1>8. ASSUME Append(kept, cell)[1].trans = 0, ~gapped'[f]
      PROVE  \A k \in 1 .. Len(kept) + 1 : Append(kept, cell)[k].trans = k - 1
  <2>1. CASE kept = <<>>
    BY <1>5, <1>8, <2>1
  <2>2. CASE kept # <<>>
    <3>1. kept = disk[f] /\ ~Opens(c)
      BY <2>2, Zenon DEF kept
    <3>2. writer.open /\ writer.file_index = f /\ c.trans_index # 0
      BY <3>1, Zenon DEF Opens
    <3>3. /\ log_track.file_index = f /\ log_track.last_trans = kept[Len(kept)].trans
          /\ log_track.active
      BY <1>1, <2>2, <3>1, <3>2 DEF ChunkInv
    <3>4. ~gapped[f] /\ ~IsGap(c)
      BY <1>6, <1>8, <3>1, Zenon
    <3>5. c.trans_index = kept[Len(kept)].trans + 1
      BY <3>2, <3>3, <3>4, Zenon DEF IsGap
    <3>6. Len(kept) >= 1 /\ Head(kept).trans = 0
      BY <1>2, <1>5, <1>8, <2>2, FileCells, Zenon
    <3>7. \A k \in 1 .. Len(kept) : kept[k].trans = k - 1
      <4>1. f \in DOMAIN disk
        BY <1>1, Zenon DEF ChunkInv
      <4>2. \A k \in DOMAIN kept : kept[k].trans = k - 1
        BY <2>2, <3>1, <3>4, <3>6, <4>1, Zenon DEF GapsReported
      <4>. QED
        BY <1>2, <4>2, FileCells, Zenon
    <3>8. cell.trans = Len(kept)
      <4>1. kept[Len(kept)].trans = Len(kept) - 1
        <5>1. \A n \in Nat : n >= 1 => n \in 1 .. n
          OBVIOUS
        <5>2. Len(kept) \in 1 .. Len(kept)
          BY <1>5, <3>6, <5>1, Zenon
        <5>. QED
          BY <3>7, <5>2, Zenon
      <4>2. cell.trans = c.trans_index
        BY Zenon DEF cell
      <4>3. \A n \in Nat : n - 1 + 1 = n
        OBVIOUS
      <4>4. Len(kept) - 1 + 1 = Len(kept)
        BY <1>5, <4>3, Zenon
      <4>. QED
        BY <3>5, <4>1, <4>2, <4>4, Zenon
    <3>. QED
      BY <1>5, <3>7, <3>8
  <2>. QED
    BY <2>1, <2>2, Zenon
<1>9. ASSUME NEW i \in DOMAIN disk', disk'[i] # <<>>, Head(disk'[i]).trans = 0, ~gapped'[i]
      PROVE  \A k \in DOMAIN disk'[i] : disk'[i][k].trans = k - 1
  <2>1. i \in 0 .. FileMod - 1
    BY <1>4, Zenon
  <2>2. CASE i = f
    <3>1. DOMAIN disk'[i] = 1 .. Len(kept) + 1 /\ Head(disk'[i]) = Append(kept, cell)[1]
      BY <1>4, <1>5, <2>2, Zenon
    <3>. QED
      BY <1>4, <1>8, <1>9, <2>2, <3>1, Zenon
  <2>3. CASE i # f
    <3>1. i \in DOMAIN disk /\ disk'[i] = disk[i] /\ gapped'[i] = gapped[i]
      BY <1>4, <1>6, <2>1, <2>3, Zenon DEF ChunkInv
    <3>. QED
      BY <1>9, <3>1, Zenon DEF GapsReported
  <2>. QED
    BY <2>2, <2>3, Zenon
<1>. QED
  BY <1>7, <1>9, Zenon DEF GapsReported

LEMMA ChunkStep ==
  ASSUME ~EndAsks, MaxFiles + MaxCalls < FileMod, CommandType, LidarInv, ChunkInv, GapsReported,
         [LogNext]_collectionVars
  PROVE  ChunkInv' /\ GapsReported'
<1>. USE FirmwareLogAssumption
<1>1. files \in Nat /\ next \in Nat /\ files < FileMod
  BY DEF LidarInv, CommandType
<1>2. files % FileMod = files
  BY <1>1, Z3
<1>3. ASSUME UNCHANGED logVars, files' \in Nat, files <= files' PROVE ChunkInv' /\ GapsReported'
  <2>1. UNCHANGED <<log_track, gapped, writer, disk>>
    BY <1>3, Zenon DEF logVars
  <2>2. GapsReported'
    BY <2>1, Zenon DEF GapsReported
  <2>3. log_track.file_index <= files => log_track.file_index <= files'
    BY <1>1, <1>3 DEF ChunkInv
  <2>4. log_track.file_index < files => log_track.file_index < files'
    BY <1>1, <1>3 DEF ChunkInv
  <2>. QED
    BY <2>1, <2>2, <2>3, <2>4, Zenon DEF ChunkInv
<1>4. ASSUME NEW e \in BOOLEAN, Begin(e) PROVE ChunkInv' /\ GapsReported'
  BY <1>1, <1>3, <1>4 DEF Begin, lidarVars
<1>5. CASE Send
  <2>1. UNCHANGED logVars /\ (files' = files \/ files' = files + 1)
    BY <1>5, Zenon DEF Send, lidarVars
  <2>. QED
    BY <1>1, <1>3, <2>1
<1>6. CASE Wake
  <2>1. UNCHANGED logVars /\ files' = files
    BY <1>6, Zenon DEF Wake, lidarVars
  <2>. QED
    BY <1>1, <1>3, <2>1
<1>7. CASE Cancel
  BY <1>1, <1>3, <1>7 DEF Cancel, lidarVars
<1>8. CASE OnAck
  BY <1>1, <1>3, <1>8 DEF OnAck, lidarVars
<1>9. ASSUME NEW end \in BOOLEAN, LidarPushes(end) PROVE ChunkInv' /\ GapsReported'
  <2>1. files' \in Nat /\ files <= files' /\ (end => files < files')
    BY <1>1, <1>9 DEF LidarPushes
  <2>2. CASE UNCHANGED logVars
    BY <1>3, <2>1, <2>2, Zenon
  <2>3. CASE OnPush(Chunk(end))
    <3>1. Chunk(end) \in [file : Nat, file_index : {files}, trans_index : Nat, end : BOOLEAN]
          /\ Chunk(end).end = end
      BY <1>1, <1>2, Zenon DEF Chunk
    <3>. QED
      BY <1>1, <2>1, <2>3, <3>1, PushStep, Zenon
  <2>. QED
    BY <1>9, <2>2, <2>3, Zenon DEF LidarPushes
<1>10. CASE LidarResends
  <2>1. resend # Absent /\ files' = files /\ (UNCHANGED logVars \/ OnPush(resend))
    BY <1>10, Zenon DEF LidarResends
  <2>2. CASE UNCHANGED logVars
    BY <1>1, <1>3, <2>1, <2>2
  <2>3. CASE OnPush(resend)
    <3>. DEFINE c == [file |-> files, file_index |-> files, trans_index |-> resend.trans_index,
                      end |-> FALSE]
    <3>1. OnPush(c)
      BY <1>2, <2>1, <2>3, Zenon DEF LidarInv, OnPush, Opens, IsGap
    <3>2. c \in [file : Nat, file_index : {files}, trans_index : Nat, end : BOOLEAN] /\ ~c.end
      BY <1>1, <2>1, Zenon DEF LidarInv
    <3>. HIDE DEF c
    <3>. QED
      BY <1>1, <2>1, <3>1, <3>2, PushStep
  <2>. QED
    BY <2>1, <2>2, <2>3, Zenon
<1>11. CASE EnsureOpen
  <2>1. /\ ~writer.open /\ writer' = [open |-> TRUE, file_index |-> 0]
        /\ disk' = [disk EXCEPT ![0] = <<>>] /\ UNCHANGED <<log_track, gapped, files>>
    BY <1>11, Zenon DEF EnsureOpen, lidarVars
  <2>2. \A i \in 0 .. FileMod - 1 : disk[i] = <<>>
    BY <2>1, Zenon DEF ChunkInv
  <2>3. disk' = disk /\ disk[0] = <<>>
    BY <2>1, <2>2 DEF ChunkInv
  <2>4. ChunkInv'
    BY <2>1, <2>2, <2>3 DEF ChunkInv
  <2>5. disk' = disk /\ gapped' = gapped
    BY <2>1, <2>3, Zenon
  <2>6. GapsReported'
    BY <2>5, Zenon DEF GapsReported
  <2>. QED
    BY <2>4, <2>6, Zenon
<1>12. CASE UNCHANGED collectionVars
  BY <1>1, <1>3, <1>12 DEF collectionVars, lidarVars, logVars
<1>. QED
  BY <1>4, <1>5, <1>6, <1>7, <1>8, <1>9, <1>10, <1>11, <1>12, Zenon DEF LogNext

(* A file on disk that starts with its "file begin" and has no gap reported holds the chunks of    *)
(* the file in order and once each, whatever chunks and ACKs are lost and whatever the LiDAR       *)
(* resends (on_log(), LogWriter::on_chunk()), when it does not resend a "file end" and no index    *)
(* names two files of the collection.                                                              *)
THEOREM LogGapsReported ==
  ~EndAsks /\ MaxFiles + MaxCalls < FileMod => (LogSpec => []GapsReported)
<1>. SUFFICES ASSUME ~EndAsks, MaxFiles + MaxCalls < FileMod PROVE LogSpec => []GapsReported
  BY Zenon
<1>. DEFINE Inv == CommandType /\ LidarInv /\ ChunkInv /\ GapsReported
<1>1. LogInit => Inv
  <2>. SUFFICES ASSUME LogInit PROVE Inv
    BY Zenon
  <2>1. CommandType /\ LidarInv
    BY LogInitValues, FirmwareLogAssumption DEF CommandType, LidarInv
  <2>2. \A i \in 0 .. FileMod - 1 : disk[i] = <<>> /\ gapped[i] = FALSE
    BY LogInitChunks, Zenon
  <2>3. ChunkInv
    <3>1. /\ disk \in [0 .. FileMod - 1 -> Seq([file : Nat, trans : Nat])]
          /\ gapped \in [0 .. FileMod - 1 -> BOOLEAN]
      <4>1. <<>> \in Seq([file : Nat, trans : Nat])
        OBVIOUS
      <4>. QED
        BY LogInitChunks, <4>1, Zenon
    <3>2. /\ log_track \in [active : BOOLEAN, file_index : Nat, last_trans : Nat]
          /\ writer \in [open : BOOLEAN, file_index : 0 .. FileMod - 1]
      <4>1. 0 \in Nat /\ 0 \in 0 .. FileMod - 1
        BY FirmwareLogAssumption
      <4>2. /\ log_track = [active |-> FALSE, file_index |-> 0, last_trans |-> 0]
            /\ writer = [open |-> FALSE, file_index |-> 0]
        BY LogInitChunks, Zenon
      <4>3. writer \in [open : BOOLEAN, file_index : 0 .. FileMod - 1]
        BY <4>1, <4>2
      <4>4. log_track \in [active : BOOLEAN, file_index : Nat, last_trans : Nat]
        BY <4>1, <4>2
      <4>. QED
        BY <4>3, <4>4, Zenon
    <3>3. disk[writer.file_index] = <<>>
      BY <2>2, <3>2
    <3>. QED
      BY <2>2, <3>1, <3>2, <3>3, Zenon DEF ChunkInv
  <2>4. GapsReported
    BY LogInitChunks, <2>2, Zenon DEF GapsReported
  <2>. QED
    BY <2>1, <2>3, <2>4, Zenon
<1>2. Inv /\ [LogNext]_collectionVars => Inv'
  BY CommandTypeStep, LidarStep, ChunkStep, Zenon
<1>3. Inv => GapsReported
  BY Zenon
<1>. HIDE DEF Inv
<1>. QED
  BY <1>1, <1>2, <1>3, PTL DEF LogSpec

-----------------------------------------------------------------------------
(* Discovery *)

Datagrams == [lidar : Lidars, ack : BOOLEAN]

(* A LiDAR that is in found; a datagram in a socket that poll() reported and is not drained yet. *)
Heard(l) == \E i \in DOMAIN found : found[i] = l

Pending(d) ==
  at = "drain" /\ \E i \in DOMAIN ready : \E k \in DOMAIN rx[ready[i]] : rx[ready[i]][k] = d

DiscoveryType ==
  /\ options \in [targets : SUBSET Ips, bind_address : {"any", "host"},
                  device_type : {"any", "kMid360"}]
  /\ rx \in [Sockets -> Seq(Datagrams)]
  /\ \A s \in Sockets \ socks : rx[s] = <<>>
  /\ ready \in Seq(Sockets) /\ found \in Seq(Lidars)
  /\ at = "open" => socks = {}

FoundInv ==
  /\ \A i, j \in DOMAIN found : found[i].serial = found[j].serial => i = j
  /\ \A i \in DOMAIN found : options.device_type \in {"any", found[i].type}
  /\ options.device_type = "any" => \A t \in answered : \E i \in DOMAIN found : found[i].ip = t
  /\ \A d \in polled : d.ack /\ wanted(d) => Heard(d.lidar) \/ Pending(d)
  /\ outcome = "found" => /\ at = "returned"
                          /\ expired \/ (options.targets # {} /\ answered = options.targets)


LEMMA FoundImpliesComplete ==
  ASSUME DiscoveryType, FoundInv
  PROVE  DiscoverComplete
<1>1. \A l : l \in Range(found) <=> Heard(l)
  BY Zenon DEF Heard, Range
<1>2. ASSUME outcome = "found" PROVE \A d : ~Pending(d)
  BY <1>2, Zenon DEF FoundInv, Pending
<1>3. HeardIsFound
  <2>. SUFFICES ASSUME outcome = "found"
               PROVE  /\ \A d \in polled : d.ack /\ wanted(d) => d.lidar \in Range(found)
                      /\ \A l \in Range(found) : options.device_type \in {"any", l.type}
    BY Zenon DEF HeardIsFound, FoundInv
  <2>1. \A d \in polled : d.ack /\ wanted(d) => Heard(d.lidar)
    BY <1>2, Zenon DEF FoundInv
  <2>2. ASSUME NEW l \in Range(found) PROVE options.device_type \in {"any", l.type}
    BY <2>2, Zenon DEF FoundInv, Range
  <2>. QED
    BY <1>1, <2>1, <2>2, Zenon
<1>4. EarlyOnlyWhenAllAnswered
  <2>. SUFFICES ASSUME outcome = "found", ~expired
               PROVE  /\ options.targets # {}
                      /\ options.device_type = "any" =>
                           options.targets \subseteq {l.ip : l \in Range(found)}
    BY Zenon DEF EarlyOnlyWhenAllAnswered
  <2>1. options.targets # {} /\ answered = options.targets
    BY Zenon DEF FoundInv
  <2>2. ASSUME options.device_type = "any", NEW t \in options.targets
        PROVE  t \in {l.ip : l \in Range(found)}
    <3>1. PICK i \in DOMAIN found : found[i].ip = t
      BY <2>1, <2>2, Zenon DEF FoundInv
    <3>2. found[i] \in Range(found)
      BY Zenon DEF Range
    <3>. QED
      BY <3>1, <3>2, Zenon
  <2>. QED
    BY <2>1, <2>2, Zenon
<1>. QED
  BY <1>3, <1>4, Zenon DEF DiscoverComplete

(* A step that leaves the datagrams and the results alone, or ends the call without result.      *)
LEMMA QuietStep ==
  ASSUME DiscoveryType, FoundInv, UNCHANGED <<options, found, answered, polled>>,
         expired => expired',
         \/ /\ UNCHANGED <<rx, ready, outcome>> /\ socks \subseteq socks'
            /\ at' \notin {"open", "drain"} /\ at \notin {"drain", "returned"}
         \/ DiscoverReturns("kTransport") /\ at # "drain"
         \/ DiscoverReturns("kCancelled") /\ at # "drain"
         \/ DiscoverReturns("found") /\ at # "drain" /\ expired
         \/ UNCHANGED <<rx, socks, ready, outcome, at>>
  PROVE  DiscoveryType' /\ FoundInv'
<1>1. DiscoveryType'
  <2>1. options' = options /\ found' = found
    BY Zenon
  <2>2. CASE rx' = rx /\ ready' = ready /\ socks \subseteq socks' /\ (at' = "open" => socks' = {})
    BY <2>1, <2>2, Zenon DEF DiscoveryType
  <2>3. CASE rx' = [s \in DOMAIN rx |-> <<>>] /\ ready' = <<>> /\ socks' = {}
    <3>1. <<>> \in Seq(Datagrams) /\ <<>> \in Seq(Sockets)
      OBVIOUS
    <3>2. rx' \in [Sockets -> Seq(Datagrams)] /\ \A s \in Sockets : rx'[s] = <<>>
      BY <2>3, <3>1, Zenon DEF DiscoveryType
    <3>. QED
      BY <2>1, <2>3, <3>1, <3>2, Zenon DEF DiscoveryType
  <2>. QED
    BY <2>2, <2>3, Zenon DEF DiscoverReturns, DiscoveryType
<1>2. \A d : wanted(d)' <=> wanted(d)
  BY Zenon DEF wanted
<1>3. \A l : Heard(l)' <=> Heard(l)
  BY Zenon DEF Heard
<1>4. \A d : Pending(d) => Pending(d)'
  BY Zenon DEF Pending, DiscoverReturns
<1>5. outcome' = "found" => /\ at' = "returned"
                            /\ expired' \/ (options'.targets # {} /\ answered' = options'.targets)
  BY Zenon DEF DiscoverReturns, FoundInv
<1>. QED
  BY <1>1, <1>2, <1>3, <1>4, <1>5, Zenon DEF FoundInv

LEMMA DiscoveryInitInv == DiscoveryInit => DiscoveryType /\ FoundInv
<1>. SUFFICES ASSUME DiscoveryInit PROVE DiscoveryType /\ FoundInv
  BY Zenon
<1>1. /\ options \in [targets : SUBSET Ips, bind_address : {"any", "host"},
                      device_type : {"any", "kMid360"}]
      /\ rx = [s \in Sockets |-> <<>>] /\ ready = <<>> /\ found = <<>> /\ answered = {}
      /\ outcome = "none" /\ polled = {} /\ socks = {}
  BY Zenon DEF DiscoveryInit
<1>2. DiscoveryType
  <2>1. <<>> \in Seq(Datagrams) /\ <<>> \in Seq(Sockets) /\ <<>> \in Seq(Lidars)
    OBVIOUS
  <2>. QED
    BY <1>1, <2>1, Zenon DEF DiscoveryType
<1>3. FoundInv
  <2>1. DOMAIN found = {} /\ outcome # "found" /\ answered = {} /\ polled = {}
    BY <1>1
  <2>. QED
    BY <2>1, Zenon DEF FoundInv
<1>. QED
  BY <1>2, <1>3, Zenon

(* poll() reports every watched socket that holds a datagram. *)
LEMMA ReadableAll ==
  /\ Readable \in Seq(Sockets)
  /\ \A s \in Sockets : s \in socks /\ rx[s] # <<>> =>
       Readable # <<>> /\ \E i \in DOMAIN Readable : Readable[i] = s
<1>. DEFINE a == "sock"
            b == "broadcast_sock"
            ab == <<a>> \o <<b>>
            A == a \in socks /\ rx[a] # <<>>
            B == b \in socks /\ rx[b] # <<>>
<1>1. /\ Reported(a) = IF A THEN <<a>> ELSE <<>>
      /\ Reported(b) = IF B THEN <<b>> ELSE <<>>
      /\ Readable = Reported(a) \o Reported(b)
  BY Zenon DEF Readable, Reported
<1>2. /\ <<a>> \o <<>> = <<a>> /\ <<>> \o <<b>> = <<b>>
      /\ <<>> \o <<>> = <<>>
  <2>1. {<<>>, <<a>>, <<b>>} \subseteq Seq({a, b})
    OBVIOUS
  <2>2. \A q \in Seq({a, b}) : q \o <<>> = q
    OBVIOUS
  <2>3. \A q \in Seq({a, b}) : <<>> \o q = q
    OBVIOUS
  <2>. QED
    BY <2>1, <2>2, <2>3, Zenon
<1>3. Readable = IF A THEN IF B THEN ab ELSE <<a>> ELSE IF B THEN <<b>> ELSE <<>>
  BY <1>1, <1>2, Zenon
<1>4. /\ {<<>>, <<a>>, <<b>>, ab} \subseteq Seq(Sockets)
      /\ <<a>> # <<>> /\ 1 \in DOMAIN <<a>> /\ <<a>>[1] = a
      /\ <<b>> # <<>> /\ 1 \in DOMAIN <<b>> /\ <<b>>[1] = b
      /\ ab # <<>> /\ 1 \in DOMAIN ab /\ ab[1] = a
      /\ 2 \in DOMAIN ab /\ ab[2] = b
  BY DEF Sockets
<1>5. \A s \in Sockets : s = a \/ s = b
  BY Zenon DEF Sockets
<1>. HIDE DEF a, b, ab
<1>6. Readable \in Seq(Sockets)
  BY <1>3, <1>4, Zenon
<1>7. A => Readable # <<>> /\ \E i \in DOMAIN Readable : Readable[i] = a
  BY <1>3, <1>4, Zenon
<1>8. B => Readable # <<>> /\ \E i \in DOMAIN Readable : Readable[i] = b
  BY <1>3, <1>4, Zenon
<1>. QED
  BY <1>5, <1>6, <1>7, <1>8, Zenon

LEMMA AfterHead ==
  ASSUME NEW S, NEW q \in Seq(S), q # <<>>
  PROVE  /\ Head(q) \in S /\ Head(q) = q[1] /\ Tail(q) \in Seq(S)
         /\ \A k \in DOMAIN q : k # 1 => k - 1 \in DOMAIN Tail(q) /\ Tail(q)[k - 1] = q[k]
OBVIOUS

LEMMA PollStep ==
  ASSUME DiscoveryType, FoundInv, PollerWait
  PROVE  DiscoveryType' /\ FoundInv'
<1>1. CASE DiscoverReturns("kTransport") /\ UNCHANGED polled
  <2>1. UNCHANGED <<options, found, answered, polled, expired>> /\ at # "drain"
    BY <1>1, Zenon DEF PollerWait
  <2>. QED
    BY <1>1, <2>1, QuietStep, Zenon
<1>2. CASE /\ at' = IF Readable = <<>> THEN "loop" ELSE "drain"
           /\ ready' = Readable
           /\ polled' = UNION {Range(rx[s]) : s \in DOMAIN rx}
           /\ UNCHANGED <<socks, rx, outcome>>
  <2>1. UNCHANGED <<options, found, answered, expired, socks, rx, outcome>> /\ at = "wait"
    BY <1>2, Zenon DEF PollerWait
  <2>2. Readable \in Seq(Sockets)
    BY ReadableAll, Zenon
  <2>3. ASSUME NEW s \in Sockets, rx[s] # <<>>
        PROVE  Readable # <<>> /\ \E i \in DOMAIN Readable : Readable[i] = s
    <3>1. s \in socks
      BY <2>3, Zenon DEF DiscoveryType
    <3>. QED
      BY <2>3, <3>1, ReadableAll, Zenon
  <2>4. DiscoveryType'
    BY <1>2, <2>1, <2>2, Zenon DEF DiscoveryType
  <2>5. ASSUME NEW d \in polled' PROVE Pending(d)'
    <3>1. PICK s \in Sockets : d \in Range(rx[s])
      BY <1>2, <2>5, Zenon DEF DiscoveryType
    <3>2. PICK k \in DOMAIN rx[s] : rx[s][k] = d
      BY <3>1, Zenon DEF Range
    <3>3. rx[s] # <<>>
      BY <3>2
    <3>. QED
      BY <1>2, <2>1, <2>3, <3>2, <3>3, Zenon DEF Pending
  <2>6. outcome' # "found"
    BY <2>1, Zenon DEF FoundInv
  <2>7. FoundInv'
    BY <2>1, <2>5, <2>6, Zenon DEF FoundInv
  <2>. QED
    BY <2>4, <2>7, Zenon
<1>. QED
  BY <1>1, <1>2, Zenon DEF PollerWait

LEMMA DrainStep ==
  ASSUME DiscoveryType, FoundInv, Drain
  PROVE  DiscoveryType' /\ FoundInv'
<1>1. at = "drain" /\ UNCHANGED <<options, expired, polled>>
  BY Zenon DEF Drain
<1>2. \A d : wanted(d)' <=> wanted(d)
  BY <1>1, Zenon DEF wanted
<1>3. CASE ready = <<>>
  <2>1. UNCHANGED <<found, answered>>
    BY <1>3, Zenon DEF Drain
  <2>2. /\ \/ /\ DiscoverReturns("found") /\ unicast /\ answered = options.targets
           \/ /\ at' = "loop" /\ UNCHANGED <<socks, ready, rx, outcome>>
    BY <1>3, Zenon DEF Drain
  <2>3. \A d : ~Pending(d)
    BY <1>3 DEF Pending
  <2>4. \A l : Heard(l)' <=> Heard(l)
    BY <2>1, Zenon DEF Heard
  <2>5. DiscoveryType'
    <3>1. CASE rx' = rx /\ ready' = ready /\ socks' = socks /\ at' # "open"
      BY <1>1, <2>1, <3>1, Zenon DEF DiscoveryType
    <3>2. CASE rx' = [s \in DOMAIN rx |-> <<>>] /\ ready' = <<>> /\ socks' = {}
      <4>1. <<>> \in Seq(Datagrams) /\ <<>> \in Seq(Sockets)
        OBVIOUS
      <4>2. rx' \in [Sockets -> Seq(Datagrams)] /\ \A s \in Sockets : rx'[s] = <<>>
        BY <3>2, <4>1, Zenon DEF DiscoveryType
      <4>. QED
        BY <1>1, <2>1, <3>2, <4>1, <4>2, Zenon DEF DiscoveryType
    <3>. QED
      BY <2>2, <3>1, <3>2, Zenon DEF DiscoverReturns
  <2>6. outcome # "found"
    BY <1>1, Zenon DEF FoundInv
  <2>7. outcome' = "found" => /\ at' = "returned"
                              /\ options'.targets # {} /\ answered' = options'.targets
    BY <1>1, <2>1, <2>2, <2>6, Zenon DEF DiscoverReturns, unicast
  <2>8. FoundInv'
    BY <1>1, <1>2, <2>1, <2>3, <2>4, <2>7, Zenon DEF FoundInv
  <2>. QED
    BY <2>5, <2>8
<1>4. CASE ready # <<>> /\ rx[Head(ready)] = <<>>
  <2>1. ready' = Tail(ready) /\ UNCHANGED <<at, socks, rx, outcome, found, answered>>
    BY <1>4, Zenon DEF Drain
  <2>2. DiscoveryType'
    BY <1>1, <1>4, <2>1 DEF DiscoveryType
  <2>3. ASSUME NEW d, Pending(d) PROVE Pending(d)'
    <3>1. PICK i \in DOMAIN ready : \E k \in DOMAIN rx[ready[i]] : rx[ready[i]][k] = d
      BY <2>3, Zenon DEF Pending
    <3>2. i # 1
      <4>1. Head(ready) = ready[1]
        BY <1>4 DEF DiscoveryType
      <4>2. DOMAIN rx[ready[1]] = {}
        BY <1>4, <4>1
      <4>. QED
        BY <3>1, <4>2, Zenon
    <3>3. i - 1 \in DOMAIN Tail(ready) /\ Tail(ready)[i - 1] = ready[i]
      <4>1. ready \in Seq(Sockets)
        BY DEF DiscoveryType
      <4>. QED
        BY <1>4, <3>1, <3>2, <4>1, AfterHead, Zenon
    <3>. QED
      BY <1>1, <2>1, <3>1, <3>3, Zenon DEF Pending
  <2>4. \A l : Heard(l)' <=> Heard(l)
    BY <2>1, Zenon DEF Heard
  <2>5. FoundInv'
    BY <1>1, <1>2, <2>1, <2>3, <2>4, Zenon DEF FoundInv
  <2>. QED
    BY <2>2, <2>5
<1>5. CASE ready # <<>> /\ rx[Head(ready)] # <<>>
  <2>0. PICK s, q, d : s = Head(ready) /\ q = rx[s] /\ d = Head(q)
    BY Zenon
  <2>. DEFINE takes == d.ack /\ wanted(d) /\ ~Dup(d)
  <2>1. /\ rx' = [rx EXCEPT ![s] = Tail(q)]
        /\ found' = IF takes THEN Append(found, d.lidar) ELSE found
        /\ answered' = answered \cup IF d.ack THEN AnsweredBy(d) ELSE {}
        /\ UNCHANGED <<at, socks, ready, outcome>>
    BY <1>5, <2>0, Zenon DEF Drain
  <2>2. s \in Sockets /\ q \in Seq(Datagrams) /\ q # <<>> /\ s = ready[1]
    BY <1>5, <2>0 DEF DiscoveryType
  <2>3. d \in Datagrams /\ d = q[1] /\ Tail(q) \in Seq(Datagrams)
        /\ \A k \in DOMAIN q : k # 1 => k - 1 \in DOMAIN Tail(q) /\ Tail(q)[k - 1] = q[k]
    BY <2>0, <2>2, AfterHead, Zenon
  <2>4. d.lidar \in Lidars /\ d.ack \in BOOLEAN
    BY <2>3, Zenon DEF Datagrams
  <2>5. found \in Seq(Lidars) /\ Len(found) \in Nat /\ DOMAIN found = 1 .. Len(found)
    BY DEF DiscoveryType
  <2>6. /\ found' \in Seq(Lidars)
        /\ \A i \in DOMAIN found : i \in DOMAIN found' /\ found'[i] = found[i]
        /\ \A i \in DOMAIN found' : i \in DOMAIN found \/ (takes /\ found'[i] = d.lidar /\ i = Len(found) + 1)
        /\ takes => Len(found) + 1 \in DOMAIN found' /\ found'[Len(found) + 1] = d.lidar
    <3>1. CASE takes
      <4>. HIDE DEF takes
      <4>1. found' = Append(found, d.lidar)
        BY <2>1, <3>1, Zenon
      <4>. QED
        BY <2>4, <2>5, <3>1, <4>1
    <3>2. CASE ~takes
      BY <2>1, <2>5, <3>2, Zenon
    <3>. QED
      BY <3>1, <3>2, Zenon
  <2>7. rx' \in [Sockets -> Seq(Datagrams)] /\ rx'[s] = Tail(q)
        /\ \A z \in Sockets : z # s => rx'[z] = rx[z]
    BY <2>0, <2>1, <2>2, <2>3, Zenon DEF DiscoveryType
  <2>8. DiscoveryType'
    <3>1. s \in socks
      BY <2>0, <2>2, Zenon DEF DiscoveryType
    <3>. QED
      BY <1>1, <2>1, <2>6, <2>7, <3>1, Zenon DEF DiscoveryType
  <2>9. \A l : Heard(l) => Heard(l)'
    BY <2>6, Zenon DEF Heard
  <2>10. d.ack /\ wanted(d) => Heard(d.lidar)'
    <3>1. CASE Dup(d)
      <4>1. PICK i \in DOMAIN found : found[i].serial = d.lidar.serial
        BY <3>1, Zenon DEF Dup
      <4>2. found[i] = d.lidar
        BY <2>4, <2>5, <4>1, DiscoveryAssumption
      <4>. QED
        BY <2>9, <4>2, Zenon DEF Heard
    <3>2. CASE ~Dup(d)
      BY <2>6, <3>2, Zenon DEF Heard
    <3>. QED
      BY <3>1, <3>2, Zenon
  <2>11. ASSUME NEW e, Pending(e) PROVE e = d \/ Pending(e)'
    <3>1. PICK i \in DOMAIN ready : \E k \in DOMAIN rx[ready[i]] : rx[ready[i]][k] = e
      BY <2>11 DEF Pending
    <3>2. ready[i] \in Sockets
      BY DEF DiscoveryType
    <3>3. CASE ready[i] = s
      <4>1. PICK k \in DOMAIN q : q[k] = e
        BY <2>0, <3>1, <3>3, Zenon
      <4>. QED
        <5>1. CASE k = 1
          BY <2>3, <4>1, <5>1, Zenon
        <5>2. CASE k # 1
          <6>1. k - 1 \in DOMAIN rx'[ready[i]] /\ rx'[ready[i]][k - 1] = e
            BY <2>3, <2>7, <3>3, <4>1, <5>2, Zenon
          <6>. QED
            BY <1>1, <2>1, <6>1, Zenon DEF Pending
        <5>. QED
          BY <5>1, <5>2, Zenon
    <3>4. CASE ready[i] # s
      <4>1. rx'[ready[i]] = rx[ready[i]]
        BY <2>7, <3>2, <3>4, Zenon
      <4>2. i \in DOMAIN ready' /\ \E k \in DOMAIN rx'[ready'[i]] : rx'[ready'[i]][k] = e
        BY <2>1, <3>1, <4>1, Zenon
      <4>3. at' = "drain"
        BY <1>1, <2>1, Zenon
      <4>. QED
        BY <4>2, <4>3, Zenon DEF Pending
    <3>. QED
      BY <3>3, <3>4, Zenon
  <2>12. \A i, j \in DOMAIN found' : found'[i].serial = found'[j].serial => i = j
    <3>1. takes => \A i \in DOMAIN found : found[i].serial # d.lidar.serial
      BY Zenon DEF Dup
    <3>2. \A i, j \in DOMAIN found : found[i].serial = found[j].serial => i = j
      BY Zenon DEF FoundInv
    <3>. SUFFICES ASSUME NEW i \in DOMAIN found', NEW j \in DOMAIN found',
                         found'[i].serial = found'[j].serial
                  PROVE  i = j
      BY Zenon
    <3>. HIDE DEF takes
    <3>3. CASE i \in DOMAIN found /\ j \in DOMAIN found
      BY <2>6, <3>2, <3>3, Zenon
    <3>4. CASE i \in DOMAIN found /\ j \notin DOMAIN found
      BY <2>6, <3>1, <3>4, Zenon
    <3>5. CASE i \notin DOMAIN found /\ j \in DOMAIN found
      BY <2>6, <3>1, <3>5, Zenon
    <3>6. CASE i \notin DOMAIN found /\ j \notin DOMAIN found
      BY <2>6, <3>6, Zenon
    <3>. QED
      BY <3>3, <3>4, <3>5, <3>6, Zenon
  <2>13. \A i \in DOMAIN found' : options'.device_type \in {"any", found'[i].type}
    <3>1. takes => options.device_type \in {"any", d.lidar.type}
      BY Zenon DEF wanted
    <3>. QED
      BY <1>1, <2>6, <3>1, Zenon DEF FoundInv
  <2>14. ASSUME options'.device_type = "any", NEW t \in answered'
         PROVE  \E i \in DOMAIN found' : found'[i].ip = t
    <3>1. CASE t \in answered
      <4>1. PICK i \in DOMAIN found : found[i].ip = t
        BY <1>1, <2>14, <3>1, Zenon DEF FoundInv
      <4>. QED
        BY <2>6, <4>1, Zenon
    <3>2. CASE t \notin answered
      <4>1. d.ack /\ t = d.lidar.ip
        BY <2>1, <2>14, <3>2, Zenon DEF AnsweredBy
      <4>2. wanted(d)
        BY <1>1, <2>14, Zenon DEF wanted
      <4>. QED
        BY <2>10, <4>1, <4>2, Zenon DEF Heard
    <3>. QED
      BY <3>1, <3>2, Zenon
  <2>15. ASSUME NEW e \in polled', e.ack, wanted(e)' PROVE Heard(e.lidar)' \/ Pending(e)'
    <3>1. Heard(e.lidar) \/ Pending(e)
      BY <1>1, <1>2, <2>15, Zenon DEF FoundInv
    <3>. QED
      BY <1>2, <2>9, <2>10, <2>11, <2>15, <3>1, Zenon
  <2>16. outcome' # "found"
    BY <1>1, <2>1, Zenon DEF FoundInv
  <2>17. FoundInv'
    BY <2>12, <2>13, <2>14, <2>15, <2>16, Zenon DEF FoundInv
  <2>. QED
    BY <2>8, <2>17
<1>. QED
  BY <1>3, <1>4, <1>5, Zenon

LEMMA DiscoveryStep ==
  ASSUME DiscoveryType, FoundInv, [DiscoveryNext]_discoveryVars
  PROVE  DiscoveryType' /\ FoundInv'
<1>1. CASE OpenSocket
  <2>1. UNCHANGED <<options, found, answered, polled, expired>> /\ at = "open"
    BY <1>1, Zenon DEF OpenSocket
  <2>. QED
    BY <1>1, <2>1, QuietStep DEF OpenSocket, DiscoveryType
<1>2. CASE OpenBroadcast
  BY <1>2, QuietStep, Zenon DEF OpenBroadcast
<1>3. CASE SendRequest
  BY <1>3, QuietStep, Zenon DEF SendRequest
<1>4. CASE CheckDeadline
  BY <1>4, QuietStep, Zenon DEF CheckDeadline
<1>5. CASE PollerWait
  BY <1>5, PollStep, Zenon
<1>6. CASE Drain
  BY <1>6, DrainStep
<1>7. ASSUME NEW l \in Lidars, Answer(l) PROVE DiscoveryType' /\ FoundInv'
  <2>1. PICK s \in socks, ack \in BOOLEAN :
          rx' = [rx EXCEPT ![s] = Append(rx[s], [lidar |-> l, ack |-> ack])]
    BY <1>7, Zenon DEF Answer
  <2>2. UNCHANGED <<options, at, socks, ready, found, answered, expired, outcome, polled>>
    BY <1>7, Zenon DEF Answer
  <2>3. CASE s \in Sockets
    <3>1. [lidar |-> l, ack |-> ack] \in Datagrams
      BY Zenon DEF Datagrams
    <3>2. rx' \in [Sockets -> Seq(Datagrams)]
          /\ \A z \in Sockets : /\ z # s => rx'[z] = rx[z]
                                /\ \A k \in DOMAIN rx[z] : k \in DOMAIN rx'[z] /\ rx'[z][k] = rx[z][k]
      BY <2>1, <2>3, <3>1 DEF DiscoveryType
    <3>3. DiscoveryType'
      BY <2>2, <3>2, Zenon DEF DiscoveryType
    <3>4. \A d : Pending(d) => Pending(d)'
      BY <2>2, <3>2 DEF Pending, DiscoveryType
    <3>5. /\ \A d : wanted(d)' <=> wanted(d)
          /\ \A m : Heard(m)' <=> Heard(m)
      BY <2>2, Zenon DEF wanted, Heard
    <3>6. FoundInv'
      BY <2>2, <3>4, <3>5, Zenon DEF FoundInv
    <3>. QED
      BY <3>3, <3>6, Zenon
  <2>4. CASE s \notin Sockets
    BY <2>1, <2>2, <2>4, QuietStep, Zenon DEF DiscoveryType
  <2>. QED
    BY <2>3, <2>4, Zenon
<1>8. CASE Expire
  BY <1>8, QuietStep, Zenon DEF Expire
<1>9. CASE RequestStop
  BY <1>9, QuietStep, Zenon DEF RequestStop
<1>10. CASE UNCHANGED discoveryVars
  BY <1>10, QuietStep, Zenon DEF discoveryVars
<1>. QED
  BY <1>1, <1>2, <1>3, <1>4, <1>5, <1>6, <1>7, <1>8, <1>9, <1>10, Zenon DEF DiscoveryNext, Discover

(* What discover() returns is complete, with any number of LiDARs at any addresses and any         *)
(* number of datagrams: every LiDAR of the wanted type whose ACK was in either socket at the last  *)
(* poll, once, and before the deadline only when all targets have answered.                        *)
THEOREM DiscoveryComplete == DiscoverySpec => []DiscoverComplete
<1>. DEFINE Inv == DiscoveryType /\ FoundInv
<1>1. DiscoveryInit => Inv
  BY DiscoveryInitInv, Zenon
<1>2. Inv /\ [DiscoveryNext]_discoveryVars => Inv'
  BY DiscoveryStep, Zenon
<1>3. Inv => DiscoverComplete
  BY FoundImpliesComplete, Zenon
<1>. HIDE DEF Inv
<1>. QED
  BY <1>1, <1>2, <1>3, PTL DEF DiscoverySpec
=============================================================================
