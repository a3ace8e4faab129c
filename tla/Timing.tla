------------------------------- MODULE Timing -------------------------------
(***************************************************************************)
(* The deadlines of a Device: tick() and connection_tick() on the receive  *)
(* thread, with the poll timeout of the receive loop, reboot() on a user   *)
(* thread, and wait_for_power_down() and the attempts of the worker        *)
(* (src/src/device.cpp, src/src/context.cpp).                              *)
(*                                                                         *)
(* Time is discrete and kept as ages and as times left, so the model has   *)
(* no clock that grows.  A thread that has something to do does it before  *)
(* time passes.  The LiDAR is external: it pushes its state every          *)
(* PushPeriod, any push may be lost or lack the state, and it may be in    *)
(* ERROR, and leave it, for reasons of its own.  After it has processed a  *)
(* reboot it runs on for one of RunOns, may report ERROR, is down for      *)
(* BootTime and then starts again.                                         *)
(***************************************************************************)
EXTENDS Integers

CONSTANTS
  PushTimeout,    \* ReconnectOptions::push_timeout
  MaxPoll,        \* kMaxPoll of the receive loop
  Window,         \* idle_window
  StatsInterval,
  RequestTime,    \* all attempts of a request that stays unanswered
  AttemptTime,    \* of an attempt that succeeds
  Backoff,
  PushPeriod, RunOns, BootTime,
  NoAge

ASSUME TimingAssumption ==
  /\ PushTimeout \in Nat /\ PushTimeout % 2 = 0 /\ PushTimeout > 0
  /\ {MaxPoll, Window, StatsInterval, RequestTime, AttemptTime, Backoff, PushPeriod, BootTime}
       \subseteq Nat \ {0}
  /\ RunOns \subseteq Nat \ {0}
  /\ NoAge \notin Nat

Half == PushTimeout \div 2

VARIABLES
  connected,
  push_age,     \* since last_push_steady
  sent_age,     \* since reboot_sent_ns; NoAge: 0
  reboot_down,
  pushed,       \* pushed_status->cur_work_state: "none", "run" (all but ERROR) or "error"
  rx_at, poll,  \* "poll" or "tick"; time left in poll()
  partial_age,  \* since last_point_packet; NoAge: no partial frame
  next_stats,   \* time left
  worker,       \* "idle", "power" (wait_for_power_down), "try", "attempt", "backoff"
  w_sent,       \* its local `sent`, as an age
  w_left,       \* time left in its wait, attempt or backoff
  user,         \* reboot(): "idle", "arm", "request"
  u_left,       \* time left until the request has timed out
  lidar,        \* "up", "dying", "error" (about to power down, no answers), "down"
  health,       \* "run" or "error": what it reports while it is up or dying
  l_left,       \* time left in this state
  push_in,      \* time left until its next push
  told,         \* history: time since a reboot() that did not fail was armed; NoAge: none
  error_seen,   \* history: a push that went into ERROR was handled since then
  misled,       \* history: one that did not announce a power-down
  by_reboot     \* history: the last outage was declared by the ACK of a reboot()

deviceVars == <<connected, push_age, sent_age, reboot_down, pushed>>
rxVars == <<rx_at, poll, partial_age, next_stats>>
workerVars == <<worker, w_sent, w_left>>
callerVars == <<user, u_left>>
lidarTimes == <<lidar, health, l_left, push_in>>
history == <<told, error_seen, misled, by_reboot>>
timingVars == <<deviceVars, rxVars, workerVars, callerVars, lidarTimes, history>>

TimingInit ==
  /\ connected = TRUE /\ push_age = 0 /\ sent_age = NoAge /\ reboot_down = FALSE
  /\ pushed \in {"none", "run", "error"}
  /\ rx_at = "tick" /\ poll = 0 /\ partial_age = NoAge /\ next_stats = StatsInterval
  /\ worker = "idle" /\ w_sent = 0 /\ w_left = 0
  /\ user = "idle" /\ u_left = 0
  /\ lidar = "up" /\ health \in {"run", "error"} /\ l_left = 0 /\ push_in = PushPeriod
  /\ told = NoAge /\ error_seen = FALSE /\ misled = FALSE /\ by_reboot = FALSE

Least(S) == CHOOSE x \in S : \A y \in S : x <= y

-----------------------------------------------------------------------------
(* The receive thread.                                                     *)

(* declare_disconnected(): the compare-exchange; the worker is woken. *)
Declare(reboot) ==
  /\ connected' = FALSE
  /\ by_reboot' = IF connected THEN reboot ELSE by_reboot
  /\ worker' = IF connected /\ worker = "idle" THEN "woken" ELSE worker

(* Mutant: the poll timeout is the next deadline of the Device alone. *)
PollTimeoutUncapped(nexts) == IF nexts = {} THEN MaxPoll ELSE Least(nexts)

(* The poll timeout of the receive loop: the deadlines tick() returns, at most MaxPoll. *)
PollTimeout(nexts) == Least(nexts \cup {MaxPoll})

(* Mutant: the push deadline is preferred to that of the partial frame. *)
NextDeadlinePush(push, idle) == IF push # {} THEN push ELSE idle

(* tick() returns one deadline for both: that of the partial frame replaces that of the push. *)
NextDeadline(push, idle) == IF idle # {} THEN idle ELSE push

(* connection_tick(), the idle close of the partial frame, the statistics. *)
Tick ==
  LET late == connected /\ push_age >= PushTimeout
      push == IF connected /\ ~late THEN {PushTimeout - push_age} ELSE {}
      flush == partial_age # NoAge /\ partial_age >= Window
      idle == IF partial_age # NoAge /\ ~flush THEN {Window - partial_age} ELSE {}
  IN
  /\ rx_at = "tick"
  /\ IF late THEN Declare(FALSE) ELSE UNCHANGED <<connected, worker, by_reboot>>
  /\ partial_age' = IF flush THEN NoAge ELSE partial_age
  /\ next_stats' = IF next_stats <= 0 THEN StatsInterval ELSE next_stats
  /\ poll' = PollTimeout(NextDeadline(push, idle) \cup {next_stats'})
  /\ rx_at' = "poll"
  /\ UNCHANGED <<push_age, sent_age, reboot_down, pushed, w_sent, w_left, callerVars, lidarTimes,
                 told, error_seen, misled>>

PollTimedOut ==
  /\ rx_at = "poll" /\ poll = 0
  /\ rx_at' = "tick"
  /\ UNCHANGED <<deviceVars, poll, partial_age, next_stats, workerVars, callerVars, lidarTimes, history>>

(* Mutant: any push in ERROR, also of a LiDAR that was in ERROR before. *)
GoesIntoErrorAny(state) == state = "error"

(* A change of the state into ERROR: the first push establishes the state and is none. *)
GoesIntoError(state) == state = "error" /\ pushed \notin {"none", "error"}

(* on_push(): a change into ERROR after reboot() was entered ends the worker's wait. *)
OnStatePush(state) ==
  /\ push_age' = 0
  /\ pushed' = state
  /\ reboot_down' = (reboot_down \/ (GoesIntoError(state) /\ sent_age # NoAge))
  /\ rx_at' = "tick"
  /\ UNCHANGED <<connected, sent_age, poll, partial_age, next_stats, workerVars, callerVars>>

(* History: the state was another one, and is ERROR now. *)
Noticed(state, powers_down) ==
  LET new == told # NoAge /\ pushed = "run" /\ state = "error"
  IN /\ error_seen' = (error_seen \/ new)
     /\ misled' = (misled \/ (new /\ ~powers_down))
     /\ UNCHANGED <<told, by_reboot>>

(* A point-cloud packet. *)
OnPoint ==
  /\ rx_at = "poll" /\ lidar = "up" /\ partial_age \in {NoAge} \cup (1..Window)
  /\ partial_age' = 0
  /\ rx_at' = "tick"
  /\ UNCHANGED <<deviceVars, poll, next_stats, workerVars, callerVars, lidarTimes, history>>

-----------------------------------------------------------------------------
(* reboot() on a user thread.                                              *)

(* cmd_mutex: an attempt of the worker and reboot() exclude each other. *)
CmdFree == user = "idle" /\ worker # "attempt"

Reboot ==
  /\ CmdFree /\ connected
  /\ user' = "arm"
  /\ UNCHANGED <<deviceVars, rxVars, workerVars, u_left, lidarTimes, history>>

(* Armed before the request. *)
RebootArms ==
  /\ user = "arm"
  /\ reboot_down' = FALSE /\ sent_age' = 0
  /\ user' = "request" /\ u_left' = RequestTime
  /\ told' = 0 /\ error_seen' = FALSE /\ misled' = FALSE
  /\ UNCHANGED <<connected, push_age, pushed, rxVars, workerVars, lidarTimes, by_reboot>>

(* The LiDAR processes the request, once; its ACK may be lost. *)
LidarReboots ==
  /\ user = "request" /\ lidar = "up"
  /\ lidar' = "dying" /\ l_left' \in RunOns
  /\ UNCHANGED <<deviceVars, rxVars, workerVars, callerVars, health, push_in, history>>

(* Mutant: armed once the ACK is there. *)
RebootAckedArms ==
  /\ user = "request" /\ lidar \in {"dying", "error"}
  /\ Declare(TRUE)
  /\ reboot_down' = FALSE /\ sent_age' = 0
  /\ user' = "idle" /\ u_left' = 0
  /\ UNCHANGED <<push_age, pushed, rxVars, w_sent, w_left, lidarTimes, told, error_seen, misled>>

(* The ACK: the outage is declared at once. *)
RebootAcked ==
  /\ user = "request" /\ lidar \in {"dying", "error"}
  /\ Declare(TRUE)
  /\ user' = "idle" /\ u_left' = 0
  /\ UNCHANGED <<push_age, sent_age, reboot_down, pushed, rxVars, w_sent, w_left, lidarTimes, told,
                 error_seen, misled>>

(* Rejected, or unanswered (then an outage if the push is stale too): disarmed. *)
RebootFails ==
  /\ user = "request" /\ (u_left = 0 \/ lidar = "up")
  /\ sent_age' = NoAge
  /\ user' = "idle" /\ u_left' = 0
  /\ IF u_left = 0 /\ 3 * push_age > PushTimeout THEN Declare(FALSE)
     ELSE UNCHANGED <<connected, worker, by_reboot>>
  /\ told' = NoAge /\ error_seen' = FALSE /\ misled' = FALSE
  /\ UNCHANGED <<push_age, reboot_down, pushed, rxVars, w_sent, w_left, lidarTimes>>

-----------------------------------------------------------------------------
(* The worker.                                                             *)

(* wait_for_power_down() begins, unless no reboot is awaited. *)
WorkerWakes ==
  /\ worker = "woken"
  /\ IF sent_age = NoAge
     THEN worker' = "try" /\ UNCHANGED <<w_sent, w_left>>
     ELSE worker' = "power" /\ w_sent' = sent_age /\ w_left' = 0
  /\ UNCHANGED <<deviceVars, rxVars, callerVars, lidarTimes, history>>

(* Time left until half a push timeout has passed since the request and the last push. *)
Quiet == Half - Least({push_age, w_sent})

(* Mutant: the wait has no upper bound. *)
CapNone == Quiet

(* Time left until one push timeout after the request. *)
Cap == PushTimeout - w_sent

(* An iteration of the wait: an ERROR push, silence, the cap, or wait_until(). *)
PowerDownWaits ==
  /\ worker = "power" /\ w_left = 0 /\ ~reboot_down
  /\ Quiet > 0 /\ Cap > 0
  /\ w_left' = Least({Quiet, Cap})
  /\ UNCHANGED <<deviceVars, rxVars, worker, w_sent, callerVars, lidarTimes, history>>

PowerDownEnds ==
  /\ worker = "power"
  /\ reboot_down \/ (w_left = 0 /\ (Quiet <= 0 \/ Cap <= 0))
  /\ sent_age' = NoAge /\ reboot_down' = FALSE
  /\ worker' = "try" /\ w_left' = 0
  /\ UNCHANGED <<connected, push_age, pushed, rxVars, w_sent, callerVars, lidarTimes, history>>

(* An attempt begins when the LiDAR answers, and else fails. *)
AttemptBegins ==
  /\ worker = "try" /\ CmdFree
  /\ IF lidar \in {"up", "dying"}
     THEN worker' = "attempt" /\ w_left' = AttemptTime
     ELSE worker' = "backoff" /\ w_left' = Backoff
  /\ UNCHANGED <<deviceVars, rxVars, w_sent, callerVars, lidarTimes, history>>

AttemptFails ==
  /\ worker = "attempt" /\ lidar \notin {"up", "dying"}
  /\ worker' = "backoff" /\ w_left' = Backoff
  /\ UNCHANGED <<deviceVars, rxVars, w_sent, callerVars, lidarTimes, history>>

AttemptSucceeds ==
  /\ worker = "attempt" /\ w_left = 0 /\ lidar \in {"up", "dying"}
  /\ push_age' = 0 /\ sent_age' = NoAge
  /\ connected' = TRUE
  /\ worker' = "idle"
  /\ told' = NoAge /\ error_seen' = FALSE /\ misled' = FALSE
  /\ UNCHANGED <<reboot_down, pushed, rxVars, w_sent, w_left, callerVars, lidarTimes, by_reboot>>

BackoffEnds ==
  /\ worker = "backoff" /\ w_left = 0
  /\ worker' = "try"
  /\ UNCHANGED <<deviceVars, rxVars, w_sent, w_left, callerVars, lidarTimes, history>>

Worker ==
  \/ WorkerWakes \/ PowerDownWaits \/ PowerDownEnds
  \/ AttemptBegins \/ AttemptFails \/ AttemptSucceeds \/ BackoffEnds

-----------------------------------------------------------------------------
(* The LiDAR.                                                              *)

Running == lidar # "down"

(* A push arrives, with the state or without it, or is lost. *)
StatePushed ==
  /\ Running /\ push_in = 0 /\ rx_at = "poll"
  /\ push_in' = PushPeriod
  /\ \/ \E state \in {IF lidar = "error" THEN "error" ELSE health, pushed} :
          OnStatePush(state) /\ Noticed(state, lidar = "error")
     \/ UNCHANGED <<deviceVars, rxVars, workerVars, callerVars, history>>
  /\ UNCHANGED <<lidar, health, l_left>>

(* Before it powers down it may report ERROR. *)
LidarError ==
  /\ lidar = "dying" /\ rx_at = "poll"
  /\ lidar' = "error"
  /\ push_in' = PushPeriod
  /\ OnStatePush("error") /\ Noticed("error", TRUE)
  /\ UNCHANGED <<health, l_left>>

(* It enters or leaves ERROR, a fault that has nothing to do with a reboot. *)
LidarHealth ==
  /\ lidar \in {"up", "dying"}
  /\ health' \in {"run", "error"} \ {health}
  /\ UNCHANGED <<deviceVars, rxVars, workerVars, callerVars, lidar, l_left, push_in, history>>

LidarPowersDown ==
  /\ lidar \in {"dying", "error"} /\ l_left = 0
  /\ lidar' = "down" /\ l_left' = BootTime
  /\ UNCHANGED <<deviceVars, rxVars, workerVars, callerVars, health, push_in, history>>

LidarStarts ==
  /\ lidar = "down" /\ l_left = 0
  /\ lidar' = "up"
  /\ push_in' = 0 /\ health' \in {"run", "error"}
  /\ UNCHANGED <<deviceVars, rxVars, workerVars, callerVars, l_left, history>>

-----------------------------------------------------------------------------
Older(age, bound) == IF age = NoAge THEN NoAge ELSE Least({age + 1, bound})
Less(left) == IF left > 0 THEN left - 1 ELSE 0

(* Nobody has something to do. *)
Quiescent ==
  /\ rx_at = "poll" /\ poll > 0
  /\ worker # "woken" /\ ~(worker = "try" /\ CmdFree)
  /\ worker = "power" => w_left > 0 /\ ~reboot_down
  /\ worker \in {"attempt", "backoff"} => w_left > 0
  /\ worker = "attempt" => lidar \in {"up", "dying"}
  /\ user # "arm" /\ (user = "request" => u_left > 0)
  /\ Running => push_in > 0
  /\ lidar # "up" => l_left > 0

Pass ==
  /\ Quiescent
  /\ push_age' = Older(push_age, PushTimeout + MaxPoll + 1)
  /\ sent_age' = Older(sent_age, PushTimeout)
  /\ told' = Older(told, PushTimeout)
  /\ w_sent' = IF worker = "power" THEN w_sent + 1 ELSE 0
  /\ partial_age' = IF partial_age = NoAge THEN NoAge ELSE partial_age + 1
  /\ poll' = poll - 1 /\ next_stats' = Less(next_stats)
  /\ w_left' = Less(w_left) /\ u_left' = Less(u_left)
  /\ l_left' = Less(l_left) /\ push_in' = Less(push_in)
  /\ UNCHANGED <<connected, reboot_down, pushed, rx_at, worker, user, lidar, health, error_seen,
                 misled, by_reboot>>

TimingNext ==
  \/ Tick \/ PollTimedOut \/ OnPoint
  \/ Reboot \/ RebootArms \/ LidarReboots \/ RebootAcked \/ RebootFails
  \/ Worker \/ StatePushed \/ LidarError \/ LidarHealth
  \/ LidarPowersDown \/ LidarStarts \/ Pass

TimingSpec == TimingInit /\ [][TimingNext]_timingVars

-----------------------------------------------------------------------------
(* An outage is noticed: the push timeout is declared at most one kMaxPoll      *)
(* late although tick() returns the deadline of a partial frame in its place    *)
(* (device.cpp:1134, 1160; context.cpp:122).                                    *)
OutageNoticed == connected => push_age <= PushTimeout + MaxPoll

(* A partial frame is delivered when `window` has passed without a packet        *)
(* (api.md: "idle close"; device.cpp:1155).                                      *)
IdleFrameClosed == partial_age # NoAge => partial_age <= Window

(* The one poll timeout of the receive thread serves both deadlines.            *)
TicksInTime == OutageNoticed /\ IdleFrameClosed

(* After reboot() the worker does not reconnect to the instance that is about    *)
(* to power down (device.cpp:1082, #238): when the ACK of reboot() declared the   *)
(* outage and the worker reconnects to a LiDAR that still runs on, at least half  *)
(* a push timeout has passed since reboot() was called, unless the LiDAR went     *)
(* into ERROR meanwhile without powering down.                                    *)
NoEarlyReconnect ==
  [][worker = "attempt" /\ worker' = "idle" /\ lidar = "dying" /\ by_reboot
       => told # NoAge /\ (told >= Half \/ misled)]_timingVars

(* The wait is bounded (device.cpp:1098-1113): the worker is asleep neither one   *)
(* push timeout after the request, even if the LiDAR keeps pushing, nor half a    *)
(* push timeout after both the request and the last push.  The second ends the    *)
(* wait when the LiDAR was in ERROR before, so that no push goes into ERROR.      *)
PowerDownBounded ==
  worker = "power" /\ w_left > 0 => w_sent < PushTimeout /\ (push_age < Half \/ w_sent < Half)

(* A push that goes into ERROR ends the wait even when it overtakes the ACK       *)
(* (device.cpp:346, 1764): the worker does not wait on when one was handled since *)
(* reboot().                                                                      *)
ErrorPushHeard == worker = "power" /\ error_seen => reboot_down

(* The worker waits for the power-down no longer than it has to.                  *)
PowerDownWait == PowerDownBounded /\ ErrorPushHeard

-----------------------------------------------------------------------------
(* Not so when the push timeout declares the outage while reboot() waits for its  *)
(* ACK: the worker has passed wait_for_power_down() by then (device.cpp:1061).    *)
NoEarlyReconnectEver ==
  [][worker = "attempt" /\ worker' = "idle" /\ lidar = "dying" /\ ~misled
       => told = NoAge \/ told >= Half]_timingVars
=============================================================================
