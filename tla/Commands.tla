------------------------------ MODULE Commands ------------------------------
(***************************************************************************)
(* The commands of a Device (src/src/device.cpp) and what a reconnect      *)
(* replays: configure(), start_ / stop_sampling(), start_ / stop_firmware_ *)
(* log(), start_ / stop_debug_data(), set_lidar_ip_config(), reconnect()   *)
(* and cancel(), called by any number of user threads beside the worker.   *)
(*                                                                         *)
(* cmd_mutex is `cmd`; the critical sections of conn_mutex, setup_mutex    *)
(* and log_mutex are single steps.  The LiDAR is external: it processes a  *)
(* request at most once while its call waits, may be power-cycled at any   *)
(* time, and then has its stored address and otherwise its defaults.  The  *)
(* retries and sequence numbers of a request are those of module Session.  *)
(***************************************************************************)
EXTENDS Naturals

CONSTANTS
  Users,       \* user threads
  Keys,        \* the keys HostSetup models
  Always,      \* those it has from open() on (pcl_data_type, imu_data_en)
  Values,      \* their values; Default after a power cycle
  Default,
  Addresses,   \* addresses of the LiDAR; Home is the one of open()
  Home,
  Broadcast,   \* the addresses a broadcast (or the user's targets) reaches
  MaxCalls,    \* bound on the commands
  MaxOutages,  \* bound on the outages
  MaxResets,   \* bound on the power cycles
  MaxCancels,  \* bound on the calls of cancel()
  None

ASSUME CommandsAssumption ==
  /\ Default \in Values /\ Home \in Addresses /\ Always \subseteq Keys
  /\ None \notin Users \cup {"worker"} \cup Addresses \cup Values
  /\ "worker" \notin Users
  /\ Keys \cap {"sampling", "log", "debug"} = {}

Threads == Users \cup {"worker"}

(* What a command changes in the LiDAR: the keys of HostSetup, a stream (on   *)
(* or off), its address, or nothing (an inquire, the GPS time).               *)
Streams == {"sampling", "log", "debug"}
Ops == Streams \cup {"set", "ip", "get", "done"}

VARIABLES
  pc, job,         \* where each thread is; the request it makes, or the stage of its attempt
  cmd,             \* the holder of cmd_mutex
  connected,
  host_setup,      \* the keys HostSetup has (None: not set, not replayed)
  requested,       \* sampling_requested, log_requested, debug_data_requested
  info_ip, configured_ip,
  cancel_,         \* the cancel flag of the Session
  log_cancel,
  keys,            \* the LiDAR: its keys,
  running,         \* its streams,
  stored_ip, at,   \* the address it has stored and the one it uses
  applied,         \* it has processed the request of the holder of cmd_mutex
  owed,            \* history: a cancel() that has ended no call yet
  sure,            \* history: keys and streams that the LiDAR must have as recorded
  budget           \* what is left of the bounds

deviceVars == <<connected, host_setup, requested, info_ip, configured_ip>>
cancelVars == <<cancel_, log_cancel, owed>>
lidarVars == <<keys, running, stored_ip, at, applied, sure>>
vars == <<pc, job, cmd, deviceVars, cancelVars, lidarVars, budget>>

NoKeys == [k \in Keys |-> None]

(* The request of a command, and the stage of an attempt. *)
Request(op, on, vals, ip) ==
  [op |-> op, attempt |-> FALSE, on |-> on, vals |-> vals, ip |-> ip]
Attempt(op, vals, ip) ==
  [op |-> op, attempt |-> TRUE, on |-> TRUE, vals |-> vals, ip |-> ip]
NoJob == Request("done", FALSE, NoKeys, Home)

Init ==
  /\ pc = [t \in Threads |-> "idle"]
  /\ job = [t \in Threads |-> NoJob]
  /\ cmd = None
  /\ connected = TRUE
  /\ host_setup = [k \in Keys |-> IF k \in Always THEN Default ELSE None]
  /\ requested = [o \in Streams |-> FALSE]
  /\ info_ip = Home /\ configured_ip = None
  /\ cancel_ = FALSE /\ log_cancel = FALSE /\ owed = FALSE
  /\ keys = [k \in Keys |-> Default]
  /\ running = [o \in Streams |-> FALSE]
  /\ stored_ip = Home /\ at = Home
  /\ applied = FALSE
  /\ sure = Always \cup Streams
  /\ budget = [calls |-> MaxCalls, outages |-> MaxOutages, resets |-> MaxResets,
               cancels |-> MaxCancels]

Goto(t, l) == pc' = [pc EXCEPT ![t] = l]
Spend(what) == budget[what] > 0 /\ budget' = [budget EXCEPT ![what] = @ - 1]

(* The call returns; its lock_guard releases cmd_mutex. *)
Return(t) ==
  /\ cmd' = None
  /\ Goto(t, "idle")
  /\ job' = [job EXCEPT ![t] = NoJob]

(* v laid over u: the keys a request carries. *)
Over(u, v) == [k \in Keys |-> IF v[k] = None THEN u[k] ELSE v[k]]
Carried(v) == {k \in Keys : v[k] # None}

-----------------------------------------------------------------------------
(* The frame of every command: check_connected(), cmd_mutex, check again.  *)

Call(t, j) ==
  /\ pc[t] = "idle" /\ connected
  /\ Spend("calls")
  /\ job' = [job EXCEPT ![t] = j]
  /\ Goto(t, "lock")
  /\ UNCHANGED <<cmd, deviceVars, cancelVars, lidarVars>>

(* configure(), set<K>() and the setters built on them, for one key. *)
Configure(t) ==
  \E k \in Keys, v \in Values :
    Call(t, Request("set", FALSE, [NoKeys EXCEPT ![k] = v], Home))

(* start_sampling() and stop_sampling(). *)
SetMode(t) == \E on \in BOOLEAN : Call(t, Request("sampling", on, NoKeys, Home))

(* start_firmware_log() and stop_firmware_log(). *)
LogControl(t) == \E on \in BOOLEAN : Call(t, Request("log", on, NoKeys, Home))

(* start_debug_data() and stop_debug_data(). *)
DebugDataControl(t) == \E on \in BOOLEAN : Call(t, Request("debug", on, NoKeys, Home))

SetLidarIpConfig(t) == \E a \in Addresses : Call(t, Request("ip", FALSE, NoKeys, a))

(* inquire() and the getters built on it. *)
Inquire(t) == Call(t, Request("get", FALSE, NoKeys, Home))

(* Starting the firmware log first writes key 0x0009 through the Session. *)
FirstStep(j) == IF j.op = "log" /\ j.on THEN "key9" ELSE "request"

Lock(t) ==
  /\ pc[t] = "lock" /\ cmd = None
  /\ IF connected THEN cmd' = t /\ Goto(t, FirstStep(job[t])) /\ UNCHANGED job ELSE Return(t)
  /\ UNCHANGED <<deviceVars, cancelVars, lidarVars, budget>>

(* Key 0x0009 was written, or the firmware does not support it. *)
Key9Done(t) ==
  /\ pc[t] = "key9"
  /\ Goto(t, "request")
  /\ UNCHANGED <<job, cmd, deviceVars, cancelVars, lidarVars, budget>>

(* The LiDAR processes the request. *)
LidarApplies(t) ==
  LET j == job[t] IN
  /\ pc[t] = "request" /\ ~applied
  /\ applied' = TRUE
  /\ keys' = Over(keys, j.vals)
  /\ running' = IF j.op \in Streams THEN [running EXCEPT ![j.op] = j.on] ELSE running
  /\ stored_ip' = IF j.op = "ip" THEN j.ip ELSE stored_ip
  /\ UNCHANGED <<pc, job, cmd, deviceVars, cancelVars, at, sure, budget>>

(* Mutant: the accepted values are not folded into the HostSetup. *)
AbsorbNothing(vals) == host_setup

(* absorb(): the keys of an accepted configure() are folded into the HostSetup. *)
Absorb(vals) == Over(host_setup, vals)

(* What an accepted request makes certain about the LiDAR. *)
Certain(j) == sure \cup Carried(j.vals) \cup ({j.op} \cap Streams)

(* The flag a stream's accepted control sets; only stop_sampling() clears the first. *)
Noted(j) ==
  CASE j.op = "sampling" -> [requested EXCEPT !.sampling = @ \/ j.on]
    [] j.op \in {"log", "debug"} -> [requested EXCEPT ![j.op] = j.on]
    [] OTHER -> requested

(* The accepting ACK of a command. *)
Accepted(t) ==
  LET j == job[t] IN
  /\ pc[t] = "request" /\ applied /\ ~j.attempt
  /\ applied' = FALSE
  /\ sure' = Certain(j)
  /\ host_setup' = Absorb(j.vals)
  /\ requested' = Noted(j)
  /\ CASE j.op = "sampling" -> Goto(t, "wait") /\ UNCHANGED <<job, cmd>>
       [] j.op = "ip" -> cmd' = None /\ Goto(t, "relock") /\ UNCHANGED job
       [] OTHER -> Return(t)
  /\ UNCHANGED <<connected, info_ip, configured_ip, cancelVars, keys, running, stored_ip, at,
                 budget>>

(* wait_for_state() ended with the wanted state. *)
StateReached(t) ==
  /\ pc[t] = "wait" /\ ~job[t].attempt
  /\ IF job[t].on THEN Return(t) ELSE cmd' = None /\ Goto(t, "clear") /\ UNCHANGED job
  /\ UNCHANGED <<deviceVars, cancelVars, lidarVars, budget>>

(* stop_sampling() clears the flag after set_mode() has released cmd_mutex. *)
StopSampling(t) ==
  /\ pc[t] = "clear"
  /\ requested' = [requested EXCEPT !.sampling = FALSE]
  /\ Goto(t, "idle") /\ job' = [job EXCEPT ![t] = NoJob]
  /\ UNCHANGED <<cmd, connected, host_setup, info_ip, configured_ip, cancelVars, lidarVars, budget>>

(* set_lidar_ip_config() takes cmd_mutex a second time. *)
RecordIp(t) ==
  /\ pc[t] = "relock" /\ cmd = None
  /\ configured_ip' = job[t].ip
  /\ Return(t)
  /\ UNCHANGED <<connected, host_setup, requested, info_ip, cancelVars, lidarVars, budget>>

-----------------------------------------------------------------------------
(* A request or a state wait fails: note_command_error() and settle_cancel(). *)

Waits(t) == pc[t] \in {"key9", "request", "wait"}

(* The pending request looks at log_cancel, not at the Session's flag. *)
OnLogSocket(t) == pc[t] = "request" /\ job[t].op \in {"log", "debug"}

(* What is certain about the LiDAR after an unanswered request. *)
Doubted(j) == sure \ (Carried(j.vals) \cup {j.op})

(* Rejected, answered badly, a transport error; or timed out while pushes arrive. *)
Fails(t) ==
  /\ Waits(t)
  /\ Return(t)
  /\ applied' = FALSE /\ sure' = Doubted(job[t])
  /\ UNCHANGED <<deviceVars, cancelVars, keys, running, stored_ip, at, budget>>

(* Timed out with a stale push: declare_disconnected(). *)
NoteCommandError(t) ==
  /\ Waits(t) /\ ~job[t].attempt
  /\ Spend("outages")
  /\ connected' = FALSE
  /\ Return(t)
  /\ applied' = FALSE /\ sure' = Doubted(job[t])
  /\ UNCHANGED <<host_setup, requested, info_ip, configured_ip, cancelVars, keys, running,
                 stored_ip, at>>

(* The call consumes the flag it waits on. *)
Cancelled(t) ==
  /\ Waits(t)
  /\ IF OnLogSocket(t) THEN log_cancel /\ log_cancel' = FALSE /\ UNCHANGED cancel_
                       ELSE cancel_ /\ cancel_' = FALSE /\ UNCHANGED log_cancel
  /\ Goto(t, "settle")
  /\ applied' = FALSE /\ sure' = Doubted(job[t])
  /\ UNCHANGED <<job, cmd, deviceVars, owed, keys, running, stored_ip, at, budget>>

(* Mutant: the flag the call did not wait on stays set. *)
SettleNothing(t) ==
  /\ pc[t] = "settle"
  /\ owed' = FALSE
  /\ Return(t)
  /\ UNCHANGED <<deviceVars, cancel_, log_cancel, lidarVars, budget>>

(* settle_cancel(): both flags are cleared before cmd_mutex is released. *)
SettleCancel(t) ==
  /\ pc[t] = "settle"
  /\ cancel_' = FALSE /\ log_cancel' = FALSE /\ owed' = FALSE
  /\ Return(t)
  /\ UNCHANGED <<deviceVars, lidarVars, budget>>

(* cancel(), by any thread, under conn_mutex. *)
Cancel ==
  /\ Spend("cancels")
  /\ cancel_' = TRUE /\ log_cancel' = TRUE /\ owed' = TRUE
  /\ UNCHANGED <<pc, job, cmd, deviceVars, lidarVars>>

-----------------------------------------------------------------------------
(* attempt(): by the worker while disconnected, or by reconnect().         *)

AttemptBegins(t) ==
  /\ pc[t] = "idle" /\ ~connected
  /\ Goto(t, "a_lock")
  /\ job' = [job EXCEPT ![t] = Attempt("done", NoKeys, Home)]
  /\ UNCHANGED <<cmd, deviceVars, cancelVars, lidarVars, budget>>

AttemptLocks(t) ==
  /\ pc[t] = "a_lock" /\ cmd = None
  /\ IF connected THEN Return(t) ELSE cmd' = t /\ Goto(t, "a_connect") /\ UNCHANGED job
  /\ UNCHANGED <<deviceVars, cancelVars, lidarVars, budget>>

(* Where an attempt looks for the LiDAR: its last address, the configured one, *)
(* then the targets or a broadcast.                                            *)
Searched == {info_ip} \cup ({configured_ip} \ {None}) \cup Broadcast

(* A Session is connected at the address the LiDAR uses. *)
AttemptConnects(t) ==
  /\ pc[t] = "a_connect" /\ at \in Searched
  /\ job' = [job EXCEPT ![t] = Attempt("done", NoKeys, at)]
  /\ Goto(t, "a_swap")
  /\ UNCHANGED <<cmd, deviceVars, cancelVars, lidarVars, budget>>

(* No answer, or rekey() finds the address taken. *)
AttemptFails(t) ==
  /\ pc[t] \in {"a_connect", "a_swap"}
  /\ Return(t)
  /\ UNCHANGED <<deviceVars, cancelVars, lidarVars, budget>>

(* The replay of host_setup; everything recorded is about to be certain. *)
ReplayBegins(t) ==
  /\ job' = [job EXCEPT ![t] = Attempt("set", host_setup, job[t].ip)]
  /\ Goto(t, "request")
  /\ sure' = sure \cup Carried(host_setup) \cup {o \in Streams : requested[o]}

(* Mutant: the new Session starts with its own cancel flag. *)
AttemptSwapsPlain(t) ==
  /\ pc[t] = "a_swap"
  /\ info_ip' = job[t].ip
  /\ cancel_' = FALSE
  /\ ReplayBegins(t)
  /\ UNCHANGED <<cmd, connected, host_setup, requested, configured_ip, log_cancel, owed,
                 keys, running, stored_ip, at, applied, budget>>

(* Under conn_mutex the Session is replaced; a pending cancel() stays pending. *)
AttemptSwaps(t) ==
  /\ pc[t] = "a_swap"
  /\ info_ip' = job[t].ip
  /\ cancel_' = cancel_
  /\ ReplayBegins(t)
  /\ UNCHANGED <<cmd, connected, host_setup, requested, configured_ip, log_cancel, owed,
                 keys, running, stored_ip, at, applied, budget>>

(* The order of the replay. *)
StageAfter(o) == CASE o = "set" -> "sampling" [] o = "sampling" -> "log" [] o = "log" -> "debug"
                   [] OTHER -> "done"

Stage(t, o) ==
  /\ job' = [job EXCEPT ![t] = Attempt(o, NoKeys, Home)]
  /\ Goto(t, "stage")

(* The accepting ACK of a stage; nothing is absorbed from a replay. *)
Replayed(t) ==
  LET j == job[t] IN
  /\ pc[t] = "request" /\ applied /\ j.attempt
  /\ IF j.op = "sampling" THEN Goto(t, "wait") /\ UNCHANGED job ELSE Stage(t, StageAfter(j.op))
  /\ requested' = Noted(j)
  /\ applied' = FALSE /\ sure' = Certain(j)
  /\ UNCHANGED <<cmd, connected, host_setup, info_ip, configured_ip, cancelVars, keys, running,
                 stored_ip, at, budget>>

ReplayedState(t) ==
  /\ pc[t] = "wait" /\ job[t].attempt
  /\ Stage(t, "log")
  /\ UNCHANGED <<cmd, deviceVars, cancelVars, lidarVars, budget>>

(* Mutant: only sampling is replayed. *)
NextStageSampling(t) ==
  LET o == job[t].op IN
  /\ pc[t] = "stage" /\ o \in Streams
  /\ IF o = "sampling" /\ requested[o]
     THEN Goto(t, "request") /\ UNCHANGED job ELSE Stage(t, StageAfter(o))
  /\ UNCHANGED <<cmd, deviceVars, cancelVars, lidarVars, budget>>

(* A stream is replayed when it is requested at this point. *)
NextStage(t) ==
  LET o == job[t].op IN
  /\ pc[t] = "stage" /\ o \in Streams
  /\ IF requested[o] THEN Goto(t, FirstStep(job[t])) /\ UNCHANGED job ELSE Stage(t, StageAfter(o))
  /\ UNCHANGED <<cmd, deviceVars, cancelVars, lidarVars, budget>>

AttemptSucceeds(t) ==
  /\ pc[t] = "stage" /\ job[t].op = "done"
  /\ connected' = TRUE
  /\ Return(t)
  /\ UNCHANGED <<host_setup, requested, info_ip, configured_ip, cancelVars, lidarVars, budget>>

-----------------------------------------------------------------------------
(* declare_disconnected() by the push timeout or by disconnect(). *)
Outage ==
  /\ connected /\ Spend("outages")
  /\ connected' = FALSE
  /\ UNCHANGED <<pc, job, cmd, host_setup, requested, info_ip, configured_ip, cancelVars,
                 lidarVars>>

(* The LiDAR is power-cycled. *)
LidarResets ==
  /\ Spend("resets")
  /\ keys' = [k \in Keys |-> Default]
  /\ running' = [o \in Streams |-> FALSE]
  /\ at' = stored_ip
  /\ sure' = {} /\ applied' = FALSE
  /\ UNCHANGED <<pc, job, cmd, deviceVars, cancelVars, stored_ip>>

Command(t) ==
  Configure(t) \/ SetMode(t) \/ LogControl(t) \/ DebugDataControl(t) \/ SetLidarIpConfig(t)
    \/ Inquire(t)

Step(t) ==
  \/ Lock(t) \/ Key9Done(t) \/ Accepted(t) \/ StateReached(t) \/ StopSampling(t) \/ RecordIp(t)
  \/ Fails(t) \/ NoteCommandError(t) \/ Cancelled(t) \/ SettleCancel(t)
  \/ AttemptLocks(t) \/ AttemptConnects(t) \/ AttemptFails(t) \/ AttemptSwaps(t)
  \/ Replayed(t) \/ ReplayedState(t) \/ NextStage(t) \/ AttemptSucceeds(t)

Next ==
  \/ \E u \in Users : Command(u)
  \/ \E t \in Threads : AttemptBegins(t) \/ LidarApplies(t) \/ Step(t)
  \/ Cancel \/ Outage \/ LidarResets

Spec == Init /\ [][Next]_vars

-----------------------------------------------------------------------------
Labels == {"idle", "lock", "key9", "request", "wait", "settle", "clear", "relock",
           "a_lock", "a_connect", "a_swap", "stage"}
Job == [op : Ops, attempt : BOOLEAN, on : BOOLEAN, vals : [Keys -> Values \cup {None}],
        ip : Addresses]

(* Every variable has its type. *)
TypeOK ==
  /\ pc \in [Threads -> Labels] /\ job \in [Threads -> Job]
  /\ cmd \in Threads \cup {None}
  /\ connected \in BOOLEAN
  /\ host_setup \in [Keys -> Values \cup {None}] /\ requested \in [Streams -> BOOLEAN]
  /\ info_ip \in Addresses /\ configured_ip \in Addresses \cup {None}
  /\ cancel_ \in BOOLEAN /\ log_cancel \in BOOLEAN /\ owed \in BOOLEAN
  /\ keys \in [Keys -> Values] /\ running \in [Streams -> BOOLEAN]
  /\ stored_ip \in Addresses /\ at \in Addresses
  /\ applied \in BOOLEAN /\ sure \in SUBSET (Keys \cup Streams)

(* One cancel() ends exactly one command (device.hpp: "One cancel() aborts one  *)
(* command"): while no call is between consuming a flag and settle_cancel()     *)
(* (device.cpp:890), both flags say whether a cancel() is still owed, whichever *)
(* flag calls wait on and however often the Session is replaced (device.cpp:1002). *)
PendingCancel ==
  (\A t \in Threads : pc[t] # "settle") => cancel_ = owed /\ log_cancel = owed

(* "A reconnect restores the last value the Device successfully wrote"        *)
(* (api.md): while connected and between the commands, the LiDAR has every key *)
(* of host_setup and runs the firmware log and the debug data as recorded,     *)
(* unless one of its requests stayed unanswered or the LiDAR was power-cycled   *)
(* after the replay began (device.cpp:1006-1031).                              *)
Restored ==
  connected /\ cmd = None =>
    /\ \A k \in Keys \cap sure : host_setup[k] = keys[k]
    /\ \A o \in {"log", "debug"} \cap sure : running[o] = requested[o]

(* device.cpp:1212: "Frozen callbacks from the moment the LiDAR acknowledged   *)
(* SAMPLING; released again only by a successful stop_sampling()": while the    *)
(* LiDAR is known to sample, sampling_requested is set.                         *)
FrozenWhileSampling ==
  connected /\ cmd = None /\ "sampling" \in sure /\ running.sampling => requested.sampling
=============================================================================
