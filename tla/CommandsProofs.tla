--------------------------- MODULE CommandsProofs ---------------------------
(***************************************************************************)
(* Proofs about module Commands, for any number of threads, keys, values   *)
(* and addresses and any bounds:                                           *)
(*   - CommandsPendingCancel: between the calls both cancel flags say      *)
(*     whether a cancel() is still owed;                                   *)
(*   - CommandsRestored: while connected and between the commands the      *)
(*     LiDAR has what the Device recorded.                                 *)
(* PendingCancel is inductive with the types.  Restored is not: it speaks  *)
(* of the moment an attempt has succeeded, and what makes it true then is  *)
(* what every stage of the replay has left behind (RestoreInv below).      *)
(***************************************************************************)
EXTENDS Commands, TLAPS

-----------------------------------------------------------------------------
(* The inductive invariant *)

(* The labels at which a thread holds cmd_mutex, and those of a replay. *)
HoldAt == {"key9", "request", "wait", "settle", "a_connect", "a_swap", "stage"}
ReplayAt == {"stage", "key9", "request", "wait"}

(* cmd_mutex is held exactly between its lock and its release, and an attempt *)
(* holds it only while disconnected.                                          *)
LockOK(t) ==
  /\ cmd = t <=> pc[t] \in HoldAt
  /\ pc[t] \in {"idle", "lock", "clear", "relock"} => job[t].attempt = FALSE
  /\ pc[t] \in {"a_lock", "a_connect", "a_swap", "stage"} => job[t].attempt = TRUE
  /\ pc[t] \in HoldAt /\ job[t].attempt = TRUE => ~connected
LockInv == \A t \in Threads : LockOK(t)

(* The request of a replay's stage is the one its record asks for. *)
StageInv ==
  cmd # None /\ job[cmd].attempt = TRUE /\ pc[cmd] \in ReplayAt =>
    /\ job[cmd].op \in {"set", "sampling", "log", "debug", "done"}
    /\ job[cmd].op = "set" => pc[cmd] = "request" /\ job[cmd].vals = host_setup
    /\ job[cmd].op = "done" => pc[cmd] = "stage"
    /\ pc[cmd] = "wait" => job[cmd].op = "sampling"
    /\ job[cmd].op # "set" => job[cmd].on = TRUE /\ job[cmd].vals = NoKeys
    /\ pc[cmd] # "stage" /\ job[cmd].op \in {"log", "debug"} => requested[job[cmd].op] = TRUE

(* A processed request is in the LiDAR and its call still waits. *)
AppliedInv ==
  applied =>
    /\ cmd # None /\ pc[cmd] = "request"
    /\ \A k \in Carried(job[cmd].vals) : keys[k] = job[cmd].vals[k]
    /\ job[cmd].op \in Streams => running[job[cmd].op] = job[cmd].on

(* What comes before the stages `later` is as recorded: the Device is connected, a *)
(* command that began while it was still holds cmd_mutex, or the replay has come    *)
(* that far.                                                                        *)
Settled(later) ==
  \/ connected
  \/ cmd # None /\ job[cmd].attempt = FALSE
  \/ cmd # None /\ pc[cmd] \in ReplayAt /\ job[cmd].op \in later

(* The keys: recorded ones only, and as recorded once settled, except those of the *)
(* request that the LiDAR has processed and the Device has not heard about yet.     *)
KeysInv ==
  \A k \in Keys : k \in sure =>
    /\ host_setup[k] # None
    /\ Settled({"sampling", "log", "debug", "done"}) =>
         host_setup[k] = keys[k] \/ (applied /\ k \in Carried(job[cmd].vals))

(* A stream: as recorded once settled; and one not requested, which no replay *)
(* starts, does not run at all.                                               *)
StreamInv(o, later) ==
  o \in sure =>
    /\ Settled(later) => running[o] = requested[o] \/ (applied /\ job[cmd].op = o)
    /\ requested[o] = FALSE =>
         running[o] = FALSE \/ (applied /\ job[cmd].op = o /\ job[cmd].attempt = FALSE)

RestoreInv ==
  /\ KeysInv
  /\ StreamInv("log", {"debug", "done"})
  /\ StreamInv("debug", {"done"})

-----------------------------------------------------------------------------
(* Types.  The flags are Booleans by themselves; only these are needed. *)

FlowOK ==
  /\ pc \in [Threads -> Labels]
  /\ job \in [Threads -> Job]
  /\ cmd \in Threads \cup {None}
DataOK ==
  /\ host_setup \in [Keys -> Values \cup {None}]
  /\ keys \in [Keys -> Values]
  /\ stored_ip \in Addresses /\ at \in Addresses
StreamsOK ==
  /\ requested \in [Streams -> BOOLEAN]
  /\ running \in [Streams -> BOOLEAN]
Types == FlowOK /\ DataOK /\ StreamsOK

(* The jobs that the calls and the stages of a replay are made of. *)
LEMMA RequestType ==
  ASSUME NEW o \in Ops, NEW on \in BOOLEAN,
         NEW v \in [Keys -> Values \cup {None}], NEW ip \in Addresses
  PROVE  Request(o, on, v, ip) \in Job
  BY Zenon DEF Job, Request

LEMMA AttemptType ==
  ASSUME NEW o \in Ops, NEW v \in [Keys -> Values \cup {None}], NEW ip \in Addresses
  PROVE  Attempt(o, v, ip) \in Job
  BY Zenon DEF Job, Attempt

LEMMA JobFields ==
  ASSUME NEW o, NEW on, NEW v, NEW ip
  PROVE  /\ Request(o, on, v, ip).attempt = FALSE
         /\ Attempt(o, v, ip).attempt = TRUE
         /\ Attempt(o, v, ip).op = o /\ Attempt(o, v, ip).on = TRUE
         /\ Attempt(o, v, ip).vals = v
  BY Zenon DEF Request, Attempt

LEMMA NoJobType ==
  /\ FALSE \in BOOLEAN /\ Home \in Addresses
  /\ NoKeys \in [Keys -> Values \cup {None}]
  /\ NoJob \in Job /\ NoJob.attempt = FALSE
  <1>1. FALSE \in BOOLEAN /\ Home \in Addresses
    BY CommandsAssumption, Zenon
  <1>2. NoKeys \in [Keys -> Values \cup {None}]
    BY Zenon DEF NoKeys
  <1>3. "done" \in Ops
    BY Zenon DEF Ops
  <1>4. NoJob \in Job
    BY <1>1, <1>2, <1>3, RequestType, Zenon DEF NoJob
  <1>5. NoJob.attempt = FALSE
    BY Zenon DEF NoJob, Request
  <1>. QED BY <1>1, <1>2, <1>4, <1>5, Zenon

(* A request laid over recorded values has their type. *)
LEMMA OverType ==
  ASSUME NEW u, NEW v
  PROVE  /\ u \in [Keys -> Values] /\ v \in [Keys -> Values \cup {None}]
              => Over(u, v) \in [Keys -> Values]
         /\ u \in [Keys -> Values \cup {None}] /\ v \in [Keys -> Values \cup {None}]
              => Over(u, v) \in [Keys -> Values \cup {None}]
  BY Zenon DEF Over

(* Every command enters its call with a job of its own. *)
LEMMA CommandCalls ==
  ASSUME NEW u \in Users, Command(u)
  PROVE  \E j \in Job : j.attempt = FALSE /\ Call(u, j)
  <1>a. ASSUME NEW o \in Ops, NEW on \in BOOLEAN, NEW v \in [Keys -> Values \cup {None}],
               NEW ip \in Addresses, Call(u, Request(o, on, v, ip))
        PROVE  \E j \in Job : j.attempt = FALSE /\ Call(u, j)
    <2>1. Request(o, on, v, ip) \in Job
      BY RequestType, Zenon
    <2>2. Request(o, on, v, ip).attempt = FALSE
      BY Zenon DEF Request
    <2>. QED BY <1>a, <2>1, <2>2, Zenon
  <1>0. "set" \in Ops /\ "sampling" \in Ops /\ "log" \in Ops /\ "debug" \in Ops /\ "ip" \in Ops
        /\ "get" \in Ops
    BY Zenon DEF Ops, Streams
  <1>1. CASE Configure(u)
    <2>1. PICK k \in Keys, v \in Values :
            Call(u, Request("set", FALSE, [NoKeys EXCEPT ![k] = v], Home))
      BY <1>1, Zenon DEF Configure
    <2>2. [NoKeys EXCEPT ![k] = v] \in [Keys -> Values \cup {None}]
      BY NoJobType, Zenon
    <2>. QED BY <2>1, <2>2, <1>0, <1>a, NoJobType, Zenon
  <1>3. CASE SetMode(u)
    BY <1>0, <1>a, <1>3, NoJobType, Zenon DEF SetMode
  <1>4. CASE LogControl(u)
    BY <1>0, <1>a, <1>4, NoJobType, Zenon DEF LogControl
  <1>5. CASE DebugDataControl(u)
    BY <1>0, <1>a, <1>5, NoJobType, Zenon DEF DebugDataControl
  <1>6. CASE SetLidarIpConfig(u)
    BY <1>0, <1>a, <1>6, NoJobType, Zenon DEF SetLidarIpConfig
  <1>7. CASE Inquire(u)
    BY <1>0, <1>a, <1>7, NoJobType, Zenon DEF Inquire
  <1>. QED BY <1>1, <1>3, <1>4, <1>5, <1>6, <1>7, Zenon DEF Command

(* What a step of a thread does to pc, job and cmd. *)
Moves(t, l, j) ==
  /\ pc' = [pc EXCEPT ![t] = l]
  /\ job' = [job EXCEPT ![t] = j]
  /\ cmd' \in {None, cmd, t}

LEMMA MovesType ==
  ASSUME FlowOK, NEW t \in Threads, NEW l \in Labels, NEW j \in Job, Moves(t, l, j)
  PROVE  FlowOK'
  BY Zenon DEF FlowOK, Moves

LEMMA ReturnMoves ==
  ASSUME NEW t \in Threads, Return(t)
  PROVE  Moves(t, "idle", NoJob) /\ cmd' = None
  BY Zenon DEF Return, Goto, Moves

LEMMA GotoMoves ==
  ASSUME FlowOK, NEW t \in Threads, NEW l, Goto(t, l), UNCHANGED job, cmd' \in {None, cmd, t}
  PROVE  Moves(t, l, job[t])
  BY Zenon DEF FlowOK, Goto, Moves

LEMMA StageMoves ==
  ASSUME NEW t \in Threads, NEW o, Stage(t, o), UNCHANGED cmd
  PROVE  Moves(t, "stage", Attempt(o, NoKeys, Home))
  BY Zenon DEF Stage, Goto, Moves

LEMMA ThreadNone == None \notin Threads
  BY CommandsAssumption, Zenon DEF Threads

(* cmd_mutex through a step of one thread. *)
LEMMA LockMoves ==
  ASSUME FlowOK, LockInv, NEW t \in Threads, NEW l \in Labels, NEW j \in Job, Moves(t, l, j),
         l \in HoldAt => cmd' = t,
         l \notin HoldAt /\ cmd = t => cmd' = None,
         l \notin HoldAt /\ cmd # t => cmd' = cmd,
         l \in HoldAt => cmd \in {None, t},
         l \in {"idle", "lock", "clear", "relock"} => j.attempt = FALSE,
         l \in {"a_lock", "a_connect", "a_swap", "stage"} => j.attempt = TRUE,
         l \in HoldAt /\ j.attempt = TRUE => ~connected',
         connected' => connected \/ cmd = t
  PROVE  FlowOK' /\ LockInv'
  <1>1. FlowOK'
    BY MovesType, Zenon
  <1>2. ASSUME NEW s \in Threads
        PROVE  LockOK(s)'
    <2>1. CASE s = t
      <3>1. pc'[s] = l /\ job'[s] = j
        BY <2>1, Zenon DEF FlowOK, Moves
      <3>2. cmd' = t <=> l \in HoldAt
        BY ThreadNone, Zenon
      <3>. QED BY <2>1, <3>1, <3>2, Zenon DEF LockOK, HoldAt
    <2>2. CASE s # t
      <3>1. pc'[s] = pc[s] /\ job'[s] = job[s]
        BY <2>2, Zenon DEF FlowOK, Moves
      <3>2. cmd' = s <=> cmd = s
        BY <2>2, ThreadNone, Zenon
      <3>3. LockOK(s)
        BY Zenon DEF LockInv
      <3>4. cmd = s => (connected' => connected)
        BY <2>2, Zenon
      <3>. QED BY <3>1, <3>2, <3>3, <3>4, Zenon DEF LockOK
    <2>. QED BY <2>1, <2>2, Zenon
  <1>. QED BY <1>1, <1>2, Zenon DEF LockInv

LEMMA FlowStep ==
  ASSUME Types, LockInv, [Next]_vars
  PROVE  FlowOK' /\ LockInv'
  <1>. USE DEF deviceVars, cancelVars, lidarVars
  <1>0. FlowOK /\ DataOK /\ StreamsOK
    BY Zenon DEF Types
  <1>a. ASSUME UNCHANGED <<pc, job, cmd>>, connected' => connected
        PROVE  FlowOK' /\ LockInv'
    BY <1>0, <1>a, Zenon DEF FlowOK, LockInv, LockOK
  <1>1. CASE UNCHANGED vars
    BY <1>1, <1>a, Zenon DEF vars
  <1>2. ASSUME NEW u \in Users, Command(u)
        PROVE  FlowOK' /\ LockInv'
    <2>0. u \in Threads /\ LockOK(u)
      BY Zenon DEF Threads, LockInv
    <2>1. PICK j \in Job : j.attempt = FALSE /\ Call(u, j)
      BY <1>2, CommandCalls, Zenon
    <2>2. Moves(u, "lock", j) /\ cmd' = cmd /\ cmd # u /\ connected' = connected
      BY <2>1, <2>0, Zenon DEF Call, Goto, Moves, LockOK, HoldAt
    <2>3. "lock" \in Labels /\ "lock" \notin HoldAt
      BY Zenon DEF Labels, HoldAt
    <2>. QED BY <1>0, <2>0, <2>1, <2>2, <2>3, LockMoves, Zenon
  <1>3. ASSUME NEW t \in Threads, AttemptBegins(t)
        PROVE  FlowOK' /\ LockInv'
    <2>0. LockOK(t)
      BY Zenon DEF LockInv
    <2>. DEFINE j == Attempt("done", NoKeys, Home)
    <2>0a. "done" \in Ops
      BY Zenon DEF Ops
    <2>1. j \in Job /\ j.attempt = TRUE
      BY <2>0a, NoJobType, AttemptType, JobFields, Zenon
    <2>2. Moves(t, "a_lock", j) /\ cmd' = cmd /\ cmd # t /\ connected' = connected
      BY <1>3, <2>0, Zenon DEF AttemptBegins, Goto, Moves, LockOK, HoldAt
    <2>3. "a_lock" \in Labels /\ "a_lock" \notin HoldAt
      BY Zenon DEF Labels, HoldAt
    <2>. HIDE DEF j
    <2>. QED BY <1>0, <2>1, <2>2, <2>3, LockMoves, Zenon
  <1>4. ASSUME NEW t \in Threads, LidarApplies(t)
        PROVE  FlowOK' /\ LockInv'
    BY <1>4, <1>a, Zenon DEF LidarApplies
  <1>5. ASSUME NEW t \in Threads, Step(t)
        PROVE  FlowOK' /\ LockInv'
    <2>0. LockOK(t) /\ job[t] \in Job /\ job[t].op \in Ops /\ pc[t] \in Labels
          /\ NoJob \in Job /\ NoJob.attempt = FALSE
      BY <1>0, NoJobType, Zenon DEF LockInv, FlowOK, Job
    <2>r. ASSUME Return(t), connected' => connected \/ cmd = t, cmd \in {None, t}
          PROVE  FlowOK' /\ LockInv'
      <3>1. "idle" \in Labels /\ "idle" \notin HoldAt
        BY Zenon DEF Labels, HoldAt
      <3>. QED BY <1>0, <2>0, <2>r, <3>1, ReturnMoves, LockMoves, Zenon
    <2>g. ASSUME NEW l \in HoldAt, Goto(t, l), UNCHANGED <<job, connected>>, cmd' = t,
                 cmd \in {None, t},
                 l \in {"a_connect", "a_swap", "stage"} => job[t].attempt = TRUE,
                 job[t].attempt = TRUE => ~connected
          PROVE  FlowOK' /\ LockInv'
      <3>1. l \in Labels /\ l \notin {"idle", "lock", "clear", "relock", "a_lock"}
        BY Zenon DEF HoldAt, Labels
      <3>. QED BY <1>0, <2>0, <2>g, <3>1, GotoMoves, LockMoves, Zenon
    <2>u. ASSUME NEW l \in {"clear", "relock"}, Goto(t, l), UNCHANGED <<job, connected>>,
                 cmd' = None, cmd = t, job[t].attempt = FALSE
          PROVE  FlowOK' /\ LockInv'
      <3>1. l \in Labels /\ l \notin HoldAt
        BY Zenon DEF HoldAt, Labels
      <3>. QED BY <1>0, <2>0, <2>u, <3>1, GotoMoves, LockMoves, Zenon
    <2>s. ASSUME NEW o \in Ops, Stage(t, o), UNCHANGED <<cmd, connected>>, cmd = t, ~connected
          PROVE  FlowOK' /\ LockInv'
      <3>1. "stage" \in Labels /\ "stage" \in HoldAt
        BY Zenon DEF HoldAt, Labels
      <3>2. Attempt(o, NoKeys, Home) \in Job /\ Attempt(o, NoKeys, Home).attempt = TRUE
        BY NoJobType, AttemptType, JobFields, Zenon
      <3>. QED BY <1>0, <2>0, <2>s, <3>1, <3>2, StageMoves, LockMoves, Zenon
    <2>f. FirstStep(job[t]) \in HoldAt \ {"a_connect", "a_swap", "stage"}
      BY Zenon DEF FirstStep, HoldAt
    <2>h. pc[t] \in HoldAt => cmd = t
      BY <2>0, Zenon DEF LockOK
    <2>w. Waits(t) => cmd = t
      BY <2>h, Zenon DEF Waits, HoldAt
    <2>1. CASE Lock(t)
      <3>1. CASE connected
        BY <2>1, <3>1, <2>0, <2>f, <2>g, Zenon DEF Lock, LockOK
      <3>2. CASE ~connected
        BY <2>1, <3>2, <2>r, Zenon DEF Lock
      <3>. QED BY <3>1, <3>2, Zenon
    <2>2. CASE Key9Done(t)
      <3>1. cmd = t /\ (job[t].attempt = TRUE => ~connected)
        BY <2>2, <2>0, Zenon DEF Key9Done, LockOK, HoldAt
      <3>2. "request" \in HoldAt
        BY Zenon DEF HoldAt
      <3>. QED BY <2>2, <3>1, <3>2, <2>g, Zenon DEF Key9Done
    <2>3. CASE Accepted(t)
      <3>1. cmd = t /\ job[t].attempt = FALSE /\ "wait" \in HoldAt
        BY <2>3, <2>0, Zenon DEF Accepted, LockOK, HoldAt, Job
      <3>2. CASE job[t].op = "sampling"
        BY <2>3, <3>1, <3>2, <2>g, Zenon DEF Accepted
      <3>3. CASE job[t].op = "ip"
        BY <2>3, <3>1, <3>3, <2>u, Zenon DEF Accepted
      <3>4. CASE job[t].op \notin {"sampling", "ip"}
        BY <2>3, <3>1, <3>4, <2>r, Zenon DEF Accepted
      <3>. QED BY <3>2, <3>3, <3>4, Zenon
    <2>4. CASE StateReached(t)
      <3>1. cmd = t /\ job[t].attempt = FALSE
        BY <2>4, <2>0, Zenon DEF StateReached, LockOK, HoldAt, Job
      <3>2. CASE job[t].on
        BY <2>4, <3>1, <3>2, <2>r, Zenon DEF StateReached
      <3>3. CASE ~job[t].on
        BY <2>4, <3>1, <3>3, <2>u, Zenon DEF StateReached
      <3>. QED BY <3>2, <3>3, Zenon
    <2>5. CASE StopSampling(t)
      <3>1. Moves(t, "idle", NoJob) /\ cmd' = cmd /\ cmd # t /\ connected' = connected
        BY <2>5, <2>0, Zenon DEF StopSampling, Goto, Moves, LockOK, HoldAt
      <3>2. "idle" \in Labels /\ "idle" \notin HoldAt
        BY DEF Labels, HoldAt
      <3>. QED BY <1>0, <2>0, <3>1, <3>2, LockMoves, Zenon
    <2>6. CASE RecordIp(t)
      BY <2>6, <2>r, Zenon DEF RecordIp
    <2>7. CASE Fails(t)
      BY <2>7, <2>r, <2>w, Zenon DEF Fails
    <2>8. CASE NoteCommandError(t)
      BY <2>8, <2>r, <2>w, Zenon DEF NoteCommandError
    <2>9. CASE Cancelled(t)
      <3>1. cmd = t /\ (job[t].attempt = TRUE => ~connected) /\ "settle" \in HoldAt
        BY <2>9, <2>0, <2>w, Zenon DEF Cancelled, LockOK, HoldAt
      <3>. QED BY <2>9, <3>1, <2>g, Zenon DEF Cancelled
    <2>10. CASE SettleCancel(t)
      <3>1. cmd = t
        BY <2>10, <2>h, Zenon DEF SettleCancel, HoldAt
      <3>. QED BY <2>10, <3>1, <2>r, Zenon DEF SettleCancel
    <2>11. CASE AttemptLocks(t)
      <3>1. CASE connected
        BY <2>11, <3>1, <2>r, Zenon DEF AttemptLocks
      <3>2. CASE ~connected
        <4>1. job[t].attempt = TRUE /\ "a_connect" \in HoldAt
          BY <2>11, <2>0, Zenon DEF AttemptLocks, LockOK, HoldAt
        <4>. QED BY <2>11, <3>2, <4>1, <2>g, Zenon DEF AttemptLocks
      <3>. QED BY <3>1, <3>2
    <2>12. CASE AttemptConnects(t)
      <3>. DEFINE j == Attempt("done", NoKeys, at)
      <3>0. "done" \in Ops /\ at \in Addresses
        BY <1>0, Zenon DEF Ops, DataOK
      <3>1. j \in Job /\ j.attempt = TRUE
        BY <3>0, NoJobType, AttemptType, JobFields, Zenon
      <3>2. cmd = t /\ job[t].attempt = TRUE /\ ~connected
        BY <2>12, <2>0, Zenon DEF AttemptConnects, LockOK, HoldAt
      <3>3. Moves(t, "a_swap", j) /\ cmd' = cmd /\ connected' = connected
        BY <1>0, <2>12, Zenon DEF AttemptConnects, Goto, Moves, FlowOK
      <3>4. "a_swap" \in Labels /\ "a_swap" \in HoldAt
        BY Zenon DEF Labels, HoldAt
      <3>. HIDE DEF j
      <3>. QED BY <1>0, <3>1, <3>2, <3>3, <3>4, LockMoves, Zenon
    <2>13. CASE AttemptFails(t)
      <3>1. cmd = t
        BY <2>13, <2>h, Zenon DEF AttemptFails, HoldAt
      <3>. QED BY <2>13, <3>1, <2>r, Zenon DEF AttemptFails
    <2>14. CASE AttemptSwaps(t)
      <3>. DEFINE j == Attempt("set", host_setup, job[t].ip)
      <3>0. "set" \in Ops /\ job[t].ip \in Addresses
            /\ host_setup \in [Keys -> Values \cup {None}]
        BY <1>0, <2>0, Zenon DEF Ops, DataOK, Job
      <3>1. j \in Job /\ j.attempt = TRUE
        BY <3>0, AttemptType, JobFields, Zenon
      <3>2. cmd = t /\ job[t].attempt = TRUE /\ ~connected
        BY <2>14, <2>0, Zenon DEF AttemptSwaps, LockOK, HoldAt
      <3>3. Moves(t, "request", j) /\ cmd' = cmd /\ connected' = connected
        BY <1>0, <2>14, Zenon DEF AttemptSwaps, ReplayBegins, Goto, Moves, FlowOK
      <3>4. "request" \in Labels /\ "request" \in HoldAt
        BY Zenon DEF Labels, HoldAt
      <3>. HIDE DEF j
      <3>. QED BY <1>0, <3>1, <3>2, <3>3, <3>4, LockMoves, Zenon
    <2>15. CASE Replayed(t)
      <3>1. cmd = t /\ job[t].attempt = TRUE /\ ~connected
        BY <2>15, <2>0, Zenon DEF Replayed, LockOK, HoldAt, Job
      <3>2. CASE job[t].op = "sampling"
        <4>1. "wait" \in HoldAt
          BY Zenon DEF HoldAt
        <4>. QED BY <2>15, <3>1, <3>2, <4>1, <2>g, Zenon DEF Replayed
      <3>3. CASE job[t].op # "sampling"
        <4>1. StageAfter(job[t].op) \in Ops
          BY Zenon DEF StageAfter, Ops, Streams
        <4>. QED BY <2>15, <3>1, <3>3, <4>1, <2>s, Zenon DEF Replayed
      <3>. QED BY <3>2, <3>3, Zenon
    <2>16. CASE ReplayedState(t)
      <3>1. cmd = t /\ ~connected /\ "log" \in Ops
        BY <2>16, <2>0, Zenon DEF ReplayedState, LockOK, HoldAt, Ops, Streams, Job
      <3>. QED BY <2>16, <3>1, <2>s, Zenon DEF ReplayedState
    <2>17. CASE NextStage(t)
      <3>1. cmd = t /\ job[t].attempt = TRUE /\ ~connected
        BY <2>17, <2>0, Zenon DEF NextStage, LockOK, HoldAt
      <3>2. CASE requested[job[t].op]
        BY <2>17, <3>1, <3>2, <2>f, <2>g, Zenon DEF NextStage
      <3>3. CASE ~requested[job[t].op]
        <4>1. StageAfter(job[t].op) \in Ops
          BY DEF StageAfter, Ops, Streams
        <4>. QED BY <2>17, <3>1, <3>3, <4>1, <2>s, Zenon DEF NextStage
      <3>. QED BY <3>2, <3>3, Zenon
    <2>18. CASE AttemptSucceeds(t)
      <3>1. cmd = t
        BY <2>18, <2>h, Zenon DEF AttemptSucceeds, HoldAt
      <3>. QED BY <2>18, <3>1, <2>r, Zenon DEF AttemptSucceeds
    <2>. QED BY <1>5, <2>1, <2>2, <2>3, <2>4, <2>5, <2>6, <2>7, <2>8, <2>9, <2>10, <2>11, <2>12,
                <2>13, <2>14, <2>15, <2>16, <2>17, <2>18, Zenon DEF Step
  <1>6. CASE Cancel \/ Outage \/ LidarResets
    BY <1>6, <1>a DEF Cancel, Outage, LidarResets
  <1>. QED BY <1>1, <1>2, <1>3, <1>4, <1>5, <1>6, Zenon DEF Next

(* Every step of a thread moves only that thread. *)
LEMMA OneMoves ==
  ASSUME NEW t \in Threads, Step(t)
  PROVE  \E l : pc' = [pc EXCEPT ![t] = l]
  <1>r. Return(t) => \E l : pc' = [pc EXCEPT ![t] = l]
    BY Zenon DEF Return, Goto
  <1>g. ASSUME NEW l, Goto(t, l)
        PROVE  \E m : pc' = [pc EXCEPT ![t] = m]
    BY <1>g, Zenon DEF Goto
  <1>s. ASSUME NEW o, Stage(t, o)
        PROVE  \E l : pc' = [pc EXCEPT ![t] = l]
    BY <1>s, Zenon DEF Stage, Goto
  <1>1. Lock(t) \/ Key9Done(t) \/ StateReached(t) \/ StopSampling(t) \/ RecordIp(t)
          => \E l : pc' = [pc EXCEPT ![t] = l]
    BY <1>r, <1>g, Zenon DEF Lock, Key9Done, StateReached, StopSampling, RecordIp
  <1>2. Accepted(t) => Return(t) \/ Goto(t, "wait") \/ Goto(t, "relock")
    BY Zenon DEF Accepted
  <1>3. Fails(t) \/ NoteCommandError(t) \/ Cancelled(t) \/ SettleCancel(t) \/ AttemptLocks(t)
        \/ AttemptConnects(t) \/ AttemptFails(t) \/ AttemptSwaps(t)
          => \E l : pc' = [pc EXCEPT ![t] = l]
    BY <1>r, <1>g, Zenon DEF Fails, NoteCommandError, Cancelled, SettleCancel, AttemptLocks,
       AttemptConnects, AttemptFails, AttemptSwaps, ReplayBegins
  <1>4. Replayed(t) \/ ReplayedState(t) \/ NextStage(t) \/ AttemptSucceeds(t)
          => \E l : pc' = [pc EXCEPT ![t] = l]
    BY <1>r, <1>g, <1>s, Zenon DEF Replayed, ReplayedState, NextStage, AttemptSucceeds
  <1>. QED BY <1>r, <1>g, <1>1, <1>2, <1>3, <1>4, Zenon DEF Step

(* The keys and addresses, and the streams, keep their types. *)
LEMMA ExceptType ==
  ASSUME NEW D, NEW S, NEW r \in [D -> S], NEW d \in D, NEW b \in S
  PROVE  [r EXCEPT ![d] = b] \in [D -> S]
  BY Zenon

LEMMA NotedType ==
  ASSUME StreamsOK, NEW j \in Job
  PROVE  Noted(j) \in [Streams -> BOOLEAN]
  <1>1. CASE j.op = "sampling"
    BY <1>1, Zenon DEF Noted, StreamsOK, Job, Streams
  <1>2. CASE j.op \in {"log", "debug"}
    BY <1>2, Zenon DEF Noted, StreamsOK, Job, Streams
  <1>3. CASE j.op \notin {"sampling", "log", "debug"}
    BY <1>3, Zenon DEF Noted, StreamsOK, Job, Streams
  <1>. QED BY <1>1, <1>2, <1>3, Zenon

(* The steps that touch neither the LiDAR nor what the Device has recorded of it. *)
Records == <<host_setup, keys, stored_ip, at, requested, running>>
LEMMA StillRecords ==
  /\ \A u \in Users : Command(u) => UNCHANGED Records
  /\ \A t \in Threads : AttemptBegins(t) => UNCHANGED Records
  /\ Cancel \/ Outage => UNCHANGED Records
  /\ \A t \in Threads :
       Step(t) /\ ~Accepted(t) /\ ~StopSampling(t) /\ ~Replayed(t) => UNCHANGED Records
  <1>. USE DEF deviceVars, cancelVars, lidarVars
  <1>1. ASSUME NEW u \in Users, Command(u) PROVE UNCHANGED Records
    <2>1. PICK j \in Job : Call(u, j)
      BY <1>1, CommandCalls, Zenon
    <2>. QED BY <2>1, Zenon DEF Call, Records
  <1>2. ASSUME NEW t \in Threads, AttemptBegins(t) PROVE UNCHANGED Records
    BY <1>2, Zenon DEF AttemptBegins, Records
  <1>3. Cancel \/ Outage => UNCHANGED Records
    BY Zenon DEF Cancel, Outage, Records
  <1>4. ASSUME NEW t \in Threads, Step(t), ~Accepted(t), ~StopSampling(t), ~Replayed(t)
        PROVE UNCHANGED Records
    <2>1. Lock(t) \/ Key9Done(t) \/ StateReached(t) \/ RecordIp(t) \/ Fails(t)
            \/ NoteCommandError(t) => UNCHANGED Records
      BY Zenon DEF Lock, Key9Done, StateReached, RecordIp, Fails, NoteCommandError, Records
    <2>2. Cancelled(t) \/ SettleCancel(t) \/ AttemptLocks(t) \/ AttemptConnects(t)
            \/ AttemptFails(t) \/ AttemptSwaps(t) => UNCHANGED Records
      BY Zenon DEF Cancelled, SettleCancel, AttemptLocks, AttemptConnects, AttemptFails, AttemptSwaps,
             Records
    <2>3. ReplayedState(t) \/ NextStage(t) \/ AttemptSucceeds(t) => UNCHANGED Records
      BY Zenon DEF ReplayedState, NextStage, AttemptSucceeds, Records
    <2>. QED BY <1>4, <2>1, <2>2, <2>3, Zenon DEF Step
  <1>. QED BY <1>1, <1>2, <1>3, <1>4, Zenon

LEMMA RecordStep ==
  ASSUME Types, [Next]_vars
  PROVE  DataOK' /\ StreamsOK'
  <1>. USE DEF deviceVars, cancelVars, lidarVars
  <1>0. FlowOK /\ DataOK /\ StreamsOK
    BY Zenon DEF Types
  <1>a. UNCHANGED Records => DataOK' /\ StreamsOK'
    <2>1. UNCHANGED Records => DataOK'
      BY <1>0, Zenon DEF Records, DataOK
    <2>2. UNCHANGED Records => StreamsOK'
      BY <1>0, Zenon DEF Records, StreamsOK
    <2>. QED BY <2>1, <2>2, Zenon
  <1>1. CASE UNCHANGED vars
    BY <1>1, <1>a, Zenon DEF vars, Records
  <1>2. ASSUME NEW t \in Threads, LidarApplies(t)
        PROVE  DataOK' /\ StreamsOK'
    <2>1. job[t].on \in BOOLEAN /\ job[t].ip \in Addresses
          /\ job[t].vals \in [Keys -> Values \cup {None}]
      BY <1>0, Zenon DEF FlowOK, Job
    <2>2. keys' \in [Keys -> Values]
      BY <1>0, <1>2, <2>1, OverType, Zenon DEF DataOK, LidarApplies
    <2>3. running' \in [Streams -> BOOLEAN] /\ requested' \in [Streams -> BOOLEAN]
      BY <1>0, <1>2, <2>1, Zenon DEF StreamsOK, LidarApplies
    <2>4. stored_ip' \in Addresses /\ at' \in Addresses
      BY <1>0, <1>2, <2>1, Zenon DEF DataOK, LidarApplies
    <2>5. host_setup' \in [Keys -> Values \cup {None}]
      BY <1>0, <1>2, Zenon DEF DataOK, LidarApplies
    <2>. QED BY <2>2, <2>3, <2>4, <2>5, Zenon DEF DataOK, StreamsOK
  <1>3. ASSUME NEW t \in Threads, Accepted(t)
        PROVE  DataOK' /\ StreamsOK'
    <2>1. job[t] \in Job /\ job[t].vals \in [Keys -> Values \cup {None}]
      BY <1>0, Zenon DEF FlowOK, Job
    <2>2. host_setup' \in [Keys -> Values \cup {None}]
      BY <1>0, <1>3, <2>1, OverType, Zenon DEF DataOK, Accepted, Absorb
    <2>3. requested' \in [Streams -> BOOLEAN]
      <3>1. requested' = Noted(job[t])
        BY <1>3, Zenon DEF Accepted
      <3>. QED BY <1>0, <2>1, <3>1, NotedType, Zenon
    <2>4. UNCHANGED <<keys, running, stored_ip, at>>
      BY <1>3, Zenon DEF Accepted
    <2>. QED BY <1>0, <2>2, <2>3, <2>4, Zenon DEF DataOK, StreamsOK
  <1>4. ASSUME NEW t \in Threads, StopSampling(t)
        PROVE  DataOK' /\ StreamsOK'
    <2>1. DataOK'
      BY <1>0, <1>4, Zenon DEF StopSampling, DataOK
    <2>2. requested' \in [Streams -> BOOLEAN]
      <3>1. requested' = [requested EXCEPT !["sampling"] = FALSE]
        BY <1>4, Zenon DEF StopSampling
      <3>3. FALSE \in BOOLEAN /\ "sampling" \in Streams /\ requested \in [Streams -> BOOLEAN]
        BY <1>0, Zenon DEF StreamsOK, Streams
      <3>. QED BY <3>1, <3>3, ExceptType, Zenon
    <2>3. running' = running
      BY <1>4, Zenon DEF StopSampling
    <2>4. StreamsOK'
      BY <1>0, <2>2, <2>3, Zenon DEF StreamsOK
    <2>. QED BY <2>1, <2>4, Zenon
  <1>5. ASSUME NEW t \in Threads, Replayed(t)
        PROVE  DataOK' /\ StreamsOK'
    <2>1. job[t] \in Job
      BY <1>0, Zenon DEF FlowOK
    <2>2. requested' = Noted(job[t]) /\ UNCHANGED <<host_setup, keys, stored_ip, at, running>>
      BY <1>5, Zenon DEF Replayed
    <2>3. requested' \in [Streams -> BOOLEAN]
      BY <1>0, <2>1, <2>2, NotedType, Zenon
    <2>. QED BY <1>0, <2>2, <2>3, Zenon DEF DataOK, StreamsOK
  <1>6. CASE LidarResets
    <2>1. DataOK'
      BY <1>0, <1>6, CommandsAssumption, Zenon DEF LidarResets, DataOK
    <2>2. StreamsOK'
      BY <1>0, <1>6, Zenon DEF LidarResets, StreamsOK
    <2>. QED BY <2>1, <2>2, Zenon
  <1>. QED BY <1>a, <1>1, <1>2, <1>3, <1>4, <1>5, <1>6, StillRecords, Zenon DEF Next

-----------------------------------------------------------------------------
(* One cancel(), one command *)

LEMMA PendingStep ==
  ASSUME FlowOK, PendingCancel, [Next]_vars
  PROVE  PendingCancel'
  <1>. USE DEF deviceVars, cancelVars, lidarVars
  <1>a. ASSUME NEW t \in Threads, NEW l, pc' = [pc EXCEPT ![t] = l],
               pc[t] # "settle", UNCHANGED cancelVars
        PROVE  PendingCancel'
    <2>1. (\A s \in Threads : pc'[s] # "settle") => \A s \in Threads : pc[s] # "settle"
      BY <1>a, Zenon DEF FlowOK
    <2>. QED BY <1>a, <2>1, Zenon DEF PendingCancel
  <1>1. CASE UNCHANGED <<pc, cancelVars>>
    BY <1>1, Zenon DEF PendingCancel
  <1>2. ASSUME NEW u \in Users, Command(u)
        PROVE  PendingCancel'
    <2>1. PICK j \in Job : Call(u, j)
      BY <1>2, CommandCalls, Zenon
    <2>2. u \in Threads /\ pc[u] # "settle" /\ pc' = [pc EXCEPT ![u] = "lock"] /\ UNCHANGED cancelVars
      BY <2>1, Zenon DEF Call, Goto, Threads
    <2>. QED BY <2>2, <1>a, Zenon
  <1>3. ASSUME NEW t \in Threads, AttemptBegins(t)
        PROVE  PendingCancel'
    <2>1. pc[t] # "settle" /\ pc' = [pc EXCEPT ![t] = "a_lock"] /\ UNCHANGED cancelVars
      BY <1>3, Zenon DEF AttemptBegins, Goto
    <2>. QED BY <2>1, <1>a, Zenon
  <1>4. ASSUME NEW t \in Threads, LidarApplies(t)
        PROVE  PendingCancel'
    BY <1>4, <1>1, Zenon DEF LidarApplies
  <1>5. ASSUME NEW t \in Threads, Step(t)
        PROVE  PendingCancel'
    <2>1. CASE Cancelled(t)
      <3>1. pc'[t] = "settle"
        BY <2>1, Zenon DEF Cancelled, Goto, FlowOK
      <3>. QED BY <3>1, Zenon DEF PendingCancel
    <2>2. CASE SettleCancel(t)
      <3>1. cancel_' = FALSE /\ log_cancel' = FALSE /\ owed' = FALSE
        BY <2>2, Zenon DEF SettleCancel
      <3>. QED BY <3>1, Zenon DEF PendingCancel
    <2>3. CASE ~Cancelled(t) /\ ~SettleCancel(t)
      <3>1. PICK l : pc' = [pc EXCEPT ![t] = l]
        BY <1>5, OneMoves, Zenon
      <3>2. Lock(t) \/ Key9Done(t) \/ Accepted(t) \/ StateReached(t) \/ StopSampling(t) \/ RecordIp(t)
              => pc[t] # "settle" /\ UNCHANGED cancelVars
        BY Zenon DEF Lock, Key9Done, Accepted, StateReached, StopSampling, RecordIp
      <3>3. Fails(t) \/ NoteCommandError(t) \/ AttemptLocks(t) \/ AttemptConnects(t)
            \/ AttemptFails(t) \/ AttemptSwaps(t)
              => pc[t] # "settle" /\ UNCHANGED cancelVars
        BY Zenon DEF Fails, NoteCommandError, Waits, AttemptLocks, AttemptConnects, AttemptFails,
               AttemptSwaps
      <3>4. Replayed(t) \/ ReplayedState(t) \/ NextStage(t) \/ AttemptSucceeds(t)
              => pc[t] # "settle" /\ UNCHANGED cancelVars
        BY Zenon DEF Replayed, ReplayedState, NextStage, AttemptSucceeds
      <3>5. pc[t] # "settle" /\ UNCHANGED cancelVars
        BY <1>5, <2>3, <3>2, <3>3, <3>4, Zenon DEF Step
      <3>. QED BY <3>1, <3>5, <1>a, Zenon
    <2>. QED BY <2>1, <2>2, <2>3, Zenon
  <1>6. CASE Cancel
    <2>1. cancel_' = TRUE /\ log_cancel' = TRUE /\ owed' = TRUE
      BY <1>6, Zenon DEF Cancel
    <2>. QED BY <2>1, Zenon DEF PendingCancel
  <1>7. CASE Outage \/ LidarResets
    BY <1>7, <1>1, Zenon DEF Outage, LidarResets
  <1>8. CASE UNCHANGED vars
    BY <1>8, <1>1, Zenon DEF vars
  <1>. QED BY <1>2, <1>3, <1>4, <1>5, <1>6, <1>7, <1>8, Zenon DEF Next

-----------------------------------------------------------------------------
LEMMA TypesInit == Init => Types /\ LockInv /\ PendingCancel
  <1>. SUFFICES ASSUME Init
                PROVE  Types /\ LockInv /\ PendingCancel
    BY Zenon
  <1>1. "idle" \in Labels /\ "idle" \notin HoldAt
    BY Zenon DEF Labels, HoldAt
  <1>2. FlowOK
    BY <1>1, NoJobType, Zenon DEF Init, FlowOK
  <1>3. DataOK
    BY CommandsAssumption, Zenon DEF Init, DataOK
  <1>4. StreamsOK
    BY Zenon DEF Init, StreamsOK
  <1>5. ASSUME NEW t \in Threads
        PROVE  LockOK(t)
    <2>1. pc[t] = "idle" /\ cmd # t /\ job[t].attempt = FALSE
      BY ThreadNone, NoJobType, Zenon DEF Init
    <2>. QED BY <1>1, <2>1, Zenon DEF LockOK
  <1>6. PendingCancel
    <2>1. cancel_ = FALSE /\ log_cancel = FALSE /\ owed = FALSE
      BY Zenon DEF Init
    <2>. QED BY <2>1, Zenon DEF PendingCancel
  <1>. QED BY <1>2, <1>3, <1>4, <1>5, <1>6, Zenon DEF Types, LockInv

LEMMA CommandsTypes == Spec => [](Types /\ LockInv)
  <1>1. ASSUME Types, LockInv, [Next]_vars
        PROVE  Types' /\ LockInv'
    BY <1>1, FlowStep, RecordStep, Zenon DEF Types
  <1>. QED BY <1>1, TypesInit, PTL DEF Spec

(* One cancel() ends one command: while no call is between consuming a flag and  *)
(* settle_cancel() (device.cpp:890), the Session's flag and log_cancel both say   *)
(* whether a cancel() is still owed; whichever flag the calls wait on, and however *)
(* often an attempt replaces the Session (device.cpp:1002).                        *)
THEOREM CommandsPendingCancel == Spec => []PendingCancel
  <1>1. ASSUME Types, PendingCancel, [Next]_vars
        PROVE  PendingCancel'
    BY <1>1, PendingStep, Zenon DEF Types
  <1>. QED BY <1>1, TypesInit, CommandsTypes, PTL DEF Spec

-----------------------------------------------------------------------------
(* What a reconnect restores *)

KeysLater == {"sampling", "log", "debug", "done"}
LogLater == {"debug", "done"}
DebugLater == {"done"}

LEMMA KeysNotStreams == Keys \cap Streams = {}
  BY CommandsAssumption, Zenon DEF Streams

(* A step that leaves the LiDAR and the records alone, and settles nothing. *)
LEMMA Keeps ==
  ASSUME RestoreInv, UNCHANGED <<host_setup, keys, running>>, ~applied',
         requested'["log"] = requested["log"], requested'["debug"] = requested["debug"],
         sure' \subseteq sure,
         applied => sure' \cap (Carried(job[cmd].vals) \cup {job[cmd].op}) = {},
         Settled(KeysLater)' => Settled(KeysLater),
         Settled(LogLater)' => Settled(LogLater),
         Settled(DebugLater)' => Settled(DebugLater)
  PROVE  RestoreInv' /\ AppliedInv'
  <1>. USE DEF KeysLater, LogLater, DebugLater
  <1>1. ASSUME NEW k \in Keys, k \in sure'
        PROVE  /\ host_setup'[k] # None
               /\ Settled(KeysLater)' => host_setup'[k] = keys'[k]
    <2>1. k \in sure /\ ~(applied /\ k \in Carried(job[cmd].vals))
      BY <1>1, Zenon
    <2>. QED BY <2>1, Zenon DEF RestoreInv, KeysInv
  <1>2. KeysInv'
    BY <1>1, Zenon DEF KeysInv
  <1>3. ASSUME NEW o \in {"log", "debug"}, NEW later, StreamInv(o, later),
               Settled(later)' => Settled(later)
        PROVE  StreamInv(o, later)'
    <2>1. requested'[o] = requested[o] /\ running' = running
      BY Zenon
    <2>2. o \in sure' => o \in sure /\ ~(applied /\ job[cmd].op = o)
      BY Zenon
    <2>. QED BY <1>3, <2>1, <2>2, Zenon DEF StreamInv
  <1>. QED BY <1>2, <1>3, Zenon DEF RestoreInv, AppliedInv

(* A step away from the holder of cmd_mutex. *)
LEMMA Elsewhere ==
  ASSUME RestoreInv, AppliedInv, StageInv,
         UNCHANGED <<host_setup, keys, running, applied, sure, cmd>>,
         requested'["log"] = requested["log"], requested'["debug"] = requested["debug"],
         connected' => connected,
         cmd # None => pc'[cmd] = pc[cmd] /\ job'[cmd] = job[cmd]
  PROVE  RestoreInv' /\ AppliedInv' /\ StageInv'
  <1>1. AppliedInv'
    BY Zenon DEF AppliedInv, Carried
  <1>2. StageInv'
    BY Zenon DEF StageInv
  <1>3. ASSUME NEW later, Settled(later)'
        PROVE  Settled(later)
    BY <1>3, Zenon DEF Settled
  <1>4. applied => cmd # None
    BY Zenon DEF AppliedInv
  <1>5. KeysInv'
    BY <1>3, <1>4, Zenon DEF RestoreInv, KeysInv, Carried
  <1>6. ASSUME NEW o \in {"log", "debug"}, NEW later, StreamInv(o, later)
        PROVE  StreamInv(o, later)'
    BY <1>6, <1>3, <1>4, Zenon DEF StreamInv
  <1>. QED BY <1>1, <1>2, <1>5, <1>6, Zenon DEF RestoreInv

(* A step that ends with cmd_mutex free. *)
LEMMA Releases ==
  ASSUME RestoreInv, UNCHANGED <<host_setup, keys, running, requested>>, ~applied',
         connected' => connected, cmd' = None, sure' \subseteq sure,
         applied => sure' \cap (Carried(job[cmd].vals) \cup {job[cmd].op}) = {}
  PROVE  RestoreInv' /\ AppliedInv' /\ StageInv'
  <1>1. ASSUME NEW later, Settled(later)'
        PROVE  Settled(later)
    BY <1>1, Zenon DEF Settled
  <1>2. StageInv'
    BY Zenon DEF StageInv
  <1>. QED BY <1>1, <1>2, Keeps, Zenon

(* The holder is a command after a step only if it was one, or the Device is connected. *)
CommandStays(t) ==
  job'[t].attempt = FALSE => connected \/ (cmd = t /\ job[t].attempt = FALSE)

(* A step of the holder that leaves the LiDAR and the records alone. *)
LEMMA Holds ==
  ASSUME FlowOK, RestoreInv, UNCHANGED <<host_setup, keys, running, requested, connected>>,
         ~applied', sure' \subseteq sure,
         applied => sure' \cap (Carried(job[cmd].vals) \cup {job[cmd].op}) = {},
         NEW t \in Threads, cmd' = t,
         Settled(KeysLater) \/ ~(pc'[t] \in ReplayAt /\ job'[t].op \in KeysLater),
         Settled(LogLater) \/ ~(pc'[t] \in ReplayAt /\ job'[t].op \in LogLater),
         Settled(DebugLater) \/ ~(pc'[t] \in ReplayAt /\ job'[t].op \in DebugLater),
         CommandStays(t)
  PROVE  RestoreInv' /\ AppliedInv'
  <1>0. t # None
    BY ThreadNone, Zenon
  <1>1. ASSUME NEW later, Settled(later)',
               Settled(later) \/ ~(pc'[t] \in ReplayAt /\ job'[t].op \in later)
        PROVE  Settled(later)
    <2>1. CASE connected'
      BY <2>1, Zenon DEF Settled
    <2>2. CASE job'[t].attempt = FALSE
      <3>1. connected \/ (cmd = t /\ job[t].attempt = FALSE)
        BY <2>2, Zenon DEF CommandStays
      <3>. QED BY <1>0, <3>1, Zenon DEF Settled
    <2>3. CASE pc'[t] \in ReplayAt /\ job'[t].op \in later
      BY <1>1, <2>3, Zenon
    <2>4. connected' \/ job'[t].attempt = FALSE \/ (pc'[t] \in ReplayAt /\ job'[t].op \in later)
      BY <1>1, Zenon DEF Settled
    <2>. QED BY <2>1, <2>2, <2>3, <2>4, Zenon
  <1>. QED BY <1>1, Keeps, Zenon

(* Before it is processed, a request in doubt is none. *)
LEMMA Doubts ==
  /\ \A j : Doubted(j) \subseteq sure
  /\ \A j : Doubted(j) \cap (Carried(j.vals) \cup {j.op}) = {}
  BY Zenon DEF Doubted

(* The LiDAR processes a request. *)
LEMMA AppliesStep ==
  ASSUME Types, LockInv, StageInv, RestoreInv, NEW t \in Threads, LidarApplies(t)
  PROVE  RestoreInv' /\ AppliedInv' /\ StageInv'
  <1>. USE DEF deviceVars, cancelVars
  <1>. DEFINE j == job[t]
  <1>0. FlowOK /\ DataOK /\ StreamsOK /\ LockOK(t)
    BY Zenon DEF Types, LockInv
  <1>1. cmd = t /\ t # None /\ pc[t] = "request" /\ ~applied /\ applied'
    BY <1>0, ThreadNone, Zenon DEF LidarApplies, LockOK, HoldAt
  <1>2. UNCHANGED <<pc, job, cmd, connected, host_setup, requested, sure>>
    BY Zenon DEF LidarApplies
  <1>3. \A k \in Keys : keys'[k] = (IF j.vals[k] = None THEN keys[k] ELSE j.vals[k])
    BY Zenon DEF LidarApplies, Over
  <1>4. \A o \in Streams : running'[o] = (IF j.op = o THEN j.on ELSE running[o])
    BY <1>0, Zenon DEF LidarApplies, StreamsOK
  <1>5. ASSUME NEW later
        PROVE  Settled(later)' = Settled(later)
    BY <1>2, Zenon DEF Settled
  <1>6. AppliedInv'
    BY <1>1, <1>2, <1>3, <1>4, Zenon DEF AppliedInv, Carried
  <1>7. StageInv'
    BY <1>2, Zenon DEF StageInv
  <1>8. KeysInv'
    <2>1. ASSUME NEW k \in Keys, k \in sure'
          PROVE  /\ host_setup'[k] # None
                 /\ Settled(KeysLater)' => host_setup'[k] = keys'[k] \/ k \in Carried(j.vals)
      BY <1>1, <1>2, <1>3, <1>5, <2>1, Zenon DEF RestoreInv, KeysInv, Carried, KeysLater
    <2>2. Carried(j.vals)' = Carried(j.vals) /\ job'[cmd'] = j
      BY <1>1, <1>2, Zenon DEF Carried
    <2>. QED BY <1>1, <1>2, <2>1, <2>2, Zenon DEF KeysInv, KeysLater
  <1>9. ASSUME NEW o \in {"log", "debug"}, NEW later, StreamInv(o, later)
        PROVE  StreamInv(o, later)'
    <2>1. o \in Streams
      BY Zenon DEF Streams
    <2>2. CASE j.op = o
      <3>1. CASE j.attempt = TRUE
        <4>1. requested[o] = TRUE
          BY <1>1, <2>2, <3>1, Zenon DEF StageInv, ReplayAt
        <4>. QED BY <1>1, <1>2, <2>2, <4>1, Zenon DEF StreamInv
      <3>2. CASE j.attempt = FALSE
        BY <1>1, <1>2, <2>2, <3>2, Zenon DEF StreamInv
      <3>3. j.attempt = TRUE \/ j.attempt = FALSE
        BY <1>0, Zenon DEF FlowOK, Job
      <3>. QED BY <3>1, <3>2, <3>3, Zenon
    <2>3. CASE j.op # o
      <3>1. running'[o] = running[o] /\ requested'[o] = requested[o]
        BY <1>2, <1>4, <2>1, <2>3, Zenon
      <3>. QED BY <1>1, <1>2, <1>5, <1>9, <2>3, <3>1, Zenon DEF StreamInv
    <2>. QED BY <2>2, <2>3, Zenon
  <1>. QED BY <1>6, <1>7, <1>8, <1>9, Zenon DEF RestoreInv

(* The accepting ACK of a command: what it carried is recorded. *)
LEMMA AcceptedStep ==
  ASSUME Types, LockInv, AppliedInv, RestoreInv, NEW t \in Threads, Accepted(t)
  PROVE  RestoreInv' /\ AppliedInv' /\ StageInv'
  <1>. DEFINE j == job[t]
  <1>0. FlowOK /\ DataOK /\ StreamsOK /\ LockOK(t) /\ j \in Job
    BY Zenon DEF Types, LockInv, FlowOK
  <1>1. cmd = t /\ t # None /\ applied /\ ~applied' /\ j.attempt = FALSE
    BY <1>0, ThreadNone, Zenon DEF Accepted, LockOK, HoldAt, Job
  <1>2. UNCHANGED <<keys, running>> /\ sure' = Certain(j) /\ host_setup' = Over(host_setup, j.vals)
        /\ requested' = Noted(j)
    BY Zenon DEF Accepted, Absorb
  <1>3. AppliedInv'
    BY <1>1, Zenon DEF AppliedInv
  <1>4. StageInv'
    <2>1. cmd' = None \/ (cmd' = t /\ job' = job)
      BY <1>1, Zenon DEF Accepted, Return
    <2>. QED BY <1>1, <2>1, Zenon DEF StageInv
  <1>5. KeysInv'
    <2>1. ASSUME NEW k \in Keys, k \in sure'
          PROVE  host_setup'[k] # None /\ host_setup'[k] = keys'[k]
      <3>1. host_setup'[k] = (IF j.vals[k] = None THEN host_setup[k] ELSE j.vals[k])
        BY <1>2, Zenon DEF Over
      <3>2. CASE k \in Carried(j.vals)
        BY <1>1, <1>2, <3>1, <3>2, Zenon DEF AppliedInv, Carried
      <3>3. CASE k \notin Carried(j.vals)
        <4>1. k \in sure /\ j.vals[k] = None
          BY <1>2, <2>1, <3>3, KeysNotStreams, Zenon DEF Certain, Carried
        <4>2. Settled(KeysLater)
          BY <1>1, Zenon DEF Settled
        <4>. QED BY <1>1, <1>2, <3>1, <3>3, <4>1, <4>2, Zenon DEF RestoreInv, KeysInv, KeysLater
      <3>. QED BY <3>2, <3>3, Zenon
    <2>. QED BY <2>1, Zenon DEF KeysInv
  <1>6. ASSUME NEW o \in {"log", "debug"}, NEW later, StreamInv(o, later)
        PROVE  StreamInv(o, later)'
    <2>0. o \in Streams /\ o # "sampling" /\ o \notin Keys
      BY KeysNotStreams, Zenon DEF Streams
    <2>1. CASE j.op = o
      <3>1. running'[o] = j.on
        BY <1>1, <1>2, <2>0, <2>1, Zenon DEF AppliedInv
      <3>2. requested'[o] = j.on
        BY <1>0, <1>2, <2>0, <2>1, Zenon DEF Noted, StreamsOK
      <3>. QED BY <3>1, <3>2, Zenon DEF StreamInv
    <2>2. CASE j.op # o
      <3>1. requested'[o] = requested[o]
        BY <1>0, <1>2, <2>0, <2>2, Zenon DEF Noted, StreamsOK
      <3>2. o \in sure' => o \in sure
        BY <1>2, <2>0, <2>2, Zenon DEF Certain, Carried
      <3>3. Settled(later)
        BY <1>1, Zenon DEF Settled
      <3>. QED BY <1>1, <1>2, <1>6, <2>2, <3>1, <3>2, <3>3, Zenon DEF StreamInv
    <2>. QED BY <2>1, <2>2
  <1>. QED BY <1>3, <1>4, <1>5, <1>6, Zenon DEF RestoreInv

(* The accepting ACK of a replay's stage. *)
LEMMA ReplayedStep ==
  ASSUME Types, LockInv, AppliedInv, StageInv, RestoreInv, NEW t \in Threads, Replayed(t)
  PROVE  RestoreInv' /\ AppliedInv' /\ StageInv'
  <1>. USE DEF cancelVars
  <1>. DEFINE j == job[t]
  <1>0. FlowOK /\ DataOK /\ StreamsOK /\ LockOK(t) /\ j \in Job
    BY Zenon DEF Types, LockInv, FlowOK
  <1>1. cmd = t /\ t # None /\ applied /\ ~applied' /\ j.attempt = TRUE /\ ~connected
        /\ pc[t] = "request"
    BY <1>0, ThreadNone, Zenon DEF Replayed, LockOK, HoldAt, Job
  <1>2. UNCHANGED <<cmd, connected, host_setup, keys, running>> /\ sure' = Certain(j)
        /\ requested' = Noted(j)
    BY Zenon DEF Replayed
  <1>3. AppliedInv'
    BY <1>1, Zenon DEF AppliedInv
  <1>4. /\ j.op \in {"set", "sampling", "log", "debug"}
        /\ j.op = "set" => j.vals = host_setup
        /\ j.op # "set" => j.on = TRUE /\ j.vals = NoKeys
        /\ j.op \in {"log", "debug"} => requested[j.op] = TRUE
    BY <1>1, Zenon DEF StageInv, ReplayAt
  <1>5. /\ j.op = "sampling" => pc'[t] = "wait" /\ job' = job
        /\ j.op # "sampling" => pc'[t] = "stage" /\ job'[t] = Attempt(StageAfter(j.op), NoKeys, Home)
    <2>1. CASE j.op = "sampling"
      BY <1>0, <2>1, Zenon DEF Replayed, Goto, FlowOK
    <2>2. CASE j.op # "sampling"
      BY <1>0, <2>2, Zenon DEF Replayed, Stage, Goto, FlowOK
    <2>. QED BY <2>1, <2>2, Zenon
  <1>6. /\ job'[t].attempt = TRUE
        /\ j.op = "set" => job'[t].op = "sampling"
        /\ j.op = "sampling" => job'[t].op = "sampling"
        /\ j.op = "log" => job'[t].op = "debug"
        /\ j.op = "debug" => job'[t].op = "done"
        /\ job'[t].on = TRUE /\ job'[t].vals = NoKeys
    <2>1. CASE j.op = "sampling"
      BY <1>1, <1>4, <1>5, <2>1, Zenon
    <2>2. CASE j.op # "sampling"
      <3>1. job'[t] = Attempt(StageAfter(j.op), NoKeys, Home)
        BY <1>5, <2>2, Zenon
      <3>2. job'[t].attempt = TRUE /\ job'[t].op = StageAfter(j.op) /\ job'[t].on = TRUE
            /\ job'[t].vals = NoKeys
        BY <3>1 DEF Attempt
      <3>3. /\ j.op = "set" => job'[t].op = "sampling"
            /\ j.op = "log" => job'[t].op = "debug"
            /\ j.op = "debug" => job'[t].op = "done"
        BY <3>2, Zenon DEF StageAfter
      <3>. QED BY <2>2, <3>2, <3>3, Zenon
    <2>. QED BY <2>1, <2>2, Zenon
  <1>7. StageInv'
    <2>1. cmd' = t
      BY <1>1, <1>2, Zenon
    <2>2. CASE j.op = "sampling"
      BY <1>5, <1>6, <2>1, <2>2, Zenon DEF StageInv
    <2>3. CASE j.op # "sampling"
      BY <1>4, <1>5, <1>6, <2>1, <2>3, Zenon DEF StageInv
    <2>. QED BY <2>2, <2>3, Zenon
  <1>8. ASSUME NEW later, Settled(later)'
        PROVE  job'[t].op \in later
    BY <1>1, <1>2, <1>6, <1>8, Zenon DEF Settled
  <1>9. KeysInv'
    <2>1. ASSUME NEW k \in Keys, k \in sure'
          PROVE  host_setup'[k] # None /\ host_setup'[k] = keys'[k]
      <3>1. CASE j.op = "set"
        <4>1. host_setup[k] # None
          BY <1>2, <1>4, <2>1, <3>1, KeysNotStreams, Zenon DEF Certain, Carried, RestoreInv, KeysInv
        <4>2. k \in Carried(j.vals) /\ j.vals[k] = host_setup[k]
          BY <1>4, <3>1, <4>1, Zenon DEF Carried
        <4>. QED BY <1>1, <1>2, <4>1, <4>2, Zenon DEF AppliedInv
      <3>2. CASE j.op # "set"
        <4>1. Carried(j.vals) = {}
          BY <1>4, <3>2, Zenon DEF Carried, NoKeys
        <4>2. k \in sure
          BY <1>2, <2>1, <4>1, KeysNotStreams, Zenon DEF Certain
        <4>3. Settled(KeysLater)
          BY <1>1, <1>4, <3>2, Zenon DEF Settled, KeysLater, ReplayAt
        <4>. QED BY <1>1, <1>2, <4>1, <4>2, <4>3, Zenon DEF RestoreInv, KeysInv, KeysLater
      <3>. QED BY <3>1, <3>2, Zenon
    <2>. QED BY <2>1, Zenon DEF KeysInv
  <1>10. ASSUME NEW o \in {"log", "debug"}, NEW later, StreamInv(o, later),
                j.op # o /\ job'[t].op \in later => j.op \in later
         PROVE  StreamInv(o, later)'
    <2>0. o \in Streams /\ o # "sampling" /\ o \notin Keys
      BY KeysNotStreams, Zenon DEF Streams
    <2>1. CASE j.op = o
      <3>1. running'[o] = TRUE
        BY <1>1, <1>2, <1>4, <2>0, <2>1, Zenon DEF AppliedInv
      <3>2. requested'[o] = TRUE
        BY <1>0, <1>2, <1>4, <2>0, <2>1, Zenon DEF Noted, StreamsOK
      <3>3. running'[o] = requested'[o] /\ requested'[o] # FALSE
        BY <3>1, <3>2, Zenon
      <3>. QED BY <3>3, Zenon DEF StreamInv
    <2>2. CASE j.op # o
      <3>1. requested'[o] = requested[o]
        BY <1>0, <1>2, <2>0, <2>2, Zenon DEF Noted, StreamsOK
      <3>2. o \in sure' => o \in sure
        BY <1>2, <2>0, <2>2, Zenon DEF Certain, Carried
      <3>3. Settled(later)' => Settled(later)
        <4>1. ASSUME Settled(later)'
              PROVE  cmd # None /\ pc[cmd] \in ReplayAt /\ job[cmd].op \in later
          BY <1>1, <1>8, <1>10, <2>2, <4>1, Zenon DEF ReplayAt
        <4>. QED BY <4>1, Zenon DEF Settled
      <3>. QED BY <1>1, <1>2, <1>10, <2>2, <3>1, <3>2, <3>3, Zenon DEF StreamInv
    <2>. QED BY <2>1, <2>2, Zenon
  <1>11. /\ j.op # "log" /\ job'[t].op \in {"debug", "done"} => j.op \in {"debug", "done"}
         /\ j.op # "debug" /\ job'[t].op \in {"done"} => j.op \in {"done"}
    BY <1>4, <1>6, Zenon
  <1>. QED BY <1>3, <1>7, <1>9, <1>10, <1>11, Zenon DEF RestoreInv

(* The Session is replaced; the replay begins. *)
LEMMA SwapStep ==
  ASSUME Types, LockInv, AppliedInv, RestoreInv, NEW t \in Threads, AttemptSwaps(t)
  PROVE  RestoreInv' /\ AppliedInv' /\ StageInv'
  <1>0. FlowOK /\ DataOK /\ StreamsOK /\ LockOK(t)
    BY DEF Types, LockInv
  <1>1. cmd = t /\ t # None /\ ~applied /\ ~applied' /\ ~connected
    BY <1>0, ThreadNone, Zenon DEF AttemptSwaps, LockOK, HoldAt, AppliedInv
  <1>2. UNCHANGED <<cmd, connected, host_setup, requested, keys, running>>
        /\ sure' = sure \cup Carried(host_setup) \cup {o \in Streams : requested[o]}
    BY Zenon DEF AttemptSwaps, ReplayBegins
  <1>3. pc'[t] = "request" /\ job'[t] = Attempt("set", host_setup, job[t].ip)
    BY <1>0, Zenon DEF AttemptSwaps, ReplayBegins, Goto, FlowOK
  <1>4. job'[t].attempt = TRUE /\ job'[t].op = "set" /\ job'[t].vals = host_setup
    BY <1>3 DEF Attempt
  <1>5. StageInv'
    BY <1>1, <1>2, <1>3, <1>4, Zenon DEF StageInv
  <1>6. ASSUME NEW later, "set" \notin later
        PROVE  ~Settled(later)'
    BY <1>1, <1>2, <1>4, <1>6, Zenon DEF Settled
  <1>7. KeysInv'
    <2>1. ASSUME NEW k \in Keys, k \in sure'
          PROVE  host_setup'[k] # None
      <3>1. k \in sure \/ k \in Carried(host_setup)
        BY <1>2, <2>1, KeysNotStreams, Zenon
      <3>. QED BY <1>2, <3>1, Zenon DEF RestoreInv, KeysInv, Carried
    <2>2. ~Settled(KeysLater)'
      BY <1>6, Zenon DEF KeysLater
    <2>. QED BY <2>1, <2>2, Zenon DEF KeysInv, KeysLater
  <1>8. ASSUME NEW o \in {"log", "debug"}, NEW later, "set" \notin later, StreamInv(o, later)
        PROVE  StreamInv(o, later)'
    <2>0. o \in Streams /\ o \notin Keys
      BY KeysNotStreams, Zenon DEF Streams
    <2>1. o \in sure' /\ requested[o] = FALSE => o \in sure
      BY <1>2, <2>0, Zenon DEF Carried
    <2>. QED BY <1>1, <1>2, <1>6, <1>8, <2>1, Zenon DEF StreamInv
  <1>9. AppliedInv'
    BY <1>1, Zenon DEF AppliedInv
  <1>. QED BY <1>5, <1>7, <1>8, <1>9, Zenon DEF RestoreInv

(* A stream that is not requested is passed over. *)
LEMMA PassOverStep ==
  ASSUME Types, LockInv, AppliedInv, StageInv, RestoreInv, NEW t \in Threads, NextStage(t),
         ~requested[job[t].op]
  PROVE  RestoreInv' /\ AppliedInv' /\ StageInv'
  <1>. USE DEF deviceVars, lidarVars
  <1>. DEFINE j == job[t]
  <1>0. FlowOK /\ DataOK /\ StreamsOK /\ LockOK(t) /\ j \in Job
    BY Zenon DEF Types, LockInv, FlowOK
  <1>1. cmd = t /\ t # None /\ pc[t] = "stage" /\ ~applied /\ ~applied' /\ ~connected
        /\ j.op \in {"sampling", "log", "debug"}
    BY <1>0, ThreadNone, Zenon DEF NextStage, LockOK, HoldAt, AppliedInv, Streams
  <1>2. UNCHANGED <<cmd, connected, host_setup, requested, keys, running, sure>>
    BY Zenon DEF NextStage
  <1>3. pc'[t] = "stage" /\ job'[t] = Attempt(StageAfter(j.op), NoKeys, Home)
    BY <1>0, Zenon DEF NextStage, Stage, Goto, FlowOK
  <1>4. job'[t].attempt = TRUE /\ job'[t].op = StageAfter(j.op) /\ job'[t].on = TRUE
        /\ job'[t].vals = NoKeys
    BY <1>3 DEF Attempt
  <1>5. /\ j.op = "sampling" => job'[t].op = "log"
        /\ j.op = "log" => job'[t].op = "debug"
        /\ j.op = "debug" => job'[t].op = "done"
    BY <1>4, Zenon DEF StageAfter
  <1>6. StageInv'
    BY <1>1, <1>2, <1>3, <1>4, <1>5, Zenon DEF StageInv
  <1>7. ASSUME NEW later, Settled(later)'
        PROVE  job'[t].op \in later
    BY <1>1, <1>2, <1>4, <1>7, Zenon DEF Settled
  <1>8. KeysInv'
    <2>1. Settled(KeysLater)
      BY <1>1, Zenon DEF Settled, ReplayAt, KeysLater
    <2>. QED BY <1>1, <1>2, <2>1, Zenon DEF RestoreInv, KeysInv, KeysLater
  <1>9. ASSUME NEW o \in {"log", "debug"}, NEW later, StreamInv(o, later),
               j.op # o /\ job'[t].op \in later => j.op \in later
        PROVE  StreamInv(o, later)'
    <2>1. CASE j.op = o
      <3>1. requested[o] = FALSE
        BY <1>0, <1>1, <2>1, Zenon DEF StreamsOK, Streams
      <3>2. o \in sure => running[o] = FALSE
        BY <1>1, <1>9, <3>1, Zenon DEF StreamInv
      <3>3. running'[o] = running[o] /\ requested'[o] = requested[o] /\ sure' = sure
        BY <1>2, Zenon
      <3>. QED BY <3>1, <3>2, <3>3, Zenon DEF StreamInv
    <2>2. CASE j.op # o
      <3>1. Settled(later)' => Settled(later)
        <4>1. ASSUME Settled(later)'
              PROVE  cmd # None /\ pc[cmd] \in ReplayAt /\ job[cmd].op \in later
          BY <1>1, <1>7, <1>9, <2>2, <4>1, Zenon DEF ReplayAt
        <4>. QED BY <4>1, Zenon DEF Settled
      <3>. QED BY <1>1, <1>2, <1>9, <3>1, Zenon DEF StreamInv
    <2>. QED BY <2>1, <2>2, Zenon
  <1>10. /\ j.op # "log" /\ job'[t].op \in {"debug", "done"} => j.op \in {"debug", "done"}
         /\ j.op # "debug" /\ job'[t].op \in {"done"} => j.op \in {"done"}
    BY <1>1, <1>5, Zenon
  <1>11. AppliedInv'
    BY <1>1, Zenon DEF AppliedInv
  <1>. QED BY <1>6, <1>8, <1>9, <1>10, <1>11, Zenon DEF RestoreInv

LEMMA RestoreStep ==
  ASSUME Types, LockInv, AppliedInv, StageInv, RestoreInv, [Next]_vars
  PROVE  RestoreInv' /\ AppliedInv' /\ StageInv'
  <1>. USE DEF deviceVars, cancelVars, lidarVars
  <1>0. FlowOK /\ DataOK /\ StreamsOK
    BY Zenon DEF Types
  <1>1. CASE UNCHANGED vars
    BY <1>1, Elsewhere, Zenon DEF vars
  <1>2. ASSUME NEW u \in Users, Command(u)
        PROVE  RestoreInv' /\ AppliedInv' /\ StageInv'
    <2>0. u \in Threads /\ LockOK(u)
      BY Zenon DEF Threads, LockInv
    <2>1. PICK j \in Job : Call(u, j)
      BY <1>2, CommandCalls, Zenon
    <2>2. cmd # u /\ UNCHANGED <<host_setup, keys, running, applied, sure, cmd, requested, connected>>
      BY <2>0, <2>1, Zenon DEF Call, LockOK, HoldAt
    <2>3. cmd # None => pc'[cmd] = pc[cmd] /\ job'[cmd] = job[cmd]
      BY <1>0, <2>1, <2>2, Zenon DEF Call, Goto, FlowOK
    <2>. QED BY <2>2, <2>3, Elsewhere, Zenon
  <1>3. ASSUME NEW t \in Threads, AttemptBegins(t)
        PROVE  RestoreInv' /\ AppliedInv' /\ StageInv'
    <2>2. cmd # t /\ UNCHANGED <<host_setup, keys, running, applied, sure, cmd, requested, connected>>
      BY <1>3, Zenon DEF AttemptBegins, LockInv, LockOK, HoldAt
    <2>3. cmd # None => pc'[cmd] = pc[cmd] /\ job'[cmd] = job[cmd]
      BY <1>0, <1>3, <2>2, Zenon DEF AttemptBegins, Goto, FlowOK
    <2>. QED BY <2>2, <2>3, Elsewhere, Zenon
  <1>4. ASSUME NEW t \in Threads, LidarApplies(t)
        PROVE  RestoreInv' /\ AppliedInv' /\ StageInv'
    BY <1>4, AppliesStep, Zenon
  <1>5. ASSUME NEW t \in Threads, Step(t)
        PROVE  RestoreInv' /\ AppliedInv' /\ StageInv'
    <2>0. LockOK(t) /\ t # None
      BY ThreadNone, Zenon DEF LockInv
    <2>h. pc[t] \in HoldAt => cmd = t
      BY <2>0, Zenon DEF LockOK
    <2>a. cmd = None \/ (cmd = t /\ pc[t] # "request") => ~applied
      BY Zenon DEF AppliedInv
    <2>1. CASE Lock(t)
      <3>0. ~applied /\ UNCHANGED <<host_setup, keys, running, requested, applied, sure, connected>>
        BY <2>1, <2>a, Zenon DEF Lock
      <3>1. CASE connected
        <4>1. cmd' = t /\ job' = job /\ job[t].attempt = FALSE
          BY <2>1, <2>0, <3>1, Zenon DEF Lock, LockOK
        <4>2. \A later : Settled(later)
          BY <3>1, Zenon DEF Settled
        <4>3. StageInv'
          BY <4>1, Zenon DEF StageInv
        <4>4. CommandStays(t)
          BY <3>1, Zenon DEF CommandStays
        <4>. QED BY <1>0, <3>0, <4>1, <4>2, <4>3, <4>4, Holds, Zenon
      <3>2. CASE ~connected
        <4>1. cmd' = None
          BY <2>1, <3>2, Zenon DEF Lock, Return
        <4>. QED BY <3>0, <4>1, Releases, Zenon
      <3>. QED BY <3>1, <3>2, Zenon
    <2>2. CASE Key9Done(t)
      <3>1. cmd = t /\ cmd' = t /\ ~applied /\ pc[t] = "key9" /\ pc'[t] = "request" /\ job' = job
        BY <1>0, <2>2, <2>h, <2>a, Zenon DEF Key9Done, Goto, FlowOK, HoldAt
      <3>2. UNCHANGED <<host_setup, keys, running, requested, applied, sure, connected>>
        BY <2>2, Zenon DEF Key9Done
      <3>3. ASSUME NEW later
            PROVE  Settled(later) \/ ~(pc'[t] \in ReplayAt /\ job'[t].op \in later)
        BY <2>0, <3>1, Zenon DEF Settled, ReplayAt
      <3>4. StageInv'
        BY <2>0, <3>1, <3>2, Zenon DEF StageInv, ReplayAt
      <3>5. CommandStays(t)
        BY <3>1, Zenon DEF CommandStays
      <3>. QED BY <1>0, <3>1, <3>2, <3>3, <3>4, <3>5, Holds, Zenon
    <2>3. CASE Accepted(t)
      BY <2>3, AcceptedStep, Zenon
    <2>4. CASE StateReached(t)
      <3>1. cmd = t /\ ~applied /\ cmd' = None
            /\ UNCHANGED <<host_setup, keys, running, requested, applied, sure, connected>>
        BY <2>4, <2>h, <2>a, Zenon DEF StateReached, HoldAt, Return
      <3>. QED BY <3>1, Releases, Zenon
    <2>5. CASE StopSampling(t)
      <3>1. cmd # t /\ UNCHANGED <<host_setup, keys, running, applied, sure, cmd, connected>>
        BY <2>0, <2>5, Zenon DEF StopSampling, LockOK, HoldAt
      <3>2. cmd # None => pc'[cmd] = pc[cmd] /\ job'[cmd] = job[cmd]
        BY <1>0, <2>5, <3>1, Zenon DEF StopSampling, Goto, FlowOK
      <3>3. requested'["log"] = requested["log"] /\ requested'["debug"] = requested["debug"]
        BY <1>0, <2>5, Zenon DEF StopSampling, StreamsOK, Streams
      <3>. QED BY <3>1, <3>2, <3>3, Elsewhere, Zenon
    <2>6. CASE RecordIp(t)
      <3>1. ~applied /\ cmd' = None
            /\ UNCHANGED <<host_setup, keys, running, requested, applied, sure, connected>>
        BY <2>6, <2>a, Zenon DEF RecordIp, Return
      <3>. QED BY <3>1, Releases, Zenon
    <2>7. CASE Fails(t) \/ NoteCommandError(t)
      <3>1. cmd = t /\ cmd' = None /\ ~applied' /\ sure' = Doubted(job[cmd])
            /\ (connected' => connected) /\ UNCHANGED <<host_setup, keys, running, requested>>
        BY <2>7, <2>h DEF Fails, NoteCommandError, Waits, Return, HoldAt
      <3>. QED BY <3>1, Doubts, Releases, Zenon
    <2>9. CASE Cancelled(t)
      <3>1. cmd = t /\ cmd' = t /\ ~applied' /\ sure' = Doubted(job[cmd]) /\ job' = job
            /\ UNCHANGED <<host_setup, keys, running, requested, connected>>
        BY <2>9, <2>h, Zenon DEF Cancelled, Waits, HoldAt
      <3>2. pc'[t] = "settle" /\ "settle" \notin ReplayAt
        BY <1>0, <2>9, Zenon DEF Cancelled, Goto, FlowOK, ReplayAt
      <3>3. StageInv'
        BY <3>1, <3>2, Zenon DEF StageInv
      <3>4. CommandStays(t)
        BY <3>1, Zenon DEF CommandStays
      <3>. QED BY <1>0, <3>1, <3>2, <3>3, <3>4, Doubts, Holds, Zenon
    <2>10. CASE SettleCancel(t)
      <3>1. cmd = t /\ ~applied /\ cmd' = None
            /\ UNCHANGED <<host_setup, keys, running, requested, applied, sure, connected>>
        BY <2>10, <2>h, <2>a, Zenon DEF SettleCancel, HoldAt, Return
      <3>. QED BY <3>1, Releases
    <2>11. CASE AttemptLocks(t)
      <3>0. ~applied /\ UNCHANGED <<host_setup, keys, running, requested, applied, sure, connected>>
        BY <2>11, <2>a, Zenon DEF AttemptLocks
      <3>1. CASE connected
        <4>1. cmd' = None
          BY <2>11, <3>1, Zenon DEF AttemptLocks, Return
        <4>. QED BY <3>0, <4>1, Releases
      <3>2. CASE ~connected
        <4>1. cmd' = t /\ job' = job /\ job[t].attempt = TRUE /\ pc'[t] = "a_connect"
          BY <1>0, <2>11, <2>0, <3>2, Zenon DEF AttemptLocks, LockOK, Goto, FlowOK
        <4>2. pc'[t] \notin ReplayAt
          BY <4>1, Zenon DEF ReplayAt
        <4>4. CommandStays(t)
          BY <4>1, Zenon DEF CommandStays
        <4>3. StageInv'
          BY <4>1, <4>2, Zenon DEF StageInv
        <4>. QED BY <1>0, <3>0, <4>1, <4>2, <4>3, <4>4, Holds, Zenon
      <3>. QED BY <3>1, <3>2
    <2>12. CASE AttemptConnects(t)
      <3>1. cmd = t /\ cmd' = t /\ ~applied /\ pc'[t] = "a_swap"
            /\ job'[t] = Attempt("done", NoKeys, at)
            /\ UNCHANGED <<host_setup, keys, running, requested, applied, sure, connected>>
        BY <1>0, <2>12, <2>h, <2>a, Zenon DEF AttemptConnects, Goto, FlowOK, HoldAt
      <3>2. pc'[t] \notin ReplayAt /\ CommandStays(t)
        BY <3>1 DEF ReplayAt, Attempt, CommandStays
      <3>3. StageInv'
        BY <3>1, <3>2, Zenon DEF StageInv
      <3>. QED BY <1>0, <3>1, <3>2, <3>3, Holds, Zenon
    <2>13. CASE AttemptFails(t)
      <3>1. cmd = t /\ ~applied /\ cmd' = None
            /\ UNCHANGED <<host_setup, keys, running, requested, applied, sure, connected>>
        BY <2>13, <2>h, <2>a, Zenon DEF AttemptFails, HoldAt, Return
      <3>. QED BY <3>1, Releases
    <2>14. CASE AttemptSwaps(t)
      BY <2>14, SwapStep
    <2>15. CASE Replayed(t)
      BY <2>15, ReplayedStep, Zenon
    <2>16. CASE ReplayedState(t)
      <3>1. cmd = t /\ cmd' = t /\ ~applied /\ pc[t] = "wait" /\ pc'[t] = "stage"
            /\ job'[t] = Attempt("log", NoKeys, Home)
            /\ UNCHANGED <<host_setup, keys, running, requested, applied, sure, connected>>
        BY <1>0, <2>16, <2>h, <2>a, Zenon DEF ReplayedState, Stage, Goto, FlowOK, HoldAt
      <3>2. job'[t].attempt = TRUE /\ job'[t].op = "log" /\ job'[t].on = TRUE
            /\ job'[t].vals = NoKeys /\ CommandStays(t)
        BY <3>1 DEF Attempt, CommandStays
      <3>3. job[t].op = "sampling"
        BY <2>0, <2>16, <3>1, Zenon DEF ReplayedState, StageInv, ReplayAt
      <3>4. StageInv'
        BY <3>1, <3>2, Zenon DEF StageInv
      <3>5. Settled(KeysLater) /\ job'[t].op \notin LogLater /\ job'[t].op \notin DebugLater
        BY <2>0, <3>1, <3>2, <3>3, Zenon DEF Settled, ReplayAt, KeysLater, LogLater, DebugLater
      <3>. QED BY <1>0, <3>1, <3>2, <3>4, <3>5, Holds, Zenon
    <2>17. CASE NextStage(t)
      <3>1. CASE requested[job[t].op]
        <4>1. cmd = t /\ cmd' = t /\ ~applied /\ pc[t] = "stage" /\ job' = job
              /\ pc'[t] = FirstStep(job[t])
              /\ UNCHANGED <<host_setup, keys, running, requested, applied, sure, connected>>
          BY <1>0, <2>17, <2>h, <2>a, <3>1, Zenon DEF NextStage, Goto, FlowOK, HoldAt
        <4>2. pc'[t] \in {"key9", "request"}
          BY <4>1, Zenon DEF FirstStep
        <4>3. ASSUME NEW later
              PROVE  Settled(later) \/ ~(pc'[t] \in ReplayAt /\ job'[t].op \in later)
          BY <2>0, <4>1, Zenon DEF Settled, ReplayAt
        <4>4. job[t].attempt = TRUE /\ job[t].op \in Streams /\ requested[job[t].op] = TRUE
          BY <1>0, <2>0, <2>17, <3>1, Zenon DEF NextStage, LockOK, StreamsOK
        <4>5. StageInv'
          BY <2>0, <4>1, <4>2, <4>4, Zenon DEF StageInv, ReplayAt, Streams
        <4>6. CommandStays(t)
          BY <4>1, <4>4, Zenon DEF CommandStays
        <4>. QED BY <1>0, <4>1, <4>3, <4>5, <4>6, Holds, Zenon
      <3>2. CASE ~requested[job[t].op]
        BY <2>17, <3>2, PassOverStep, Zenon
      <3>. QED BY <3>1, <3>2, Zenon
    <2>18. CASE AttemptSucceeds(t)
      <3>1. cmd = t /\ ~applied /\ cmd' = None /\ pc[t] = "stage" /\ job[t].op = "done"
            /\ UNCHANGED <<host_setup, keys, running, requested, applied, sure>>
        BY <2>18, <2>h, <2>a, Zenon DEF AttemptSucceeds, HoldAt, Return
      <3>2. Settled(KeysLater) /\ Settled(LogLater) /\ Settled(DebugLater)
        BY <2>0, <3>1, Zenon DEF Settled, ReplayAt, KeysLater, LogLater, DebugLater
      <3>3. StageInv'
        BY <3>1, Zenon DEF StageInv
      <3>. QED BY <3>1, <3>2, <3>3, Keeps, Zenon
    <2>. QED BY <1>5, <2>1, <2>2, <2>3, <2>4, <2>5, <2>6, <2>7, <2>9, <2>10, <2>11, <2>12, <2>13,
                <2>14, <2>15, <2>16, <2>17, <2>18, Zenon, Zenon DEF Step
  <1>6. CASE Cancel \/ Outage
    <2>1. CASE Cancel
      BY <2>1, Elsewhere, Zenon DEF Cancel, deviceVars, lidarVars
    <2>2. CASE Outage
      BY <2>2, Elsewhere, Zenon DEF Outage, lidarVars
    <2>. QED BY <1>6, <2>1, <2>2, Zenon
  <1>7. CASE LidarResets
    <2>1. sure' = {} /\ ~applied' /\ UNCHANGED <<pc, job, cmd, connected, host_setup, requested>>
      BY <1>7, Zenon DEF LidarResets
    <2>2. StageInv'
      BY <2>1, Zenon DEF StageInv
    <2>3. RestoreInv'
      BY <2>1, Zenon DEF RestoreInv, KeysInv, StreamInv
    <2>4. AppliedInv'
      BY <2>1, Zenon DEF AppliedInv
    <2>. QED BY <2>2, <2>3, <2>4, Zenon
  <1>. QED BY <1>1, <1>2, <1>3, <1>4, <1>5, <1>6, <1>7, Zenon DEF Next

LEMMA RestoreInit == Init => RestoreInv /\ AppliedInv /\ StageInv
  <1>. SUFFICES ASSUME Init
                PROVE  RestoreInv /\ AppliedInv /\ StageInv
    OBVIOUS
  <1>1. ~applied /\ cmd = None
    BY Zenon DEF Init
  <1>2. \A k \in Keys : k \in sure => host_setup[k] # None /\ host_setup[k] = keys[k]
    BY KeysNotStreams, CommandsAssumption, Zenon DEF Init
  <1>3. \A o \in Streams : running[o] = FALSE /\ requested[o] = FALSE
    BY Zenon DEF Init
  <1>4. \A o \in {"log", "debug"} : running[o] = requested[o] /\ running[o] = FALSE
    <2>1. \A o \in {"log", "debug"} : o \in Streams
      BY Zenon DEF Streams
    <2>. QED BY <1>3, <2>1, Zenon
  <1>. QED BY <1>1, <1>2, <1>4, Zenon DEF RestoreInv, KeysInv, StreamInv, AppliedInv, StageInv

LEMMA RestoreImplies == AppliedInv /\ RestoreInv => Restored
  <1>. SUFFICES ASSUME AppliedInv, RestoreInv, connected, cmd = None
                PROVE  /\ \A k \in Keys \cap sure : host_setup[k] = keys[k]
                       /\ \A o \in {"log", "debug"} \cap sure : running[o] = requested[o]
    BY Zenon DEF Restored
  <1>1. ~applied /\ \A later : Settled(later)
    BY Zenon DEF AppliedInv, Settled
  <1>. QED BY <1>1, Zenon DEF RestoreInv, KeysInv, StreamInv

(* A reconnect restores what the Device last wrote: while connected and between   *)
(* the commands, the LiDAR has every recorded key and runs the firmware log and    *)
(* the debug data as recorded (device.cpp:1006-1031), unless a request about them  *)
(* stayed unanswered or the LiDAR was power-cycled after the replay began; for any *)
(* number of threads, whatever commands race the outage and the attempts.          *)
THEOREM CommandsRestored == Spec => []Restored
  <1>1. ASSUME Types, LockInv, AppliedInv, StageInv, RestoreInv, [Next]_vars
        PROVE  RestoreInv' /\ AppliedInv' /\ StageInv'
    BY <1>1, RestoreStep, Zenon
  <1>2. Spec => [](RestoreInv /\ AppliedInv /\ StageInv)
    BY <1>1, RestoreInit, CommandsTypes, PTL DEF Spec
  <1>. QED BY <1>2, RestoreImplies, PTL
=============================================================================
