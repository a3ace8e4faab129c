----------------------------- MODULE Connection -----------------------------
(***************************************************************************)
(* The connection state machine of a Device (src/src/device.cpp): open(),  *)
(* declare_disconnected(), attempt(), run_worker(), connection_tick() and  *)
(* ~Device(), run by the receive thread, the lazily started worker thread, *)
(* the thread that owns the Device and any number of other user threads.   *)
(*                                                                         *)
(* One action is one access to an atomic, or one critical section of       *)
(* conn_mutex.  The worker keeps conn_mutex across several steps (conn).   *)
(* cmd_mutex is held by `cmd`.  What an attempt does on the network        *)
(* (connect, discovery, rekey, the replays) succeeds or fails; what it     *)
(* replays, and the delay after reboot(), are not modelled here.  remove() *)
(* is used as Context proves it: it returns when the receive thread has    *)
(* left the Device.                                                        *)
(***************************************************************************)
EXTENDS Naturals, Sequences, FiniteSets

CONSTANTS
  Users,             \* threads that call commands, disconnect() and reconnect()
  ReconnectEnabled,  \* ReconnectOptions::enabled
  SlowSetup,         \* the host setup of open() may last longer than push_timeout
  MaxDisconnects,    \* bound: no new outage begins once this many were declared
  MaxAttempts,       \* bound: `attempts` saturates here
  None

ASSUME ConnectionAssumption ==
  /\ ReconnectEnabled \in BOOLEAN /\ SlowSetup \in BOOLEAN
  /\ MaxDisconnects \in Nat /\ MaxAttempts \in Nat \ {0}
  /\ {"owner", "rx", "worker", None} \cap Users = {}
  /\ None \notin {"owner", "rx", "worker"}
  /\ IsFiniteSet(Users)

Threads == {"owner", "rx", "worker"} \cup Users

VARIABLES
  pc,              \* where each thread is
  n,               \* per thread: the outage it declared, or the attempt it makes
  ok,              \* the worker's last attempt succeeded
  connected, disconnects, reconnects, attempts,
  discard_requested,
  pending,         \* connection events queued for the receive thread
  worker_started,
  handle,          \* which std::thread object owns the worker: "none", "impl", "dtor"
  stop,            \* stop_source
  conn, cmd,       \* holders of conn_mutex and cmd_mutex
  waiting,         \* the worker is blocked in the untimed conn_cv.wait
  registered,      \* the Context dispatches to this Device
  push,            \* age of last_push: 0 fresh, 1 over a third of push_timeout, 2 timed out
  events,          \* connection_tick(): the events being delivered
  shown,           \* what the event callback saw: the last kind, and the outages declared
  partial,         \* the outages declared when each point of the partial frame arrived
  frame,           \* the frame just delivered: its points, and the outages shown before it
  tries            \* attempts made since the outage was declared (history, saturates)

flowVars == <<pc, n, ok>>
stateVars == <<connected, disconnects, reconnects, attempts, tries, discard_requested>>
lockVars == <<conn, cmd, waiting>>
lifeVars == <<worker_started, handle, stop, registered>>
rxVars == <<events, shown, partial, frame>>
vars == <<flowVars, stateVars, pending, lockVars, lifeVars, push, rxVars>>

NoFrame == [points |-> {}, shown |-> {}]

Goto(t, l) == pc' = [pc EXCEPT ![t] = l]

(* Outages declared so far: the compare-exchange comes before the counter. *)
Declared == disconnects + Cardinality({t \in Threads : pc[t] = "count"})

Init ==
  /\ pc = [t \in Threads |-> IF t = "owner" THEN "start" ELSE IF t = "worker" THEN "unborn" ELSE "idle"]
  /\ n = [t \in Threads |-> 0] /\ ok = FALSE
  /\ connected = TRUE /\ disconnects = 0 /\ reconnects = 0 /\ attempts = 0
  /\ tries = 0 /\ discard_requested = FALSE /\ pending = <<>>
  /\ worker_started = FALSE /\ handle = "none" /\ stop = FALSE
  /\ conn = None /\ cmd = None /\ waiting = FALSE
  /\ registered = FALSE /\ push = 0
  /\ events = <<>> /\ shown = [kind |-> "reconnected", outages |-> {}]
  /\ partial = {} /\ frame = NoFrame

-----------------------------------------------------------------------------
(* declare_disconnected(), by the receive thread or a user thread.         *)

(* Where a thread goes on after declare_disconnected(): the receive thread to  *)
(* the swap of `pending`, a user thread out of its call, releasing cmd_mutex.  *)
AfterDeclare(t) ==
  /\ Goto(t, IF t = "rx" THEN "swap" ELSE "idle")
  /\ n' = [n EXCEPT ![t] = 0]
  /\ cmd' = IF cmd = t THEN None ELSE cmd

(* Mutant: a store in place of the compare-exchange. *)
ExchangeStores(t) ==
  /\ pc[t] = "exchange"
  /\ connected' = FALSE
  /\ n' = [n EXCEPT ![t] = Declared + 1]
  /\ tries' = 0
  /\ Goto(t, "count")
  /\ UNCHANGED <<cmd, ok, disconnects, reconnects, attempts, discard_requested, pending, conn,
                 waiting, lifeVars, push, rxVars>>

(* connected.compare_exchange_strong(): only one thread declares the outage. *)
Exchange(t) ==
  /\ pc[t] = "exchange"
  /\ IF connected
     THEN /\ connected' = FALSE
          /\ n' = [n EXCEPT ![t] = Declared + 1]
          /\ tries' = 0
          /\ Goto(t, "count")
          /\ UNCHANGED cmd
     ELSE AfterDeclare(t) /\ UNCHANGED <<connected, tries>>
  /\ UNCHANGED <<ok, disconnects, reconnects, attempts, discard_requested, pending, conn, waiting,
                 lifeVars, push, rxVars>>

(* The counters of the outage. *)
Count(t) ==
  /\ pc[t] = "count"
  /\ disconnects' = disconnects + 1
  /\ attempts' = 0
  /\ Goto(t, "discard")
  /\ UNCHANGED <<n, ok, connected, reconnects, tries, discard_requested, pending, lockVars,
                 lifeVars, push, rxVars>>

(* Mutant: the partial frame is kept. *)
DiscardNothing(t) ==
  /\ pc[t] = "discard"
  /\ Goto(t, "queue")
  /\ UNCHANGED <<n, ok, stateVars, pending, lockVars, lifeVars, push, rxVars>>

(* The receive thread is asked to discard the partial frame. *)
Discard(t) ==
  /\ pc[t] = "discard"
  /\ discard_requested' = TRUE
  /\ Goto(t, "queue")
  /\ UNCHANGED <<n, ok, connected, disconnects, reconnects, attempts, tries, pending, lockVars,
                 lifeVars, push, rxVars>>

(* Mutant: the event carries no number. *)
DisconnectedEventBare(k) == [kind |-> "disconnected", n |-> None]

(* EventInfo of the k-th kDisconnected. *)
DisconnectedEvent(k) == [kind |-> "disconnected", n |-> k]

(* Mutant: the notification is forgotten. *)
WakeNobody == UNCHANGED waiting

(* conn_cv.notify_all() *)
WakeWorker == waiting' = FALSE

(* Under conn_mutex: queue kDisconnected; the first outage starts the worker. *)
QueueDisconnected(t) ==
  /\ pc[t] = "queue" /\ conn = None
  /\ pending' = Append(pending, DisconnectedEvent(n[t]))
  /\ IF ReconnectEnabled /\ ~worker_started
     THEN /\ worker_started' = TRUE
          /\ handle' = "impl"
          /\ pc' = [pc EXCEPT ![t] = "notify", !["worker"] = "lock"]
     ELSE Goto(t, "notify") /\ UNCHANGED <<worker_started, handle>>
  /\ UNCHANGED <<n, ok, stateVars, lockVars, stop, registered, push, rxVars>>

NotifyDisconnected(t) ==
  /\ pc[t] = "notify"
  /\ WakeWorker
  /\ AfterDeclare(t)
  /\ UNCHANGED <<ok, stateVars, pending, conn, lifeVars, push, rxVars>>

Declare(t) ==
  Exchange(t) \/ Count(t) \/ Discard(t) \/ QueueDisconnected(t) \/ NotifyDisconnected(t)

-----------------------------------------------------------------------------
(* attempt(), by the worker or by a user thread in reconnect().            *)

(* The attempt is over: cmd_mutex is released. *)
AttemptEnds(t, success) ==
  /\ cmd' = None
  /\ Goto(t, IF t = "worker" THEN "relock" ELSE "idle")
  /\ n' = [n EXCEPT ![t] = 0]
  /\ ok' = IF t = "worker" THEN success ELSE ok

(* lock_guard of cmd_mutex. *)
AttemptLock(t) ==
  /\ pc[t] = "a_lock" /\ cmd = None
  /\ cmd' = t
  /\ Goto(t, "a_check")
  /\ UNCHANGED <<n, ok, stateVars, pending, conn, waiting, lifeVars, push, rxVars>>

(* Nothing to do when connected; otherwise one more attempt. *)
AttemptCheck(t) ==
  /\ pc[t] = "a_check"
  /\ IF connected
     THEN AttemptEnds(t, TRUE) /\ UNCHANGED <<attempts, tries>>
     ELSE /\ attempts' = IF attempts < MaxAttempts THEN attempts + 1 ELSE attempts
          /\ tries' = IF tries < MaxAttempts THEN tries + 1 ELSE tries
          /\ n' = [n EXCEPT ![t] = attempts']
          /\ Goto(t, "a_connect")
          /\ UNCHANGED <<ok, cmd>>
  /\ UNCHANGED <<connected, disconnects, reconnects, discard_requested, pending, conn, waiting,
                 lifeVars, push, rxVars>>

(* Session::connect(), discovery and rekey(); or the replay of the host setup, *)
(* sampling, the firmware log and the debug data. *)
AttemptFails(t) ==
  /\ pc[t] \in {"a_connect", "a_replay"}
  /\ AttemptEnds(t, FALSE)
  /\ UNCHANGED <<stateVars, pending, conn, waiting, lifeVars, push, rxVars>>

(* A Session is connected, at the old address or where discovery found the LiDAR. *)
AttemptConnects(t) ==
  /\ pc[t] = "a_connect"
  /\ Goto(t, "a_swap")
  /\ UNCHANGED <<n, ok, stateVars, pending, lockVars, lifeVars, push, rxVars>>

(* The Session is replaced under conn_mutex. *)
AttemptSwaps(t) ==
  /\ pc[t] = "a_swap" /\ conn = None
  /\ Goto(t, "a_replay")
  /\ UNCHANGED <<n, ok, stateVars, pending, lockVars, lifeVars, push, rxVars>>

(* Everything was replayed. *)
AttemptReplayed(t) ==
  /\ pc[t] = "a_replay"
  /\ push' = 0
  /\ reconnects' = reconnects + 1
  /\ Goto(t, "a_queue")
  /\ UNCHANGED <<n, ok, connected, disconnects, attempts, tries, discard_requested, pending,
                 lockVars, lifeVars, rxVars>>

(* Under conn_mutex: queue kReconnected. *)
AttemptQueues(t) ==
  /\ pc[t] = "a_queue" /\ conn = None
  /\ pending' = Append(pending, [kind |-> "reconnected", n |-> reconnects])
  /\ Goto(t, "a_store")
  /\ UNCHANGED <<n, ok, stateVars, lockVars, lifeVars, push, rxVars>>

(* connected.store(true) *)
AttemptStores(t) ==
  /\ pc[t] = "a_store"
  /\ connected' = TRUE
  /\ Goto(t, "a_notify")
  /\ UNCHANGED <<n, ok, disconnects, reconnects, attempts, tries, discard_requested, pending,
                 lockVars, lifeVars, push, rxVars>>

AttemptNotifies(t) ==
  /\ pc[t] = "a_notify"
  /\ waiting' = FALSE
  /\ AttemptEnds(t, TRUE)
  /\ UNCHANGED <<stateVars, pending, conn, lifeVars, push, rxVars>>

Attempt(t) ==
  \/ AttemptLock(t) \/ AttemptCheck(t) \/ AttemptFails(t) \/ AttemptConnects(t)
  \/ AttemptSwaps(t) \/ AttemptReplayed(t) \/ AttemptQueues(t) \/ AttemptStores(t)
  \/ AttemptNotifies(t)

-----------------------------------------------------------------------------
(* run_worker().                                                           *)

(* A step of the worker that touches only the locks and its own pc. *)
WorkerStep(l, holder) ==
  /\ Goto("worker", l)
  /\ conn' = holder
  /\ UNCHANGED <<n, ok, stateVars, pending, cmd, lifeVars, push, rxVars>>

(* Acquire conn_mutex: at the start, after an attempt, after the backoff. *)
WorkerLock ==
  /\ pc["worker"] \in {"lock", "relock", "backoff"} /\ conn = None
  /\ WorkerStep(CASE pc["worker"] = "lock" -> "top"
                  [] pc["worker"] = "relock" -> IF ok THEN "top" ELSE "sleep"
                  [] pc["worker"] = "backoff" -> "try", "worker")
  /\ UNCHANGED waiting

(* while (!stopping()) *)
WorkerTop ==
  /\ pc["worker"] = "top"
  /\ IF stop THEN WorkerStep("exited", None) ELSE WorkerStep("eval", conn)
  /\ UNCHANGED waiting

(* conn_cv.wait(): the predicate is evaluated under conn_mutex ... *)
WorkerEval ==
  /\ pc["worker"] = "eval"
  /\ WorkerStep(IF stop \/ ~connected THEN "woke" ELSE "block", conn)
  /\ UNCHANGED waiting

(* ... and, when false, the worker blocks and releases it in one step. *)
WorkerBlock ==
  /\ pc["worker"] = "block"
  /\ WorkerStep("wait", None)
  /\ waiting' = TRUE

WorkerWake ==
  /\ pc["worker"] = "wait" /\ ~waiting /\ conn = None
  /\ WorkerStep("eval", "worker")
  /\ UNCHANGED waiting

WorkerSpurious ==
  /\ pc["worker"] = "wait" /\ waiting
  /\ waiting' = FALSE
  /\ UNCHANGED <<flowVars, stateVars, pending, conn, cmd, lifeVars, push, rxVars>>

(* Leave on stop; otherwise the attempts begin. *)
WorkerWoke ==
  /\ pc["worker"] = "woke"
  /\ IF stop THEN WorkerStep("exited", None) ELSE WorkerStep("try", conn)
  /\ UNCHANGED waiting

(* while (!stopping() && !connected): an attempt without conn_mutex. *)
WorkerTry ==
  /\ pc["worker"] = "try"
  /\ IF stop \/ connected THEN WorkerStep("top", conn) ELSE WorkerStep("a_lock", None)
  /\ UNCHANGED waiting

(* conn_cv.wait_for(backoff): ends at the latest with the backoff. *)
WorkerSleep ==
  /\ pc["worker"] = "sleep"
  /\ WorkerStep("backoff", None)
  /\ UNCHANGED waiting

Worker ==
  \/ WorkerLock \/ WorkerTop \/ WorkerEval \/ WorkerBlock \/ WorkerWake \/ WorkerWoke
  \/ WorkerTry \/ WorkerSleep \/ Attempt("worker")

-----------------------------------------------------------------------------
(* The receive thread: on_datagram() and tick().                           *)

RxStep(l) ==
  /\ Goto("rx", l)
  /\ UNCHANGED <<n, ok, connected, disconnects, reconnects, attempts, tries, lockVars, lifeVars>>

(* on_push(): an information push arrives. *)
Push ==
  /\ pc["rx"] = "idle" /\ registered
  /\ push' = 0
  /\ frame' = NoFrame
  /\ RxStep("idle") /\ UNCHANGED <<discard_requested, pending, events, shown, partial>>

(* consume_requests(): a requested discard empties the partial frame. *)
Consume ==
  /\ partial' = IF discard_requested THEN {} ELSE partial
  /\ discard_requested' = FALSE

(* A point-cloud packet: consume the requests, then push it to the assembler, *)
(* which may first complete and deliver the frame. *)
Data ==
  /\ pc["rx"] = "idle" /\ registered
  /\ Consume
  /\ frame' = NoFrame
  /\ RxStep("data") /\ UNCHANGED <<pending, push, events, shown>>

DataPush ==
  /\ pc["rx"] = "data"
  /\ \/ /\ partial' = partial \cup {Declared}
        /\ UNCHANGED frame
     \/ /\ partial # {}
        /\ frame' = [points |-> partial, shown |-> shown.outages]
        /\ partial' = {Declared}
  /\ RxStep("idle") /\ UNCHANGED <<discard_requested, pending, push, events, shown>>

(* connection_tick(): the push timeout. *)
Tick ==
  /\ pc["rx"] = "idle" /\ registered
  /\ RxStep(IF connected /\ push = 2 THEN "exchange" ELSE "swap")
  /\ frame' = NoFrame
  /\ UNCHANGED <<discard_requested, pending, push, events, shown, partial>>

(* Mutant: the events are copied, not taken. *)
SwapCopies ==
  /\ pc["rx"] = "swap" /\ conn = None
  /\ events' = pending
  /\ RxStep("deliver") /\ UNCHANGED <<discard_requested, pending, push, shown, partial, frame>>

(* Take the queued events under conn_mutex. *)
Swap ==
  /\ pc["rx"] = "swap" /\ conn = None
  /\ events' = pending
  /\ pending' = <<>>
  /\ RxStep("deliver") /\ UNCHANGED <<discard_requested, push, shown, partial, frame>>

(* rx_event_cb for each event. *)
DeliverEvent ==
  /\ pc["rx"] = "deliver" /\ events # <<>>
  /\ events' = Tail(events)
  /\ shown' = [kind |-> Head(events).kind,
               outages |-> IF Head(events).kind = "disconnected"
                           THEN shown.outages \cup {Head(events).n} ELSE shown.outages]
  /\ RxStep("deliver") /\ UNCHANGED <<discard_requested, pending, push, partial, frame>>

(* The rest of tick(): consume_requests() and the flush of an idle frame. *)
TickConsume ==
  /\ pc["rx"] = "deliver" /\ events = <<>>
  /\ Consume
  /\ RxStep("flush") /\ UNCHANGED <<pending, push, events, shown, frame>>

TickFlush ==
  /\ pc["rx"] = "flush"
  /\ \/ /\ partial # {}
        /\ frame' = [points |-> partial, shown |-> shown.outages]
        /\ partial' = {}
     \/ UNCHANGED <<partial, frame>>
  /\ RxStep("idle") /\ UNCHANGED <<discard_requested, pending, push, events, shown>>

RunTick == Tick \/ Declare("rx") \/ Swap \/ DeliverEvent \/ TickConsume \/ TickFlush

Receive == Push \/ Data \/ DataPush \/ RunTick

-----------------------------------------------------------------------------
(* User threads: commands, disconnect(), reconnect().                      *)

UserStep(u, l) ==
  /\ Goto(u, l)
  /\ UNCHANGED <<n, ok, stateVars, pending, conn, waiting, lifeVars, push, rxVars>>

Call(u) == pc[u] = "idle" /\ pc["owner"] = "open"

(* Every command: refused while disconnected, serialised by cmd_mutex, and     *)
(* checked again under it. *)
Command(u) ==
  /\ Call(u) /\ connected
  /\ UserStep(u, "c_lock") /\ UNCHANGED cmd

(* Mutant: the command does not take cmd_mutex. *)
CommandLockFree(u) ==
  /\ pc[u] = "c_lock"
  /\ UNCHANGED cmd
  /\ UserStep(u, IF connected THEN "request" ELSE "idle")

CommandLock(u) ==
  /\ pc[u] = "c_lock" /\ cmd = None
  /\ IF connected THEN cmd' = u /\ UserStep(u, "request") ELSE UNCHANGED cmd /\ UserStep(u, "idle")

CommandDone(u) ==
  /\ pc[u] = "request"
  /\ cmd' = None /\ UserStep(u, "idle")

(* note_command_error(): a timeout is an outage when the push is stale too. *)
CommandTimeout(u) ==
  /\ pc[u] = "request"
  /\ push >= 1 /\ Declared < MaxDisconnects
  /\ UserStep(u, "exchange") /\ UNCHANGED cmd

Disconnect(u) ==
  /\ Call(u) /\ Declared < MaxDisconnects
  /\ UserStep(u, "exchange") /\ UNCHANGED cmd

Reconnect(u) ==
  /\ Call(u)
  /\ UserStep(u, "a_lock") /\ UNCHANGED cmd

UserRuns(u) ==
  \/ CommandLock(u) \/ CommandDone(u) \/ CommandTimeout(u) \/ Declare(u) \/ Attempt(u)

UserCalls(u) == Command(u) \/ Disconnect(u) \/ Reconnect(u)

-----------------------------------------------------------------------------
(* The owner: Device::open() and ~Device().                                *)

OwnerStep(from, to) == pc["owner"] = from /\ Goto("owner", to)

(* open(): the Impl is made and registered before the host setup. *)
Open ==
  /\ OwnerStep("start", "setup")
  /\ registered' = TRUE
  /\ push' = 0
  /\ UNCHANGED <<n, ok, stateVars, pending, lockVars, worker_started, handle, stop, rxVars>>

OpenSucceeds ==
  /\ OwnerStep("setup", "open")
  /\ push' = 0
  /\ UNCHANGED <<n, ok, stateVars, pending, lockVars, lifeVars, rxVars>>

(* open() fails: the entry is removed again and the Impl freed. *)
OpenFails ==
  /\ OwnerStep("setup", "removing")
  /\ registered' = FALSE
  /\ UNCHANGED <<n, ok, stateVars, pending, lockVars, worker_started, handle, stop, push, rxVars>>

(* ~Device(), called when no other thread is inside a call: request_stop() ... *)
Destroy ==
  /\ \A u \in Users : pc[u] = "idle"
  /\ OwnerStep("open", "d_notify")
  /\ stop' = TRUE
  /\ UNCHANGED <<n, ok, stateVars, pending, lockVars, worker_started, handle, registered, push, rxVars>>

(* ... conn_cv.notify_all(), without conn_mutex ... *)
DestroyNotify ==
  /\ OwnerStep("d_notify", "d_take")
  /\ waiting' = FALSE
  /\ UNCHANGED <<n, ok, stateVars, pending, conn, cmd, lifeVars, push, rxVars>>

(* Mutant: the worker is detached instead of joined. *)
DestroyTakeDetaches ==
  /\ conn = None
  /\ OwnerStep("d_take", "d_remove")
  /\ handle' = "none"
  /\ UNCHANGED <<n, ok, stateVars, pending, lockVars, worker_started, stop, registered, push, rxVars>>

(* ... take the worker out under conn_mutex and join it ... *)
DestroyTake ==
  /\ conn = None
  /\ OwnerStep("d_take", IF handle = "impl" THEN "d_join" ELSE "d_remove")
  /\ handle' = IF handle = "impl" THEN "dtor" ELSE handle
  /\ UNCHANGED <<n, ok, stateVars, pending, lockVars, worker_started, stop, registered, push, rxVars>>

DestroyJoin ==
  /\ pc["worker"] = "exited"
  /\ OwnerStep("d_join", "d_remove")
  /\ handle' = "none"
  /\ UNCHANGED <<n, ok, stateVars, pending, lockVars, worker_started, stop, registered, push, rxVars>>

(* ... and context.remove(), which waits for the receive thread. *)
DestroyRemove ==
  /\ OwnerStep("d_remove", "removing")
  /\ registered' = FALSE
  /\ UNCHANGED <<n, ok, stateVars, pending, lockVars, worker_started, handle, stop, push, rxVars>>

(* remove() returned: the Impl, and with it `worker`, is destroyed. *)
Free ==
  /\ pc["rx"] = "idle"
  /\ OwnerStep("removing", "gone")
  /\ UNCHANGED <<n, ok, stateVars, pending, lockVars, lifeVars, push, rxVars>>

Owner ==
  \/ OpenSucceeds \/ OpenFails \/ DestroyNotify \/ DestroyTake \/ DestroyJoin \/ DestroyRemove \/ Free

-----------------------------------------------------------------------------
(* Time passes without a push: a third of push_timeout, then all of it. *)
Age ==
  /\ registered /\ push < 2
  /\ push = 1 => Declared < MaxDisconnects
  /\ push = 1 /\ pc["owner"] = "setup" => SlowSetup
  /\ push' = push + 1
  /\ UNCHANGED <<flowVars, stateVars, pending, lockVars, lifeVars, rxVars>>

Gone == pc["owner"] = "gone" /\ UNCHANGED vars

Next ==
  \/ Open \/ Owner \/ Destroy \/ Receive \/ Worker \/ WorkerSpurious \/ Age \/ Gone
  \/ \E u \in Users : UserCalls(u) \/ UserRuns(u)

Spec == Init /\ [][Next]_vars

(***************************************************************************)
(* Every thread that is inside a call is scheduled, callbacks return, and  *)
(* a mutex that is released again and again is eventually acquired.        *)
(* tick() is called in every iteration of the receive loop, between        *)
(* bounded drains of the sockets (Context).  For progress of a reconnect   *)
(* the LiDAR must answer: an attempt made again and again eventually       *)
(* succeeds.  Nothing is assumed of the user's calls, of the pushes, nor   *)
(* of spurious wake-ups.                                                   *)
(***************************************************************************)
Fairness ==
  /\ SF_vars(Owner)
  /\ SF_vars(RunTick) /\ WF_vars(DataPush)
  /\ SF_vars(Worker)
  /\ SF_vars(AttemptConnects("worker")) /\ SF_vars(AttemptReplayed("worker"))
  /\ \A u \in Users : SF_vars(UserRuns(u))

FairSpec == Spec /\ Fairness

-----------------------------------------------------------------------------
Event == [kind : {"disconnected", "reconnected"}, n : Nat]

(* Every variable has its type. *)
TypeOK ==
  /\ pc \in [Threads -> STRING] /\ n \in [Threads -> Nat] /\ ok \in BOOLEAN
  /\ connected \in BOOLEAN /\ discard_requested \in BOOLEAN
  /\ disconnects \in Nat /\ reconnects \in Nat /\ attempts \in 0..MaxAttempts /\ tries \in 0..MaxAttempts
  /\ pending \in Seq(Event) /\ events \in Seq(Event)
  /\ worker_started \in BOOLEAN /\ handle \in {"none", "impl", "dtor"}
  /\ stop \in BOOLEAN /\ registered \in BOOLEAN /\ waiting \in BOOLEAN
  /\ conn \in {"worker", None} /\ cmd \in Threads \cup {None}
  /\ push \in 0..2
  /\ shown \in [kind : {"disconnected", "reconnected"}, outages : SUBSET Nat]
  /\ partial \in SUBSET Nat
  /\ frame \in [points : SUBSET Nat, shown : SUBSET Nat]

(* A disconnect is declared exactly once per outage, whichever threads detect  *)
(* it: outages declared and reconnects differ by one exactly while             *)
(* disconnected (the compare-exchange, device.cpp:862).                        *)
OncePerOutage ==
  Declared + Cardinality({t \in Threads : pc[t] \in {"a_queue", "a_store"}})
    = reconnects + (IF connected THEN 0 ELSE 1)

(* No kDisconnected is lost or duplicated on its way to the callback: every    *)
(* outage declared is about to be queued, queued, in delivery or was shown     *)
(* (device.cpp:873-875 and 1139-1147), once.                                   *)
EveryOutageReported ==
  LET declaring == {t \in Threads : pc[t] \in {"count", "discard", "queue"}}
      queued(q) == {i \in DOMAIN q : q[i].kind = "disconnected"}
  IN  /\ 1..Declared = {n[t] : t \in declaring} \cup {pending[i].n : i \in queued(pending)}
                       \cup {events[i].n : i \in queued(events)} \cup shown.outages
      /\ Declared = Cardinality(declaring) + Cardinality(queued(pending))
                    + Cardinality(queued(events)) + Cardinality(shown.outages)

(* Each outage is declared once and told once, whichever threads notice it.    *)
OutagesExact == OncePerOutage /\ EveryOutageReported

(* The Session is used and replaced by one thread at a time (cmd_mutex), the   *)
(* host setup of open() included.                                              *)
SessionExclusive ==
  \A t, u \in Threads : t # u =>
    ~ /\ pc[t] \in {"a_swap", "a_replay"}
      /\ pc[u] \in {"a_swap", "a_replay", "request", "setup"}

(* The worker does not touch the Context once ~Device() is in remove()         *)
(* (device.cpp:1303): it is in no attempt and will not begin one.              *)
WorkerQuietAfterRemove ==
  pc["owner"] \in {"removing", "gone"} =>
    pc["worker"] \in {"unborn", "lock", "top", "exited"}

(* A frame delivered after the kDisconnected of an outage holds no point that  *)
(* was received before that outage was declared (device.cpp:868 before 875,    *)
(* consumed at 770 before any flush or push).                                  *)
NoStaleFrame == \A o \in frame.points, k \in frame.shown : o >= k

(* While reconnecting is enabled an outage ends: the worker is woken (no lost  *)
(* notification) and tries until an attempt succeeds, or the Device is         *)
(* destroyed (device.cpp:1051-1080).                                           *)
OutageEnds == ~connected /\ pc["owner"] = "open" ~> connected \/ stop

(* Every queued connection event reaches the receive thread's callback, or     *)
(* the Device is removed (device.cpp:1138-1147).                               *)
EventsDelivered == pending # <<>> ~> pending = <<>> \/ ~registered

-----------------------------------------------------------------------------
(* Stated by the documentation and refuted: by the run WorkerJoined, by        *)
(* EventOrder.cfg and by DestructorReturns.cfg.                                *)

(* api.md: the worker is "joined by the destructor": no joinable std::thread   *)
(* is destroyed with the Impl (which would call std::terminate).               *)
WorkerJoined == pc["owner"] = "gone" => handle # "impl"

(* kDisconnected and kReconnected alternate, as device.hpp says ("False        *)
(* between kDisconnected and kReconnected").                                   *)
EventsAlternate ==
  [][events # <<>> /\ events' = Tail(events) => Head(events).kind # shown.kind]_vars

(* event.hpp: "commands fail with kDisconnected until kReconnected": when the  *)
(* callback sees kReconnected the Device is connected, or a later outage began. *)
ReconnectedMeansConnected ==
  [][events # <<>> /\ events' = Tail(events) /\ Head(events).kind = "reconnected"
       => connected \/ Declared > Head(events).n]_vars

(* event.hpp: the attempts of a kReconnected are the "attempts including the   *)
(* successful one" of this outage.                                             *)
AttemptsCounted ==
  [][\A t \in Threads : pc[t] = "a_queue" /\ pc'[t] = "a_store" => n[t] = tries]_vars

(* api.md: the destructor "requests a stop that the attempt observes" and      *)
(* joins the worker: once begun, ~Device() returns.                            *)
DestructorReturns == stop ~> pc["owner"] = "gone"
=============================================================================
