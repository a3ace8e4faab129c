-------------------------- MODULE ConnectionProofs --------------------------
(***************************************************************************)
(* Proofs about Connection for any number of user threads, outages and     *)
(* attempts: who holds cmd_mutex, that a Session is never used by two      *)
(* threads, that the worker is quiet once ~Device() is in remove(), that a *)
(* frame holds no point from before an outage the callback was told of,    *)
(* and that every outage that is declared is told exactly once.            *)
(***************************************************************************)
EXTENDS Connection, TLAPS

OwnerAt == {"start", "setup", "open", "d_notify", "d_take", "d_join", "d_remove",
            "removing", "gone"}
DeclareAt == {"exchange", "count", "discard", "queue", "notify"}
AttemptAt == {"a_check", "a_connect", "a_swap", "a_replay", "a_queue", "a_store", "a_notify"}
HoldAt == AttemptAt \cup {"request"}
RxAt == {"idle", "data", "swap", "deliver", "flush"} \cup DeclareAt
WorkerAt == {"unborn", "lock", "top", "eval", "block", "wait", "woke", "try", "a_lock",
             "relock", "sleep", "backoff", "exited"} \cup AttemptAt
UserAt == {"idle", "c_lock", "request", "a_lock"} \cup DeclareAt \cup AttemptAt

At(t) == CASE t = "owner" -> OwnerAt [] t = "rx" -> RxAt [] t = "worker" -> WorkerAt
           [] OTHER -> UserAt

Codes == OwnerAt \cup RxAt \cup WorkerAt \cup UserAt

(* Each thread is in its own code. *)
PcOK == pc \in [Threads -> Codes] /\ \A t \in Threads : pc[t] \in At(t)

(* Whoever is in an attempt, or in the request of a command, holds cmd_mutex. *)
Locked == \A t \in Threads : pc[t] \in HoldAt => cmd = t

LockInv == PcOK /\ Locked

(* The threads are different ones. *)
LEMMA Roles ==
  /\ "owner" \in Threads /\ "rx" \in Threads /\ "worker" \in Threads /\ Users \subseteq Threads
  /\ "owner" \notin Users /\ "rx" \notin Users /\ "worker" \notin Users /\ None \notin Threads
  BY ConnectionAssumption, Zenon DEF Threads

LEMMA AtOf ==
  /\ At("owner") = OwnerAt /\ At("rx") = RxAt /\ At("worker") = WorkerAt
  /\ \A u \in Users : At(u) = UserAt
<1>1. \A u \in Users : u # "owner" /\ u # "rx" /\ u # "worker"
  BY Roles, Zenon
<1> QED BY <1>1, Zenon DEF At

(* A step of one thread, which takes or releases no mutex but its own. *)
Moves(t) ==
  \E l \in At(t) : /\ Goto(t, l)
                   /\ l \in HoldAt => cmd' = t
                   /\ cmd' = cmd \/ cmd \in {None, t}

LEMMA MovesLock ==
  ASSUME LockInv, NEW t \in Threads, Moves(t)
  PROVE  LockInv'
<1>1. PICK l \in At(t) : /\ Goto(t, l) /\ (l \in HoldAt => cmd' = t)
                         /\ cmd' = cmd \/ cmd \in {None, t}
  BY Zenon DEF Moves
<1>2. l \in Codes
  BY Zenon DEF At, Codes
<1>3. /\ pc' \in [Threads -> Codes] /\ pc'[t] = l
      /\ \A s \in Threads : s # t => pc'[s] = pc[s]
  BY <1>1, <1>2, Zenon DEF LockInv, PcOK, Goto
<1>4. PcOK'
  BY <1>1, <1>3, Zenon DEF LockInv, PcOK
<1>5. Locked'
  BY <1>1, <1>3, Roles, Zenon DEF LockInv, Locked
<1> QED BY <1>4, <1>5, Zenon DEF LockInv

LEMMA DeclareMoves ==
  ASSUME LockInv, NEW t \in Users \cup {"rx"}, Declare(t)
  PROVE  \/ Moves(t)
         \/ /\ ~worker_started
            /\ pc' = [pc EXCEPT ![t] = "notify", !["worker"] = "lock"] /\ UNCHANGED cmd
<1>1. DeclareAt \cup {"idle"} \subseteq At(t) /\ (t = "rx" => "swap" \in At(t))
  BY AtOf, Zenon DEF RxAt, UserAt
<1>2. CASE AfterDeclare(t)
  BY <1>1, <1>2, Zenon DEF AfterDeclare, Moves, HoldAt, AttemptAt
<1>3. CASE \E l \in DeclareAt : Goto(t, l) /\ UNCHANGED cmd
  BY <1>1, <1>3, Zenon DEF Moves, HoldAt, AttemptAt, DeclareAt
<1>4. \/ AfterDeclare(t)
      \/ \E l \in DeclareAt : Goto(t, l) /\ UNCHANGED cmd
      \/ /\ ~worker_started
         /\ pc' = [pc EXCEPT ![t] = "notify", !["worker"] = "lock"] /\ UNCHANGED cmd
  BY Zenon DEF Declare, Exchange, Count, Discard, QueueDisconnected, NotifyDisconnected,
     DeclareAt, lockVars
<1> QED BY <1>2, <1>3, <1>4, Zenon

LEMMA AttemptMoves ==
  ASSUME LockInv, NEW t \in Users \cup {"worker"}, Attempt(t)
  PROVE  Moves(t)
<1>1. AttemptAt \cup {"a_lock"} \subseteq At(t)
      /\ (t = "worker" => "relock" \in At(t)) /\ (t # "worker" => "idle" \in At(t))
  BY AtOf, Roles, Zenon DEF WorkerAt, UserAt
<1>2. CASE AttemptLock(t)
  BY <1>1, <1>2, Zenon DEF AttemptLock, Moves, HoldAt, AttemptAt
<1>3. CASE ~AttemptLock(t)
  <2>1. pc[t] \in AttemptAt
    BY <1>3, Zenon DEF Attempt, AttemptCheck, AttemptFails, AttemptConnects, AttemptSwaps,
       AttemptReplayed, AttemptQueues, AttemptStores, AttemptNotifies, AttemptAt
  <2>2. cmd = t
    BY <2>1, Roles, Zenon DEF LockInv, Locked, HoldAt
  <2>3. CASE \E b : AttemptEnds(t, b)
    BY <1>1, <2>2, <2>3, Zenon DEF AttemptEnds, Moves, HoldAt, AttemptAt
  <2>4. CASE \E l \in AttemptAt : Goto(t, l) /\ UNCHANGED cmd
    BY <1>1, <2>2, <2>4, Zenon DEF Moves
  <2>5. (\E b : AttemptEnds(t, b)) \/ (\E l \in AttemptAt : Goto(t, l) /\ UNCHANGED cmd)
    BY <1>3, Zenon DEF Attempt, AttemptCheck, AttemptFails, AttemptConnects, AttemptSwaps,
       AttemptReplayed, AttemptQueues, AttemptStores, AttemptNotifies, AttemptAt, lockVars
  <2> QED BY <2>3, <2>4, <2>5, Zenon
<1> QED BY <1>2, <1>3, Zenon

LEMMA WorkerMoves ==
  ASSUME LockInv, Worker
  PROVE  Moves("worker")
<1>1. CASE Attempt("worker")
  BY <1>1, AttemptMoves, Zenon
<1>2. CASE ~Attempt("worker")
  <2>1. \E l \in WorkerAt \ AttemptAt : Goto("worker", l) /\ UNCHANGED cmd
    BY <1>2, Zenon DEF Worker, WorkerLock, WorkerTop, WorkerEval, WorkerBlock, WorkerWake,
       WorkerWoke, WorkerTry, WorkerSleep, WorkerStep, WorkerAt, AttemptAt
  <2> QED BY <2>1, AtOf, Zenon DEF Moves, HoldAt, WorkerAt, AttemptAt
<1> QED BY <1>1, <1>2, Zenon

LEMMA ReceiveMoves ==
  ASSUME LockInv, Receive, ~Declare("rx")
  PROVE  Moves("rx")
<1>1. \E l \in RxAt : Goto("rx", l) /\ UNCHANGED cmd
  BY Zenon DEF Receive, RunTick, Push, Data, DataPush, Tick, Swap, DeliverEvent, TickConsume,
     TickFlush, RxStep, RxAt, DeclareAt, lockVars
<1> QED BY <1>1, AtOf, Zenon DEF Moves, HoldAt, RxAt, DeclareAt, AttemptAt

LEMMA UserMoves ==
  ASSUME LockInv, NEW u \in Users, UserCalls(u) \/ (UserRuns(u) /\ ~Declare(u))
  PROVE  Moves(u)
<1>1. At(u) = UserAt /\ u \in Threads /\ u # None
  BY AtOf, Roles, Zenon
<1>2. CASE Attempt(u)
  BY <1>2, AttemptMoves, Zenon
<1>3. CASE UserCalls(u)
  BY <1>1, <1>3, Zenon DEF UserCalls, Command, Disconnect, Reconnect, UserStep, Moves, HoldAt,
     UserAt, DeclareAt, AttemptAt
<1>4. CASE CommandLock(u) \/ CommandDone(u) \/ CommandTimeout(u)
  <2>1. CommandDone(u) => cmd = u
    BY <1>1, Zenon DEF CommandDone, LockInv, Locked, HoldAt
  <2> QED
    BY <1>1, <1>4, <2>1, Zenon DEF CommandLock, CommandDone, CommandTimeout, UserStep, Moves,
       HoldAt, UserAt, DeclareAt, AttemptAt
<1> QED BY <1>2, <1>3, <1>4, Zenon DEF UserRuns

LEMMA OwnerMoves ==
  ASSUME LockInv, Open \/ Owner \/ Destroy
  PROVE  Moves("owner")
<1>1. \E l \in OwnerAt : Goto("owner", l) /\ UNCHANGED cmd
  BY Zenon DEF Open, Owner, Destroy, OpenSucceeds, OpenFails, DestroyNotify, DestroyTake,
     DestroyJoin, DestroyRemove, Free, OwnerStep, OwnerAt, lockVars
<1> QED BY <1>1, AtOf, Zenon DEF Moves, HoldAt, OwnerAt, AttemptAt

(* cmd_mutex: the holder is the thread that is in an attempt or in a request. *)
THEOREM ConnectionLocks == Spec => []LockInv
<1>1. Init => LockInv
  <2> SUFFICES ASSUME Init PROVE LockInv
    BY Zenon
  <2>1. pc \in [Threads -> Codes]
    BY Zenon DEF Init, Codes, OwnerAt, WorkerAt, RxAt
  <2>2. pc["owner"] = "start" /\ pc["worker"] = "unborn" /\ pc["rx"] = "idle"
        /\ \A u \in Users : pc[u] = "idle"
    BY Roles, Zenon DEF Init
  <2>3. \A t \in Threads : pc[t] \in At(t) /\ pc[t] \notin HoldAt
    BY <2>2, AtOf, Zenon DEF Threads, OwnerAt, RxAt, WorkerAt, UserAt, HoldAt, AttemptAt
  <2> QED BY <2>1, <2>3, Zenon DEF LockInv, PcOK, Locked
<1>2. LockInv /\ [Next]_vars => LockInv'
  <2> SUFFICES ASSUME LockInv, [Next]_vars
               PROVE  LockInv'
    BY Zenon
  <2>1. ASSUME NEW t \in Users \cup {"rx"}, ~worker_started, UNCHANGED cmd,
               pc' = [pc EXCEPT ![t] = "notify", !["worker"] = "lock"]
        PROVE  LockInv'
    <3>1. /\ pc' \in [Threads -> Codes] /\ pc'[t] = "notify" /\ pc'["worker"] = "lock"
          /\ \A s \in Threads : s # t /\ s # "worker" => pc'[s] = pc[s]
      BY <2>1, Roles, Zenon DEF LockInv, PcOK, Codes, WorkerAt, RxAt, DeclareAt
    <3>2. "notify" \in At(t) /\ "lock" \in At("worker")
      BY AtOf, Zenon DEF RxAt, UserAt, WorkerAt, DeclareAt
    <3> QED BY <2>1, <3>1, <3>2, Zenon DEF LockInv, PcOK, Locked, HoldAt, AttemptAt
  <2>2. ASSUME NEW t \in Users \cup {"rx"}, Declare(t)
        PROVE  LockInv'
    BY <2>1, <2>2, DeclareMoves, MovesLock, Roles, Zenon
  <2>3. CASE Open \/ Owner \/ Destroy
    BY <2>3, OwnerMoves, MovesLock, Roles, Zenon
  <2>4. CASE Receive
    BY <2>2, <2>4, ReceiveMoves, MovesLock, Roles, Zenon
  <2>5. CASE Worker
    BY <2>5, WorkerMoves, MovesLock, Roles, Zenon
  <2>6. ASSUME NEW u \in Users, UserCalls(u) \/ UserRuns(u)
        PROVE  LockInv'
    BY <2>2, <2>6, UserMoves, MovesLock, Roles, Zenon
  <2>7. CASE WorkerSpurious \/ Age \/ Gone \/ UNCHANGED vars
    <3>1. UNCHANGED <<pc, cmd>>
      BY <2>7, Zenon DEF WorkerSpurious, Age, Gone, vars, flowVars, lockVars
    <3> QED BY <3>1, Zenon DEF LockInv, PcOK, Locked
  <2> QED BY <2>3, <2>4, <2>5, <2>6, <2>7, Zenon DEF Next
<1> QED BY <1>1, <1>2, PTL DEF Spec
-----------------------------------------------------------------------------
(* The life of the Device when the host setup of open() is faster than push_timeout:   *)
(* nobody declares an outage before open() has returned, the users are out of their     *)
(* calls when ~Device() runs, and a worker that is started after it was looked for is    *)
(* started with the stop requested.                                                     *)
LifeInv ==
  LET owner == pc["owner"]
  IN  /\ push \in 0..2
      /\ owner \in {"start", "setup"} =>
           push <= 1 /\ ~worker_started /\ pc["rx"] \notin DeclareAt
      /\ owner # "open" => \A u \in Users : pc[u] = "idle"
      /\ registered => owner \notin {"start", "removing", "gone"}
      /\ worker_started <=> pc["worker"] # "unborn"
      /\ owner \in {"open", "d_notify", "d_take"} /\ worker_started => handle = "impl"
      /\ owner \in {"d_notify", "d_take", "d_join", "d_remove"} => stop
      /\ owner \in {"removing", "gone"} /\ ~stop => ~worker_started /\ pc["rx"] \notin DeclareAt
      /\ owner \in {"d_remove", "removing", "gone"} =>
           pc["worker"] \in {"unborn", "lock", "top", "exited"}

(* A step while the Device is open, or before the worker has been joined. *)
LEMMA LifeMid ==
  ASSUME LifeInv, pc["owner"] \in {"open", "d_notify", "d_take", "d_join"},
         pc'["owner"] = pc["owner"], push' \in 0..2,
         UNCHANGED <<handle, stop, registered, worker_started>>,
         pc'["worker"] = "unborn" <=> pc["worker"] = "unborn",
         pc["owner"] # "open" => \A u \in Users : pc'[u] = pc[u]
  PROVE  LifeInv'
  BY Zenon DEF LifeInv

LEMMA AttemptLife ==
  ASSUME LockInv, LifeInv, NEW t \in Users \cup {"worker"}, Attempt(t)
  PROVE  LifeInv'
<1>1. pc[t] \in AttemptAt \cup {"a_lock"}
  BY Zenon DEF Attempt, AttemptLock, AttemptCheck, AttemptFails, AttemptConnects, AttemptSwaps,
     AttemptReplayed, AttemptQueues, AttemptStores, AttemptNotifies, AttemptAt
<1>2. PICK l \in AttemptAt \cup {"relock", "idle"} :
        Goto(t, l) /\ (t = "worker" => l # "idle")
  <2>1. (\E b : AttemptEnds(t, b)) \/ (\E l \in AttemptAt : Goto(t, l))
    BY Zenon DEF Attempt, AttemptLock, AttemptCheck, AttemptFails, AttemptConnects, AttemptSwaps,
       AttemptReplayed, AttemptQueues, AttemptStores, AttemptNotifies, AttemptAt
  <2>2. CASE \E b : AttemptEnds(t, b)
    BY <2>2 DEF AttemptEnds
  <2>3. CASE \E l \in AttemptAt : Goto(t, l)
    BY <2>3, Zenon DEF AttemptAt
  <2> QED BY <2>1, <2>2, <2>3, Zenon
<1>3. UNCHANGED <<handle, stop, registered, worker_started>> /\ push' \in {0, push}
  BY Zenon DEF Attempt, AttemptLock, AttemptCheck, AttemptFails, AttemptConnects, AttemptSwaps,
     AttemptReplayed, AttemptQueues, AttemptStores, AttemptNotifies, lifeVars
<1>4. pc["owner"] \in {"open", "d_notify", "d_take", "d_join"}
      /\ (t \in Users => pc["owner"] = "open")
  <2>1. CASE t \in Users
    BY <1>1, <2>1, Zenon DEF LifeInv, AttemptAt
  <2>2. CASE t = "worker"
    <3>1. pc["owner"] \in OwnerAt
      BY AtOf, Roles, Zenon DEF LockInv, PcOK
    <3> QED BY <1>1, <2>2, <3>1, Roles, Zenon DEF LifeInv, AttemptAt, OwnerAt
  <2> QED BY <2>1, <2>2, Zenon
<1>5. pc'["owner"] = pc["owner"] /\ (pc'["worker"] = "unborn" <=> pc["worker"] = "unborn")
      /\ (t \notin Users => \A u \in Users : pc'[u] = pc[u])
  BY <1>1, <1>2, Roles, Zenon DEF Goto, LockInv, PcOK, AttemptAt
<1> QED BY <1>3, <1>4, <1>5, LifeMid DEF LifeInv

LEMMA WorkerLife ==
  ASSUME LockInv, LifeInv, Worker
  PROVE  LifeInv'
<1>1. CASE Attempt("worker")
  BY <1>1, AttemptLife, Zenon
<1>2. CASE ~Attempt("worker")
  <2>1. PICK l \in WorkerAt \ {"unborn"} : Goto("worker", l)
    BY <1>2, Zenon DEF Worker, WorkerLock, WorkerTop, WorkerEval, WorkerBlock, WorkerWake,
       WorkerWoke, WorkerTry, WorkerSleep, WorkerStep, WorkerAt
  <2>2. UNCHANGED <<handle, stop, registered, worker_started, push>> /\ pc["worker"] # "unborn"
    BY <1>2, Zenon DEF Worker, WorkerLock, WorkerTop, WorkerEval, WorkerBlock, WorkerWake,
       WorkerWoke, WorkerTry, WorkerSleep, WorkerStep, lifeVars
  <2>3. /\ pc'["worker"] = l /\ pc'["owner"] = pc["owner"] /\ pc'["rx"] = pc["rx"]
        /\ \A u \in Users : pc'[u] = pc[u]
    BY <2>1, Roles, Zenon DEF Goto, LockInv, PcOK
  <2>4. CASE pc["owner"] \in {"open", "d_notify", "d_take", "d_join"}
    BY <2>1, <2>2, <2>3, <2>4, LifeMid, Zenon DEF LifeInv
  <2>5. CASE pc["owner"] \in {"d_remove", "removing", "gone"}
    <3>1. stop
      BY <2>2, <2>5, Zenon DEF LifeInv
    <3>2. pc["worker"] \in {"lock", "top", "exited"}
      BY <2>2, <2>5, Zenon DEF LifeInv
    <3>3. l \in {"top", "exited"}
      <4>1. WorkerLock \/ WorkerTop
        BY <1>2, <3>2, Zenon DEF Worker, WorkerEval, WorkerBlock, WorkerWake, WorkerWoke,
           WorkerTry, WorkerSleep
      <4>2. pc'["worker"] \in {"top", "exited"}
        BY <3>1, <3>2, <4>1, Roles, Zenon DEF WorkerLock, WorkerTop, WorkerStep, Goto, LockInv, PcOK
      <4> QED BY <2>3, <4>2, Zenon
    <3> QED BY <2>2, <2>3, <2>5, <3>1, <3>3, Zenon DEF LifeInv
  <2>6. CASE pc["owner"] \in {"start", "setup"}
    BY <2>2, <2>6, Zenon DEF LifeInv
  <2>7. pc["owner"] \in OwnerAt
    BY AtOf, Roles, Zenon DEF LockInv, PcOK
  <2> QED BY <2>4, <2>5, <2>6, <2>7, Zenon DEF OwnerAt
<1> QED BY <1>1, <1>2, Zenon

LEMMA DeclareLife ==
  ASSUME LockInv, LifeInv, NEW t \in Users \cup {"rx"}, Declare(t)
  PROVE  LifeInv'
<1>1. pc[t] \in DeclareAt /\ UNCHANGED <<push, stop, registered>>
  BY Zenon DEF Declare, Exchange, Count, Discard, QueueDisconnected, NotifyDisconnected,
     DeclareAt, lifeVars
<1>2. pc["owner"] \in OwnerAt \ {"start", "setup"} /\ (t \in Users => pc["owner"] = "open")
      /\ (pc["owner"] \in {"removing", "gone"} => stop)
  <2>1. pc["owner"] \in OwnerAt
    BY AtOf, Roles, Zenon DEF LockInv, PcOK
  <2> QED BY <1>1, <2>1, Zenon DEF LifeInv, DeclareAt
<1>3. \/ /\ UNCHANGED <<worker_started, handle>>
         /\ \E l \in DeclareAt \cup {"swap", "idle"} : Goto(t, l)
      \/ /\ ~worker_started /\ worker_started' /\ handle' = "impl"
         /\ pc' = [pc EXCEPT ![t] = "notify", !["worker"] = "lock"]
  BY Zenon DEF Declare, Exchange, Count, Discard, QueueDisconnected, NotifyDisconnected,
     AfterDeclare, DeclareAt, lifeVars
<1>4. pc'["owner"] = pc["owner"] /\ \A u \in Users : u # t => pc'[u] = pc[u]
  BY <1>3, Roles, Zenon DEF LockInv, PcOK, Goto
<1>5. CASE UNCHANGED <<worker_started, handle>>
           /\ \E l \in DeclareAt \cup {"swap", "idle"} : Goto(t, l)
  <2>1. pc'["worker"] = pc["worker"]
    BY <1>5, Roles, Zenon DEF LockInv, PcOK, Goto
  <2> QED BY <1>1, <1>2, <1>4, <1>5, <2>1, Roles, Zenon DEF LifeInv, OwnerAt
<1>6. CASE /\ ~worker_started /\ worker_started' /\ handle' = "impl"
           /\ pc' = [pc EXCEPT ![t] = "notify", !["worker"] = "lock"]
  <2>1. pc'["worker"] = "lock"
    BY <1>6, Roles, Zenon DEF LockInv, PcOK
  <2> QED BY <1>1, <1>2, <1>4, <1>6, <2>1, Roles, Zenon DEF LifeInv, OwnerAt
<1> QED BY <1>3, <1>5, <1>6, Zenon

LEMMA ReceiveLife ==
  ASSUME LockInv, LifeInv, Receive
  PROVE  LifeInv'
<1>1. CASE Declare("rx")
  BY <1>1, DeclareLife, Zenon
<1>2. CASE ~Declare("rx")
  <2>1. UNCHANGED <<worker_started, handle, stop, registered>> /\ push' \in {0, push}
    BY <1>2, Zenon DEF Receive, RunTick, Push, Data, DataPush, Tick, Swap, DeliverEvent,
       TickConsume, TickFlush, RxStep, lifeVars
  <2>2. PICK l \in RxAt : Goto("rx", l) /\ (l \in DeclareAt => registered /\ push = 2)
    BY <1>2 DEF Receive, RunTick, Push, Data, DataPush, Tick, Swap, DeliverEvent,
       TickConsume, TickFlush, RxStep, RxAt, DeclareAt
  <2>3. /\ pc'["rx"] = l /\ pc'["owner"] = pc["owner"] /\ pc'["worker"] = pc["worker"]
        /\ \A u \in Users : pc'[u] = pc[u]
    BY <2>2, Roles, Zenon DEF Goto, LockInv, PcOK
  <2> QED BY <2>1, <2>2, <2>3 DEF LifeInv
<1> QED BY <1>1, <1>2, Zenon

LEMMA UserLife ==
  ASSUME LockInv, LifeInv, NEW u \in Users, UserCalls(u) \/ UserRuns(u)
  PROVE  LifeInv'
<1>1. CASE Declare(u)
  BY <1>1, DeclareLife, Zenon
<1>2. CASE Attempt(u)
  BY <1>2, AttemptLife, Zenon
<1>3. CASE ~Declare(u) /\ ~Attempt(u)
  <2>1. UNCHANGED <<worker_started, handle, stop, registered, push>> /\ \E l : Goto(u, l)
    BY <1>3, Zenon DEF UserCalls, UserRuns, Command, Disconnect, Reconnect, CommandLock,
       CommandDone, CommandTimeout, UserStep, lifeVars
  <2>2. pc["owner"] = "open"
    <3>1. pc["owner"] = "open" \/ pc[u] \in {"c_lock", "request"}
      BY <1>3, Zenon DEF UserCalls, UserRuns, Command, Disconnect, Reconnect, CommandLock,
         CommandDone, CommandTimeout, Call
    <3> QED BY <3>1, Zenon DEF LifeInv
  <2>3. pc'["owner"] = pc["owner"] /\ pc'["worker"] = pc["worker"]
    BY <2>1, Roles, Zenon DEF Goto, LockInv, PcOK
  <2> QED BY <2>1, <2>2, <2>3, LifeMid, Zenon DEF LifeInv
<1> QED BY <1>1, <1>2, <1>3, Zenon

LEMMA OwnerLife ==
  ASSUME LockInv, LifeInv, Open \/ Owner \/ Destroy
  PROVE  LifeInv'
<1>1. \A l : Goto("owner", l) => /\ pc'["owner"] = l /\ pc'["rx"] = pc["rx"]
                                 /\ pc'["worker"] = pc["worker"]
                                 /\ \A u \in Users : pc'[u] = pc[u]
  BY Roles, Zenon DEF Goto, LockInv, PcOK
<1>2. CASE Open
  BY <1>1, <1>2 DEF Open, OwnerStep, LifeInv
<1>3. CASE OpenSucceeds
  BY <1>1, <1>3 DEF OpenSucceeds, OwnerStep, LifeInv, lifeVars
<1>4. CASE OpenFails
  BY <1>1, <1>4 DEF OpenFails, OwnerStep, LifeInv
<1>5. CASE Destroy
  BY <1>1, <1>5 DEF Destroy, OwnerStep, LifeInv
<1>6. CASE DestroyNotify
  BY <1>1, <1>6 DEF DestroyNotify, OwnerStep, LifeInv, lifeVars
<1>7. CASE DestroyTake
  <2>1. CASE handle = "impl"
    BY <1>1, <1>7, <2>1 DEF DestroyTake, OwnerStep, LifeInv
  <2>2. CASE handle # "impl"
    BY <1>1, <1>7, <2>2 DEF DestroyTake, OwnerStep, LifeInv
  <2> QED BY <2>1, <2>2, Zenon
<1>8. CASE DestroyJoin
  BY <1>1, <1>8 DEF DestroyJoin, OwnerStep, LifeInv
<1>9. CASE DestroyRemove
  BY <1>1, <1>9 DEF DestroyRemove, OwnerStep, LifeInv
<1>10. CASE Free
  BY <1>1, <1>10 DEF Free, OwnerStep, LifeInv, lifeVars
<1> QED BY <1>2, <1>3, <1>4, <1>5, <1>6, <1>7, <1>8, <1>9, <1>10, Zenon DEF Owner

(* LifeInv holds as long as the host setup is not slower than push_timeout. *)
LEMMA ConnectionLife == Spec => [](~SlowSetup => LifeInv)
<1>1. Init => LifeInv
  <2> SUFFICES ASSUME Init PROVE LifeInv
    OBVIOUS
  <2>1. pc["owner"] = "start" /\ pc["worker"] = "unborn" /\ pc["rx"] = "idle"
        /\ \A u \in Users : pc[u] = "idle"
    BY Roles DEF Init
  <2> QED BY <2>1 DEF Init, LifeInv, DeclareAt
<1>2. LockInv /\ ~SlowSetup /\ LifeInv /\ [Next]_vars => LifeInv'
  <2> SUFFICES ASSUME LockInv, ~SlowSetup, LifeInv, [Next]_vars
               PROVE  LifeInv'
    BY Zenon
  <2>1. CASE Open \/ Owner \/ Destroy
    BY <2>1, OwnerLife, Zenon
  <2>2. CASE Receive
    BY <2>2, ReceiveLife, Zenon
  <2>3. CASE Worker
    BY <2>3, WorkerLife, Zenon
  <2>4. ASSUME NEW u \in Users, UserCalls(u) \/ UserRuns(u)
        PROVE  LifeInv'
    BY <2>4, UserLife, Zenon
  <2>5. CASE Age
    BY <2>5 DEF Age, LifeInv, flowVars, lifeVars
  <2>6. CASE WorkerSpurious \/ Gone \/ UNCHANGED vars
    <3>1. UNCHANGED <<pc, push, worker_started, handle, stop, registered>>
      BY <2>6, Zenon DEF WorkerSpurious, Gone, vars, flowVars, lifeVars
    <3> QED BY <3>1, Zenon DEF LifeInv
  <2> QED BY <2>1, <2>2, <2>3, <2>4, <2>5, <2>6, Zenon DEF Next
<1>3. LockInv /\ (~SlowSetup => LifeInv) /\ [Next]_vars => (~SlowSetup => LifeInv)'
  BY <1>2, Zenon
<1> QED BY <1>1, <1>3, ConnectionLocks, PTL DEF Spec

(* SessionExclusive: the Session is used and replaced by one thread at a time: the       *)
(* commands and attempt() hold cmd_mutex (device.cpp:1003), and open() runs its host     *)
(* setup before anybody can be in either, if it is not slower than push_timeout.         *)
THEOREM ConnectionSessionExclusive == Spec => [](~SlowSetup => SessionExclusive)
<1>1. LockInv /\ LifeInv => SessionExclusive
  <2> SUFFICES ASSUME LockInv, LifeInv, NEW t \in Threads, NEW u \in Threads, t # u,
                      pc[t] \in {"a_swap", "a_replay"},
                      pc[u] \in {"a_swap", "a_replay", "request", "setup"}
               PROVE  FALSE
    BY Zenon DEF SessionExclusive
  <2>1. cmd = t
    BY Zenon DEF LockInv, Locked, HoldAt, AttemptAt
  <2>2. CASE pc[u] \in {"a_swap", "a_replay", "request"}
    BY <2>1, <2>2, Zenon DEF LockInv, Locked, HoldAt, AttemptAt
  <2>3. CASE pc[u] = "setup"
    <3>1. u = "owner"
      <4>1. pc[u] \in At(u)
        BY Zenon DEF LockInv, PcOK
      <4> QED BY <2>3, <4>1, AtOf, Zenon DEF Threads, RxAt, WorkerAt, UserAt, DeclareAt, AttemptAt
    <3>2. (\A v \in Users : pc[v] = "idle") /\ pc["worker"] = "unborn"
      BY <2>3, <3>1, Zenon DEF LifeInv
    <3>3. pc["rx"] \in RxAt
      BY AtOf, Roles, Zenon DEF LockInv, PcOK
    <3> QED BY <3>1, <3>2, <3>3, Zenon DEF Threads, RxAt, DeclareAt
  <2> QED BY <2>2, <2>3, Zenon
<1> QED BY <1>1, ConnectionLocks, ConnectionLife, PTL

(* WorkerQuietAfterRemove: the worker neither is in an attempt, nor begins one, once     *)
(* ~Device() is in remove() (device.cpp:1289-1303).                                      *)
THEOREM ConnectionWorkerQuiet == Spec => [](~SlowSetup => WorkerQuietAfterRemove)
<1>1. LifeInv => WorkerQuietAfterRemove
  BY Zenon DEF LifeInv, WorkerQuietAfterRemove
<1> QED BY <1>1, ConnectionLife, PTL

-----------------------------------------------------------------------------
(* What a step changes of the outages, the events and the frames. *)
BusyAt == {"count", "discard", "queue", "a_queue", "a_store"}

RxSame == pc'["rx"] \in {"deliver", "data", "flush"} \/ pc["rx"] \in {"deliver", "data", "flush"}
            => pc'["rx"] = pc["rx"]

(* Nothing. *)
Still ==
  /\ UNCHANGED <<disconnects, reconnects, connected, pending, events, shown, partial, frame,
                 discard_requested>>
  /\ \A t \in Threads : pc'[t] \in BusyAt \/ pc[t] \in BusyAt => pc'[t] = pc[t] /\ n'[t] = n[t]
  /\ RxSame

(* One thread does what concerns them. *)
Outages(t) ==
  \/ Exchange(t) /\ connected
  \/ Count(t) \/ Discard(t) \/ QueueDisconnected(t)
  \/ AttemptReplayed(t) \/ AttemptQueues(t) \/ AttemptStores(t)

Frames == Push \/ Data \/ DataPush \/ Tick \/ Swap \/ DeliverEvent \/ TickConsume \/ TickFlush

(* The variables of a thread other than the one that moves. *)
LEMMA StillBy ==
  ASSUME PcOK, n \in [Threads -> Nat], NEW t \in Threads, NEW l, Goto(t, l),
         UNCHANGED <<disconnects, reconnects, connected, pending, events, shown, partial, frame,
                     discard_requested>>,
         UNCHANGED n \/ (\E k : n' = [n EXCEPT ![t] = k]),
         pc[t] \notin BusyAt, l \notin BusyAt,
         t = "rx" => pc[t] \notin {"deliver", "data", "flush"} /\ l \notin {"deliver", "data", "flush"}
  PROVE  Still
<1>1. \A s \in Threads : s # t => pc'[s] = pc[s] /\ n'[s] = n[s]
  BY Zenon DEF Goto, PcOK
<1>2. pc'[t] = l
  BY Zenon DEF Goto, PcOK
<1>3. RxSame
  <2>1. CASE t = "rx"
    BY <1>2, <2>1, Zenon DEF RxSame
  <2>2. CASE t # "rx"
    BY <1>1, <2>2, Roles, Zenon DEF RxSame
  <2> QED BY <2>1, <2>2, Zenon
<1> QED BY <1>1, <1>2, <1>3, Zenon DEF Still

LEMMA DeclareKinds ==
  ASSUME LockInv, n \in [Threads -> Nat], NEW t \in Users \cup {"rx"}, Declare(t)
  PROVE  Still \/ Outages(t)
<1>1. t \in Threads
  BY Roles, Zenon
<1>2. CASE Exchange(t) /\ ~connected
  <2>1. AfterDeclare(t) /\ pc[t] = "exchange"
    BY <1>2, Zenon DEF Exchange
  <2>2. UNCHANGED <<disconnects, reconnects, connected, pending, events, shown, partial, frame,
                    discard_requested>>
    BY <1>2, Zenon DEF Exchange, rxVars
  <2> QED BY <1>1, <2>1, <2>2, StillBy, Zenon DEF AfterDeclare, LockInv, BusyAt
<1>3. CASE NotifyDisconnected(t)
  <2>1. AfterDeclare(t) /\ pc[t] = "notify"
    BY <1>3, Zenon DEF NotifyDisconnected
  <2>2. UNCHANGED <<disconnects, reconnects, connected, pending, events, shown, partial, frame,
                    discard_requested>>
    BY <1>3, Zenon DEF NotifyDisconnected, stateVars, rxVars
  <2> QED BY <1>1, <2>1, <2>2, StillBy, Zenon DEF AfterDeclare, LockInv, BusyAt
<1> QED BY <1>2, <1>3, Zenon DEF Declare, Outages

LEMMA AttemptKinds ==
  ASSUME LockInv, n \in [Threads -> Nat], NEW t \in Users \cup {"worker"}, Attempt(t)
  PROVE  Still \/ Outages(t)
<1>1. t \in Threads /\ t # "rx"
  BY Roles, Zenon
<1>2. CASE AttemptLock(t) \/ AttemptConnects(t) \/ AttemptSwaps(t)
  <2>1. \E l \in {"a_check", "a_swap", "a_replay"} : Goto(t, l)
    BY <1>2, Zenon DEF AttemptLock, AttemptConnects, AttemptSwaps
  <2>2. /\ UNCHANGED <<n, disconnects, reconnects, connected, pending, events, shown, partial,
                       frame, discard_requested>>
        /\ pc[t] \in {"a_lock", "a_connect", "a_swap"}
    BY <1>2, Zenon DEF AttemptLock, AttemptConnects, AttemptSwaps, stateVars, rxVars
  <2> QED BY <1>1, <2>1, <2>2, StillBy, Zenon DEF LockInv, BusyAt
<1>3. CASE AttemptCheck(t)
  <2>1. \E l \in {"relock", "idle", "a_connect"} : Goto(t, l)
    BY <1>3, Zenon DEF AttemptCheck, AttemptEnds
  <2>2. \E k : n' = [n EXCEPT ![t] = k]
    BY <1>3, Zenon DEF AttemptCheck, AttemptEnds
  <2>3. /\ UNCHANGED <<disconnects, reconnects, connected, pending, events, shown, partial,
                       frame, discard_requested>>
        /\ pc[t] = "a_check"
    BY <1>3, Zenon DEF AttemptCheck, rxVars
  <2> QED BY <1>1, <2>1, <2>2, <2>3, StillBy, Zenon DEF LockInv, BusyAt
<1>4. CASE AttemptFails(t) \/ AttemptNotifies(t)
  <2>1. \E b : AttemptEnds(t, b)
    BY <1>4, Zenon DEF AttemptFails, AttemptNotifies
  <2>2. (\E l \in {"relock", "idle"} : Goto(t, l)) /\ \E k : n' = [n EXCEPT ![t] = k]
    BY <2>1, Zenon DEF AttemptEnds
  <2>3. /\ UNCHANGED <<disconnects, reconnects, connected, pending, events, shown, partial,
                       frame, discard_requested>>
        /\ pc[t] \in {"a_connect", "a_replay", "a_notify"}
    BY <1>4, Zenon DEF AttemptFails, AttemptNotifies, stateVars, rxVars
  <2> QED BY <1>1, <2>2, <2>3, StillBy, Zenon DEF LockInv, BusyAt
<1> QED BY <1>2, <1>3, <1>4, Zenon DEF Attempt, Outages

(* The steps of the other kinds leave all this alone. *)
LEMMA StepKinds ==
  ASSUME LockInv, n \in [Threads -> Nat], [Next]_vars
  PROVE  Still \/ Frames \/ \E t \in Threads : Outages(t)
<1>1. CASE Open \/ Owner \/ Destroy
  <2>1. \E l \in OwnerAt : Goto("owner", l)
    BY <1>1, Zenon DEF Open, Owner, Destroy, OpenSucceeds, OpenFails, DestroyNotify, DestroyTake,
       DestroyJoin, DestroyRemove, Free, OwnerStep, OwnerAt
  <2>2. UNCHANGED <<n, disconnects, reconnects, connected, pending, events, shown, partial,
                    frame, discard_requested>>
    BY <1>1, Zenon DEF Open, Owner, Destroy, OpenSucceeds, OpenFails, DestroyNotify, DestroyTake,
       DestroyJoin, DestroyRemove, Free, stateVars, rxVars
  <2>3. pc["owner"] \in OwnerAt
    BY AtOf, Roles, Zenon DEF LockInv, PcOK
  <2> QED BY <2>1, <2>2, <2>3, Roles, StillBy, Zenon DEF LockInv, BusyAt, OwnerAt
<1>2. CASE Receive
  <2>1. Declare("rx") \/ Frames
    BY <1>2, Zenon DEF Receive, RunTick, Frames
  <2> QED BY <2>1, DeclareKinds, Roles, Zenon
<1>3. CASE Worker /\ ~Attempt("worker")
  <2>1. \E l \in WorkerAt \ AttemptAt : Goto("worker", l)
    BY <1>3, Zenon DEF Worker, WorkerLock, WorkerTop, WorkerEval, WorkerBlock, WorkerWake,
       WorkerWoke, WorkerTry, WorkerSleep, WorkerStep, WorkerAt, AttemptAt
  <2>2. UNCHANGED <<n, disconnects, reconnects, connected, pending, events, shown, partial,
                    frame, discard_requested>>
    BY <1>3, Zenon DEF Worker, WorkerLock, WorkerTop, WorkerEval, WorkerBlock, WorkerWake,
       WorkerWoke, WorkerTry, WorkerSleep, WorkerStep, stateVars, rxVars
  <2>3. pc["worker"] \notin BusyAt
    BY <1>3, Zenon DEF Worker, WorkerLock, WorkerTop, WorkerEval, WorkerBlock, WorkerWake,
       WorkerWoke, WorkerTry, WorkerSleep, BusyAt
  <2> QED BY <2>1, <2>2, <2>3, Roles, StillBy, Zenon DEF LockInv, BusyAt, WorkerAt, AttemptAt
<1>4. CASE Attempt("worker")
  BY <1>4, AttemptKinds, Roles, Zenon
<1>5. ASSUME NEW u \in Users, UserCalls(u) \/ UserRuns(u)
      PROVE  Still \/ Outages(u)
  <2>1. CASE Declare(u)
    BY <2>1, DeclareKinds, Zenon
  <2>2. CASE Attempt(u)
    BY <2>2, AttemptKinds, Zenon
  <2>3. CASE ~Declare(u) /\ ~Attempt(u)
    <3>1. \E l \in {"c_lock", "request", "idle", "exchange", "a_lock"} : Goto(u, l)
      BY <1>5, <2>3, Zenon DEF UserCalls, UserRuns, Command, Disconnect, Reconnect, CommandLock,
         CommandDone, CommandTimeout, UserStep
    <3>2. UNCHANGED <<n, disconnects, reconnects, connected, pending, events, shown, partial,
                      frame, discard_requested>>
      BY <1>5, <2>3, Zenon DEF UserCalls, UserRuns, Command, Disconnect, Reconnect, CommandLock,
         CommandDone, CommandTimeout, UserStep, stateVars, rxVars
    <3>3. pc[u] \in {"idle", "c_lock", "request"}
      BY <1>5, <2>3, Zenon DEF UserCalls, UserRuns, Command, Disconnect, Reconnect, CommandLock,
         CommandDone, CommandTimeout, Call
    <3> QED BY <3>1, <3>2, <3>3, Roles, StillBy, Zenon DEF LockInv, BusyAt
  <2> QED BY <2>1, <2>2, <2>3, Zenon
<1>6. CASE WorkerSpurious \/ Age \/ Gone \/ UNCHANGED vars
  <2>1. UNCHANGED <<pc, n, disconnects, reconnects, connected, pending, events, shown, partial,
                    frame, discard_requested>>
    BY <1>6, Zenon DEF WorkerSpurious, Age, Gone, vars, flowVars, stateVars, rxVars
  <2> QED BY <2>1, Zenon DEF Still, RxSame
<1> QED BY <1>1, <1>2, <1>3, <1>4, <1>5, <1>6, Roles, Zenon DEF Next, Worker

-----------------------------------------------------------------------------
(* The number of outages declared. *)
Counting == {t \in Threads : pc[t] = "count"}

INSTANCE FiniteSetTheorems

LEMMA ThreadsFinite == IsFiniteSet(Threads)
<1>1. IsFiniteSet({"owner"} \cup {"rx"} \cup {"worker"})
  BY FS_Singleton, FS_AddElement, Zenon
<1>2. IsFiniteSet(({"owner"} \cup {"rx"} \cup {"worker"}) \cup Users)
  BY <1>1, ConnectionAssumption, FS_Union, Zenon
<1>3. ({"owner"} \cup {"rx"} \cup {"worker"}) \cup Users = Threads
  BY Zenon DEF Threads
<1> QED BY <1>2, <1>3, Zenon

LEMMA CountingFinite == IsFiniteSet(Counting) /\ Cardinality(Counting) \in Nat
<1>1. Counting \in SUBSET Threads
  BY Zenon DEF Counting
<1> QED BY <1>1, ThreadsFinite, FS_Subset, FS_CardinalityType, Zenon

LEMMA DeclaredType ==
  ASSUME disconnects \in Nat
  PROVE  Declared \in Nat
  BY CountingFinite DEF Declared, Counting

(* A step that leaves the compare-exchange and the counter alone. *)
LEMMA DeclaredKept ==
  ASSUME UNCHANGED disconnects,
         \A t \in Threads : pc'[t] = "count" <=> pc[t] = "count"
  PROVE  UNCHANGED Declared
<1>1. {t \in Threads : pc'[t] = "count"} = {t \in Threads : pc[t] = "count"}
  BY Zenon
<1> QED BY <1>1, Zenon DEF Declared

(* The compare-exchange declares one more, counting it changes nothing. *)
LEMMA DeclaredSteps ==
  ASSUME PcOK, disconnects \in Nat, NEW t \in Threads
  PROVE  /\ Exchange(t) /\ connected => Declared' = Declared + 1
         /\ Count(t) => UNCHANGED Declared
<1>1. ASSUME Exchange(t), connected
      PROVE  Declared' = Declared + 1
  <2>1. Goto(t, "count") /\ pc[t] # "count" /\ UNCHANGED disconnects
    BY <1>1, Zenon DEF Exchange
  <2>2. Counting' = Counting \cup {t} /\ t \notin Counting
    BY <2>1, Zenon DEF Counting, Goto, PcOK
  <2>3. Cardinality(Counting') = Cardinality(Counting) + 1
    BY <2>2, CountingFinite, FS_AddElement, Zenon
  <2>4. Cardinality(Counting) \in Nat
    BY CountingFinite, Zenon
  <2>5. Declared = disconnects + Cardinality(Counting)
        /\ Declared' = disconnects' + Cardinality(Counting')
    BY Zenon DEF Declared, Counting
  <2> QED BY <2>1, <2>3, <2>4, <2>5
<1>2. ASSUME Count(t)
      PROVE  UNCHANGED Declared
  <2>1. Goto(t, "discard") /\ pc[t] = "count" /\ disconnects' = disconnects + 1
    BY <1>2, Zenon DEF Count
  <2>2. Counting' = Counting \ {t} /\ t \in Counting
    BY <2>1, Zenon DEF Counting, Goto, PcOK
  <2>3. Cardinality(Counting') = Cardinality(Counting) - 1
    BY <2>2, CountingFinite, FS_RemoveElement, Zenon
  <2>4. Cardinality(Counting) \in Nat
    BY CountingFinite
  <2>5. Declared = disconnects + Cardinality(Counting)
        /\ Declared' = disconnects' + Cardinality(Counting')
    BY DEF Declared, Counting
  <2> QED BY <2>1, <2>3, <2>4, <2>5
<1> QED BY <1>1, <1>2, Zenon

-----------------------------------------------------------------------------
(* The counters are numbers. *)
NumOK == n \in [Threads -> Nat] /\ disconnects \in Nat /\ reconnects \in Nat /\ attempts \in Nat

LEMMA ConnectionNumbers == Spec => []NumOK
<1>1. Init => NumOK
  BY DEF Init, NumOK
<1>2. LockInv /\ NumOK /\ [Next]_vars => NumOK'
  <2> SUFFICES ASSUME LockInv, NumOK, [Next]_vars
               PROVE  NumOK'
    BY Zenon
  <2>1. Declared \in Nat
    BY DeclaredType, Zenon DEF NumOK
  <2>2. ASSUME NEW t \in Threads, NEW k \in Nat, UNCHANGED n \/ n' = [n EXCEPT ![t] = k],
               disconnects' \in {disconnects, disconnects + 1},
               reconnects' \in {reconnects, reconnects + 1},
               attempts' \in {attempts, attempts + 1, 0}
        PROVE  NumOK'
    BY <2>2 DEF NumOK
  <2>3. ASSUME NEW t \in Users \cup {"rx"}, Declare(t)
        PROVE  NumOK'
    <3>1. \E k \in {0, Declared + 1} : UNCHANGED n \/ n' = [n EXCEPT ![t] = k]
      BY <2>3, Zenon DEF Declare, Exchange, Count, Discard, QueueDisconnected, NotifyDisconnected,
         AfterDeclare
    <3>2. /\ disconnects' \in {disconnects, disconnects + 1} /\ UNCHANGED reconnects
          /\ attempts' \in {attempts, 0}
      BY <2>3, Zenon DEF Declare, Exchange, Count, Discard, QueueDisconnected, NotifyDisconnected,
         stateVars
    <3> QED BY <2>1, <2>2, <3>1, <3>2, Roles
  <2>4. ASSUME NEW t \in Users \cup {"worker"}, Attempt(t)
        PROVE  NumOK'
    <3>1. attempts' \in {attempts, attempts + 1}
      BY <2>4, Zenon DEF Attempt, AttemptLock, AttemptCheck, AttemptFails, AttemptConnects,
         AttemptSwaps, AttemptReplayed, AttemptQueues, AttemptStores, AttemptNotifies, stateVars
    <3>2. \E k \in {0, attempts'} : UNCHANGED n \/ n' = [n EXCEPT ![t] = k]
      BY <2>4, Zenon DEF Attempt, AttemptLock, AttemptCheck, AttemptFails, AttemptConnects,
         AttemptSwaps, AttemptReplayed, AttemptQueues, AttemptStores, AttemptNotifies, AttemptEnds
    <3>3. UNCHANGED disconnects /\ reconnects' \in {reconnects, reconnects + 1}
      BY <2>4, Zenon DEF Attempt, AttemptLock, AttemptCheck, AttemptFails, AttemptConnects,
         AttemptSwaps, AttemptReplayed, AttemptQueues, AttemptStores, AttemptNotifies, stateVars
    <3>4. attempts' \in Nat
      BY <3>1 DEF NumOK
    <3> QED BY <2>2, <3>1, <3>2, <3>3, <3>4, Roles, Zenon
  <2>5. ASSUME UNCHANGED <<n, disconnects, reconnects, attempts>>
        PROVE  NumOK'
    BY <2>5, Zenon DEF NumOK
  <2>6. CASE Open \/ Owner \/ Destroy
    <3>1. UNCHANGED <<n, disconnects, reconnects, attempts>>
      BY <2>6, Zenon DEF Open, Owner, Destroy, OpenSucceeds, OpenFails, DestroyNotify, DestroyTake,
         DestroyJoin, DestroyRemove, Free, stateVars
    <3> QED BY <2>5, <3>1, Zenon
  <2>7. CASE Receive /\ ~Declare("rx")
    <3>1. UNCHANGED <<n, disconnects, reconnects, attempts>>
      BY <2>7, Zenon DEF Receive, RunTick, Push, Data, DataPush, Tick, Swap, DeliverEvent, TickConsume,
         TickFlush, RxStep
    <3> QED BY <2>5, <3>1, Zenon
  <2>8. CASE Worker /\ ~Attempt("worker")
    <3>1. UNCHANGED <<n, disconnects, reconnects, attempts>>
      BY <2>8, Zenon DEF Worker, WorkerLock, WorkerTop, WorkerEval, WorkerBlock, WorkerWake,
         WorkerWoke, WorkerTry, WorkerSleep, WorkerStep, stateVars
    <3> QED BY <2>5, <3>1
  <2>9. ASSUME NEW u \in Users, UserCalls(u) \/ UserRuns(u), ~Declare(u), ~Attempt(u)
        PROVE  NumOK'
    <3>1. UNCHANGED <<n, disconnects, reconnects, attempts>>
      BY <2>9, Zenon DEF UserCalls, UserRuns, Command, Disconnect, Reconnect, CommandLock,
         CommandDone, CommandTimeout, UserStep, stateVars
    <3> QED BY <2>5, <3>1, Zenon
  <2>10. CASE WorkerSpurious \/ Age \/ Gone \/ UNCHANGED vars
    <3>1. UNCHANGED <<n, disconnects, reconnects, attempts>>
      BY <2>10, Zenon DEF WorkerSpurious, Age, Gone, vars, flowVars, stateVars
    <3> QED BY <2>5, <3>1
  <2> QED BY <2>3, <2>4, <2>6, <2>7, <2>8, <2>9, <2>10, Roles, Zenon DEF Next
<1> QED BY <1>1, <1>2, ConnectionLocks, PTL DEF Spec

(* The numbers of outages that events, callbacks and frames carry. *)
DataOK ==
  /\ pending \in Seq(Event) /\ events \in Seq(Event)
  /\ shown.outages \in SUBSET Nat /\ partial \in SUBSET Nat
  /\ frame.points \in SUBSET Nat /\ frame.shown \in SUBSET Nat

(* The outage `k` may be told: it was declared, and its partial frame is gone or will be. *)
MayTell(k, declared, discard, points) == k <= declared /\ (discard \/ \A o \in points : o >= k)
Tellable(k) == MayTell(k, Declared, discard_requested, partial)

StaleInv ==
  /\ DataOK
  /\ \A t \in Threads : pc[t] \in {"count", "discard"} => n[t] <= Declared
  /\ \A t \in Threads : pc[t] = "queue" => Tellable(n[t])
  /\ \A i \in DOMAIN pending : pending[i].kind = "disconnected" => Tellable(pending[i].n)
  /\ \A i \in DOMAIN events : events[i].kind = "disconnected" => Tellable(events[i].n)
  /\ \A k \in shown.outages : Tellable(k)
  /\ pc["rx"] \in {"data", "flush"} => \A k \in shown.outages, o \in partial : o >= k
  /\ NoStaleFrame

(* The number of declared outages never falls. *)
LEMMA OutagesDeclared ==
  ASSUME LockInv, NumOK, NEW t \in Threads, Outages(t)
  PROVE  /\ Declared \in Nat
         /\ Declared' = IF Exchange(t) /\ connected THEN Declared + 1 ELSE Declared
<1>1. Declared \in Nat
  BY DeclaredType, Zenon DEF NumOK
<1>2. CASE Exchange(t) /\ connected
  BY <1>1, <1>2, DeclaredSteps, Zenon DEF LockInv, NumOK
<1>3. CASE Count(t)
  <2>1. ~Exchange(t)
    BY <1>3, Zenon DEF Count, Exchange
  <2> QED BY <1>1, <1>3, <2>1, DeclaredSteps, Zenon DEF LockInv, NumOK
<1>4. CASE Discard(t) \/ QueueDisconnected(t) \/ AttemptReplayed(t) \/ AttemptQueues(t)
           \/ AttemptStores(t)
  <2>1. ~Exchange(t) /\ UNCHANGED disconnects
    BY <1>4, Zenon DEF Exchange, Discard, QueueDisconnected, AttemptReplayed, AttemptQueues,
       AttemptStores, stateVars
  <2>2. /\ pc[t] # "count"
        /\ \E l \in {"queue", "notify", "a_queue", "a_store", "a_notify"} :
             \/ Goto(t, l)
             \/ pc' = [pc EXCEPT ![t] = l, !["worker"] = "lock"] /\ ~worker_started
    BY <1>4, Zenon DEF Discard, QueueDisconnected, AttemptReplayed, AttemptQueues, AttemptStores
  <2>3. pc["worker"] # "count"
    BY AtOf, Roles, Zenon DEF LockInv, PcOK, WorkerAt, AttemptAt
  <2>4. \A s \in Threads : pc'[s] = "count" <=> pc[s] = "count"
    BY <2>2, <2>3, Roles, Zenon DEF Goto, LockInv, PcOK
  <2> QED BY <1>1, <2>1, <2>4, DeclaredKept, Zenon
<1> QED BY <1>2, <1>3, <1>4, Zenon DEF Outages

LEMMA FramesDeclared ==
  ASSUME LockInv, NumOK, Frames
  PROVE  /\ Declared \in Nat /\ UNCHANGED <<Declared, n, connected, reconnects, disconnects>>
         /\ \A t \in Threads : t # "rx" => pc'[t] = pc[t]
         /\ pc["rx"] \notin BusyAt /\ pc'["rx"] \notin BusyAt
<1>1. PICK l \in {"idle", "data", "exchange", "swap", "deliver", "flush"} : Goto("rx", l)
  BY Zenon DEF Frames, Push, Data, DataPush, Tick, Swap, DeliverEvent, TickConsume, TickFlush, RxStep
<1>2. UNCHANGED <<n, connected, reconnects, disconnects>> /\ pc["rx"] \notin BusyAt
  BY Zenon DEF Frames, Push, Data, DataPush, Tick, Swap, DeliverEvent, TickConsume, TickFlush, RxStep,
     BusyAt
<1>3. pc'["rx"] = l /\ \A t \in Threads : t # "rx" => pc'[t] = pc[t]
  BY <1>1, Roles, Zenon DEF Goto, LockInv, PcOK
<1>4. \A t \in Threads : pc'[t] = "count" <=> pc[t] = "count"
  BY <1>1, <1>2, <1>3, Zenon DEF BusyAt
<1> QED BY <1>1, <1>2, <1>3, <1>4, DeclaredKept, DeclaredType, Zenon DEF NumOK, BusyAt

LEMMA StillDeclared ==
  ASSUME Still
  PROVE  UNCHANGED Declared
<1>1. \A t \in Threads : pc'[t] = "count" <=> pc[t] = "count"
  BY Zenon DEF Still, BusyAt
<1> QED BY <1>1, DeclaredKept, Zenon DEF Still

(* The outage `k` may be told after the step. *)
TellableNext(k) == MayTell(k, Declared', discard_requested', partial')

(* The queued events carry numbers. *)
LEMMA EventNumbers ==
  ASSUME NEW q \in Seq(Event)
  PROVE  \A i \in DOMAIN q : q[i] \in Event /\ q[i].n \in Nat
<1>1. \A i \in DOMAIN q : q[i] \in Event
  OBVIOUS
<1>2. \A e \in Event : e.n \in Nat
  BY Zenon DEF Event
<1> QED BY <1>1, <1>2, Zenon

(* A later state may tell the same outages. *)
LEMMA TellableKept ==
  ASSUME NEW k \in Nat, Declared \in Nat, Declared' \in Nat, Declared <= Declared',
         Tellable(k),
         \/ discard_requested'
         \/ UNCHANGED <<discard_requested, partial>>
         \/ partial' = {}
         \/ partial' \subseteq partial \cup {Declared} /\ UNCHANGED discard_requested
         \/ partial' = partial /\ ~discard_requested
  PROVE  TellableNext(k)
  BY DEF Tellable, TellableNext, MayTell

LEMMA StillStale ==
  ASSUME StaleInv, Still
  PROVE  StaleInv'
<1>1. UNCHANGED Declared
  BY StillDeclared, Zenon
<1>2. \A k : TellableNext(k) <=> Tellable(k)
  BY <1>1, Zenon DEF Tellable, TellableNext, Still
<1>3. UNCHANGED <<pending, events, shown, partial, frame>>
  BY Zenon DEF Still
<1>4. \A t \in Threads : pc'[t] \in {"count", "discard", "queue"} => pc'[t] = pc[t] /\ n'[t] = n[t]
  BY Zenon DEF Still, BusyAt
<1>5. pc'["rx"] \in {"data", "flush"} => pc'["rx"] = pc["rx"]
  BY Zenon DEF Still, RxSame
<1>6. DataOK'
  BY <1>3, Zenon DEF DataOK, StaleInv
<1> QED BY <1>1, <1>2, <1>3, <1>4, <1>5, <1>6, Zenon DEF StaleInv, NoStaleFrame, Tellable, TellableNext

LEMMA OutagesStale ==
  ASSUME LockInv, NumOK, StaleInv, NEW t \in Threads, Outages(t)
  PROVE  StaleInv'
<1>0. /\ DataOK
      /\ \A s \in Threads : pc[s] \in {"count", "discard"} => n[s] <= Declared
  BY Zenon DEF StaleInv
<1>1. /\ Declared \in Nat /\ Declared' \in Nat /\ Declared <= Declared'
      /\ Declared' = IF Exchange(t) /\ connected THEN Declared + 1 ELSE Declared
  BY OutagesDeclared
<1>2. UNCHANGED <<events, shown, partial, frame>>
  BY Zenon DEF Outages, Exchange, Count, Discard, QueueDisconnected, AttemptReplayed, AttemptQueues,
     AttemptStores, rxVars
<1>3. UNCHANGED discard_requested \/ discard_requested'
  BY Zenon DEF Outages, Exchange, Count, Discard, QueueDisconnected, AttemptReplayed, AttemptQueues,
     AttemptStores, stateVars
<1>4. \A k \in Nat : Tellable(k) => TellableNext(k)
  BY <1>1, <1>2, <1>3, TellableKept, Zenon
<1>5. pc'["rx"] \in {"data", "flush"} => pc'["rx"] = pc["rx"]
  <2>1. \E l \in {"count", "discard", "queue", "notify", "a_queue", "a_store", "a_notify"} :
          Goto(t, l) \/ pc' = [pc EXCEPT ![t] = l, !["worker"] = "lock"]
    BY Zenon DEF Outages, Exchange, Count, Discard, QueueDisconnected, AttemptReplayed, AttemptQueues,
       AttemptStores
  <2> QED BY <2>1, Roles, Zenon DEF Goto, LockInv, PcOK
<1>6. \/ UNCHANGED pending
      \/ pending' = Append(pending, DisconnectedEvent(n[t])) /\ pc[t] = "queue"
      \/ pending' = Append(pending, [kind |-> "reconnected", n |-> reconnects])
  BY Zenon DEF Outages, Exchange, Count, Discard, QueueDisconnected, AttemptReplayed, AttemptQueues,
     AttemptStores
<1>7. DataOK'
  <2>1. DisconnectedEvent(n[t]) \in Event /\ [kind |-> "reconnected", n |-> reconnects] \in Event
    BY Zenon DEF DisconnectedEvent, Event, NumOK
  <2>0. pending \in Seq(Event)
    BY <1>0, Zenon DEF DataOK
  <2>2. pending \in Seq(Event) /\ \A e \in Event : Append(pending, e) \in Seq(Event)
    BY <2>0
  <2>3. pending' \in Seq(Event)
    BY <1>6, <2>1, <2>2, Zenon
  <2> QED BY <1>2, <2>3, Zenon DEF StaleInv, DataOK
<1>8. \A i \in DOMAIN pending' : pending'[i].kind = "disconnected" => TellableNext(pending'[i].n)
  <2>1. \A i \in DOMAIN pending : pending[i].n \in Nat
    BY EventNumbers, Zenon DEF StaleInv, DataOK
  <2>2. CASE UNCHANGED pending
    BY <1>4, <2>1, <2>2, Zenon DEF StaleInv
  <2>3. ASSUME NEW e \in Event, pending' = Append(pending, e),
               e.kind = "disconnected" => Tellable(e.n)
        PROVE  \A i \in DOMAIN pending' :
                 pending'[i].kind = "disconnected" => TellableNext(pending'[i].n)
    <3>1. \A i \in DOMAIN pending' : pending'[i] = e \/ (i \in DOMAIN pending /\ pending'[i] = pending[i])
      BY <1>0, <2>3 DEF DataOK
    <3>2. e.n \in Nat
      BY <2>3, Zenon DEF Event
    <3> QED BY <1>4, <2>1, <2>3, <3>1, <3>2, Zenon DEF StaleInv
  <2>4. CASE pending' = Append(pending, DisconnectedEvent(n[t])) /\ pc[t] = "queue"
    <3>1. DisconnectedEvent(n[t]) \in Event /\ Tellable(DisconnectedEvent(n[t]).n)
      BY <2>4, Zenon DEF DisconnectedEvent, Event, NumOK, StaleInv
    <3> QED BY <2>3, <2>4, <3>1, Zenon
  <2>5. CASE pending' = Append(pending, [kind |-> "reconnected", n |-> reconnects])
    <3>1. [kind |-> "reconnected", n |-> reconnects] \in Event
      BY Zenon DEF Event, NumOK
    <3> QED BY <2>3, <2>5, <3>1, Zenon
  <2> QED BY <1>6, <2>2, <2>4, <2>5, Zenon
<1>9. \A i \in DOMAIN events' : events'[i].kind = "disconnected" => TellableNext(events'[i].n)
  <2>1. \A i \in DOMAIN events : events[i].n \in Nat
    BY EventNumbers, Zenon DEF StaleInv, DataOK
  <2> QED BY <1>2, <1>4, <2>1, Zenon DEF StaleInv
<1>10. \A k \in shown'.outages : TellableNext(k)
  BY <1>2, <1>4, Zenon DEF StaleInv, DataOK
<1>11. /\ \A s \in Threads : pc'[s] \in {"count", "discard"} => n'[s] <= Declared'
       /\ \A s \in Threads : pc'[s] = "queue" => TellableNext(n'[s])
  <2>1. \A s \in Threads : s # t => n'[s] = n[s] /\ (pc'[s] = pc[s] \/ pc'[s] = "lock")
    <3>1. /\ UNCHANGED n \/ n' = [n EXCEPT ![t] = Declared + 1]
          /\ \E l : Goto(t, l) \/ pc' = [pc EXCEPT ![t] = l, !["worker"] = "lock"]
      BY Zenon DEF Outages, Exchange, Count, Discard, QueueDisconnected, AttemptReplayed,
         AttemptQueues, AttemptStores
    <3> QED BY <3>1, Roles, Zenon DEF Goto, LockInv, PcOK, NumOK
  <2>2. \A s \in Threads : n[s] \in Nat
    BY Zenon DEF NumOK
  <2>3. pc'[t] \in {"count", "discard"} => n'[t] <= Declared'
    <3>1. CASE Exchange(t) /\ connected
      <4>1. n' = [n EXCEPT ![t] = Declared + 1] /\ n \in [Threads -> Nat]
        BY <3>1, Zenon DEF Exchange, NumOK
      <4> QED BY <1>1, <3>1, <4>1
    <3>2. CASE Count(t)
      <4>1. n' = n /\ n[t] <= Declared
        BY <1>0, <3>2, Zenon DEF Count
      <4> QED BY <1>1, <2>2, <4>1
    <3>3. CASE ~Exchange(t) /\ ~Count(t)
      <4>1. \E l \in {"queue", "notify", "a_queue", "a_store", "a_notify"} :
              Goto(t, l) \/ pc' = [pc EXCEPT ![t] = l, !["worker"] = "lock"]
        BY <3>3, Zenon DEF Outages, Discard, QueueDisconnected, AttemptReplayed, AttemptQueues,
           AttemptStores
      <4> QED BY <4>1, Roles, Zenon DEF Goto, LockInv, PcOK
    <3>4. Exchange(t) => connected
      <4>1. ~Exchange(t) \/ ~(Count(t) \/ Discard(t) \/ QueueDisconnected(t) \/ AttemptReplayed(t)
              \/ AttemptQueues(t) \/ AttemptStores(t))
        BY Zenon DEF Exchange, Count, Discard, QueueDisconnected, AttemptReplayed, AttemptQueues,
           AttemptStores
      <4> QED BY <4>1, Zenon DEF Outages
    <3> QED BY <3>1, <3>2, <3>3, <3>4, Zenon
  <2>4. pc'[t] = "queue" => TellableNext(n'[t])
    <3>1. CASE Discard(t)
      <4>1. UNCHANGED n /\ discard_requested' /\ n[t] <= Declared /\ n[t] \in Nat
        BY <1>0, <2>2, <3>1, Zenon DEF Discard
      <4>2. n[t] <= Declared'
        BY <1>1, <4>1
      <4> QED BY <4>1, <4>2, Zenon DEF TellableNext, MayTell
    <3>2. CASE ~Discard(t)
      <4>1. \E l \in {"count", "discard", "notify", "a_queue", "a_store", "a_notify"} :
              Goto(t, l) \/ pc' = [pc EXCEPT ![t] = l, !["worker"] = "lock"]
        BY <3>2, Zenon DEF Outages, Exchange, Count, QueueDisconnected, AttemptReplayed,
           AttemptQueues, AttemptStores
      <4> QED BY <4>1, Roles, Zenon DEF Goto, LockInv, PcOK
    <3> QED BY <3>1, <3>2, Zenon
  <2>5. \A s \in Threads : s # t /\ pc'[s] \in {"count", "discard"} => n'[s] <= Declared'
    BY <1>0, <1>1, <2>1, <2>2
  <2>6. \A s \in Threads : s # t /\ pc'[s] = "queue" => TellableNext(n'[s])
    BY <1>4, <2>1, <2>2, Zenon DEF StaleInv
  <2> QED BY <2>3, <2>4, <2>5, <2>6, Zenon
<1>12. /\ pc'["rx"] \in {"data", "flush"} => \A k \in shown'.outages, o \in partial' : o >= k
       /\ NoStaleFrame'
  BY <1>2, <1>5, Zenon DEF StaleInv, NoStaleFrame
<1> QED BY <1>7, <1>8, <1>9, <1>10, <1>11, <1>12, Zenon DEF StaleInv, Tellable, TellableNext

LEMMA FramesStale ==
  ASSUME LockInv, NumOK, StaleInv, Frames
  PROVE  StaleInv'
<1>0. events \in Seq(Event) /\ partial \in SUBSET Nat
  BY Zenon DEF StaleInv, DataOK
<1>1. /\ Declared \in Nat /\ UNCHANGED <<Declared, n>>
      /\ \A t \in Threads : t # "rx" => pc'[t] = pc[t]
      /\ pc["rx"] \notin BusyAt /\ pc'["rx"] \notin BusyAt
  BY FramesDeclared, Zenon
<1>2. \/ UNCHANGED <<discard_requested, partial>>
      \/ partial' = {}
      \/ partial' \subseteq partial \cup {Declared} /\ UNCHANGED discard_requested
      \/ partial' = partial /\ ~discard_requested
  BY Zenon DEF Frames, Push, Data, DataPush, Tick, Swap, DeliverEvent, TickConsume, TickFlush, Consume
<1>3. \A k \in Nat : Tellable(k) => TellableNext(k)
  BY <1>1, <1>2, TellableKept
<1>4. partial' \in SUBSET Nat
  <2>1. Declared \in Nat
    BY <1>1, Zenon
  <2> QED BY <1>0, <1>2, <2>1, Zenon
<1>5. \/ UNCHANGED <<pending, events, shown>>
      \/ Swap
      \/ DeliverEvent
  BY Zenon DEF Frames, Push, Data, DataPush, Tick, TickConsume, TickFlush
<1>6. \/ UNCHANGED frame
      \/ frame' = NoFrame
      \/ pc["rx"] \in {"data", "flush"} /\ frame' = [points |-> partial, shown |-> shown.outages]
  BY Zenon DEF Frames, Push, Data, DataPush, Tick, Swap, DeliverEvent, TickConsume, TickFlush
<1>7. frame'.points \in SUBSET Nat /\ frame'.shown \in SUBSET Nat /\ NoStaleFrame'
  <2>1. CASE UNCHANGED frame
    BY <2>1, Zenon DEF StaleInv, DataOK, NoStaleFrame
  <2>2. CASE frame' = NoFrame
    BY <2>2, Zenon DEF NoFrame, NoStaleFrame
  <2>3. CASE pc["rx"] \in {"data", "flush"} /\ frame' = [points |-> partial, shown |-> shown.outages]
    BY <2>3, Zenon DEF StaleInv, DataOK, NoStaleFrame
  <2> QED BY <1>6, <2>1, <2>2, <2>3, Zenon
<1>8. /\ \A t \in Threads : pc'[t] \in {"count", "discard"} => n'[t] <= Declared'
      /\ \A t \in Threads : pc'[t] = "queue" => TellableNext(n'[t])
  <2>1. \A t \in Threads : n[t] \in Nat
    BY Zenon DEF NumOK
  <2>2. \A t \in Threads : pc'[t] \in {"count", "discard", "queue"} => pc'[t] = pc[t]
    BY <1>1, Zenon DEF BusyAt
  <2> QED BY <1>1, <1>3, <2>1, <2>2, Zenon DEF StaleInv
<1>9. /\ pending' \in Seq(Event) /\ events' \in Seq(Event) /\ shown'.outages \in SUBSET Nat
      /\ \A i \in DOMAIN pending' : pending'[i].kind = "disconnected" => TellableNext(pending'[i].n)
      /\ \A i \in DOMAIN events' : events'[i].kind = "disconnected" => TellableNext(events'[i].n)
      /\ \A k \in shown'.outages : TellableNext(k)
  <2>1. /\ \A i \in DOMAIN pending : pending[i].n \in Nat
        /\ \A i \in DOMAIN events : events[i].n \in Nat
    BY EventNumbers, Zenon DEF StaleInv, DataOK
  <2>2. CASE UNCHANGED <<pending, events, shown>>
    BY <1>3, <2>1, <2>2, Zenon DEF StaleInv, DataOK
  <2>3. CASE Swap
    <3>1. events' = pending /\ pending' = <<>> /\ UNCHANGED shown
      BY <2>3, Zenon DEF Swap
    <3> QED BY <1>3, <2>1, <3>1 DEF StaleInv, DataOK
  <2>4. CASE DeliverEvent
    <3>1. /\ events # <<>> /\ events' = Tail(events) /\ UNCHANGED pending
          /\ shown'.outages = IF Head(events).kind = "disconnected"
                              THEN shown.outages \cup {Head(events).n} ELSE shown.outages
      BY <2>4, Zenon DEF DeliverEvent
    <3>2. events' \in Seq(Event) /\ \A i \in DOMAIN events' : i + 1 \in DOMAIN events /\ events'[i] = events[i + 1]
      BY <1>0, <3>1
    <3>3. 1 \in DOMAIN events /\ Head(events) = events[1]
      BY <1>0, <3>1
    <3>4. \A i \in DOMAIN events' : events'[i].kind = "disconnected" => TellableNext(events'[i].n)
      BY <1>3, <2>1, <3>2, Zenon DEF StaleInv
    <3>5. shown'.outages \in SUBSET Nat /\ \A k \in shown'.outages : TellableNext(k)
      BY <1>3, <2>1, <3>1, <3>3, Zenon DEF StaleInv, DataOK
    <3> QED BY <1>3, <2>1, <3>1, <3>2, <3>4, <3>5, Zenon DEF StaleInv, DataOK
  <2> QED BY <1>5, <2>2, <2>3, <2>4, Zenon
<1>10. pc'["rx"] \in {"data", "flush"} => \A k \in shown'.outages, o \in partial' : o >= k
  <2>1. CASE Data \/ TickConsume
    <3>1. UNCHANGED shown /\ Consume
      BY <2>1, Zenon DEF Data, TickConsume
    <3> QED BY <3>1, Zenon DEF Consume, StaleInv, Tellable, MayTell
  <2>2. CASE ~Data /\ ~TickConsume
    <3>1. \E l \in {"idle", "exchange", "swap", "deliver"} : Goto("rx", l)
      BY <2>2, Zenon DEF Frames, Push, DataPush, Tick, Swap, DeliverEvent, TickFlush, RxStep
    <3> QED BY <3>1, Roles, Zenon DEF Goto, LockInv, PcOK
  <2> QED BY <2>1, <2>2, Zenon
<1> QED BY <1>4, <1>7, <1>8, <1>9, <1>10, Zenon DEF StaleInv, DataOK, Tellable, TellableNext

LEMMA ConnectionStale == Spec => []StaleInv
<1>1. Init => StaleInv
  <2> SUFFICES ASSUME Init PROVE StaleInv
    OBVIOUS
  <2>1. \A t \in Threads : pc[t] \notin {"count", "discard", "queue", "data", "flush"}
    BY Roles, Zenon DEF Init
  <2>2. /\ pending = <<>> /\ events = <<>> /\ shown.outages = {} /\ partial = {}
        /\ frame.points = {} /\ frame.shown = {}
    BY Zenon DEF Init, NoFrame
  <2>3. pending \in Seq(Event) /\ events \in Seq(Event) /\ DOMAIN pending = {} /\ DOMAIN events = {}
    BY <2>2
  <2> QED BY <2>1, <2>2, <2>3, Roles, Zenon DEF StaleInv, DataOK, NoStaleFrame
<1>2. LockInv /\ NumOK /\ StaleInv /\ [Next]_vars => StaleInv'
  <2> SUFFICES ASSUME LockInv, NumOK, StaleInv, [Next]_vars
               PROVE  StaleInv'
    BY Zenon
  <2>1. Still \/ Frames \/ \E t \in Threads : Outages(t)
    BY StepKinds, Zenon DEF NumOK
  <2> QED BY <2>1, StillStale, FramesStale, OutagesStale, Zenon
<1> QED BY <1>1, <1>2, ConnectionLocks, ConnectionNumbers, PTL DEF Spec

(* NoStaleFrame: a frame delivered after the kDisconnected of an outage holds no point    *)
(* from before it: the discard is requested (device.cpp:868) before the event is queued,   *)
(* and consume_requests() (line 770) comes before every push and flush.                    *)
THEOREM ConnectionNoStaleFrame == Spec => []NoStaleFrame
<1>1. StaleInv => NoStaleFrame
  BY Zenon DEF StaleInv
<1> QED BY <1>1, ConnectionStale, PTL

-----------------------------------------------------------------------------
(* Each outage is declared once: outages and reconnects alternate. *)

(* An attempt that found the Device disconnected. *)
DownAt == {"a_connect", "a_swap", "a_replay", "a_queue", "a_store"}

(* It stays so until the attempt, which holds cmd_mutex, ends; and the worker is not born *)
(* before worker_started is set.                                                           *)
DownInv ==
  /\ \A t \in Threads : pc[t] \in DownAt => ~connected
  /\ ~worker_started => pc["worker"] = "unborn"

DownStep ==
  /\ \A s \in Threads : pc'[s] \in DownAt => pc[s] \in DownAt \/ (~connected /\ UNCHANGED connected)
  /\ worker_started => worker_started'
  /\ pc["worker"] = "unborn" => pc'["worker"] = "unborn" \/ worker_started'

(* A thread other than the worker moves, and not into an attempt. *)
LEMMA DownBy ==
  ASSUME PcOK, NEW t \in Threads, NEW l, Goto(t, l), UNCHANGED worker_started,
         l \in DownAt => pc[t] \in DownAt \/ (~connected /\ UNCHANGED connected),
         t = "worker" => pc[t] # "unborn"
  PROVE  DownStep
<1>1. pc'[t] = l /\ \A s \in Threads : s # t => pc'[s] = pc[s]
  BY Zenon DEF Goto, PcOK
<1> QED BY <1>1, Roles, Zenon DEF DownStep

LEMMA DeclareDown ==
  ASSUME LockInv, NEW t \in Users \cup {"rx"}, Declare(t)
  PROVE  DownStep
<1>1. t \in Threads /\ t # "worker"
  BY Roles, Zenon
<1>2. \/ /\ UNCHANGED worker_started
         /\ \E l \in {"swap", "idle", "count", "discard", "queue", "notify"} : Goto(t, l)
      \/ worker_started' /\ pc' = [pc EXCEPT ![t] = "notify", !["worker"] = "lock"]
  BY Zenon DEF Declare, Exchange, Count, Discard, QueueDisconnected, NotifyDisconnected, AfterDeclare,
     lifeVars
<1>3. CASE worker_started' /\ pc' = [pc EXCEPT ![t] = "notify", !["worker"] = "lock"]
  <2>1. \A s \in Threads : pc'[s] \in {"notify", "lock", pc[s]}
    BY <1>1, <1>3, Roles, Zenon DEF LockInv, PcOK
  <2> QED BY <1>3, <2>1, Roles, Zenon DEF DownStep, DownAt
<1> QED BY <1>1, <1>2, <1>3, DownBy, Zenon DEF LockInv, DownAt

LEMMA AttemptDown ==
  ASSUME LockInv, NEW t \in Users \cup {"worker"}, Attempt(t)
  PROVE  DownStep
<1>1. t \in Threads
  BY Roles, Zenon
<1>2. UNCHANGED worker_started /\ pc[t] # "unborn"
  BY Zenon DEF Attempt, AttemptLock, AttemptCheck, AttemptFails, AttemptConnects, AttemptSwaps,
     AttemptReplayed, AttemptQueues, AttemptStores, AttemptNotifies, lifeVars
<1>3. CASE AttemptCheck(t)
  <2>1. \E l \in {"relock", "idle", "a_connect"} :
          Goto(t, l) /\ (l = "a_connect" => ~connected /\ UNCHANGED connected)
    BY <1>3, Zenon DEF AttemptCheck, AttemptEnds
  <2> QED BY <1>1, <1>2, <2>1, DownBy, Zenon DEF LockInv, DownAt
<1>4. CASE ~AttemptCheck(t)
  <2>1. \E l \in {"a_check", "relock", "idle", "a_swap", "a_replay", "a_queue", "a_store",
                  "a_notify"} :
          Goto(t, l) /\ (l \in DownAt => pc[t] \in DownAt)
    BY <1>4, Zenon DEF Attempt, AttemptLock, AttemptFails, AttemptConnects, AttemptSwaps,
       AttemptReplayed, AttemptQueues, AttemptStores, AttemptNotifies, AttemptEnds, DownAt
  <2> QED BY <1>1, <1>2, <2>1, DownBy, Zenon DEF LockInv
<1> QED BY <1>3, <1>4, Zenon

LEMMA DownSteps ==
  ASSUME LockInv, [Next]_vars
  PROVE  DownStep
<1>1. CASE Open \/ Owner \/ Destroy
  <2>1. UNCHANGED worker_started /\ \E l \in OwnerAt : Goto("owner", l)
    BY <1>1, Zenon DEF Open, Owner, Destroy, OpenSucceeds, OpenFails, DestroyNotify, DestroyTake,
       DestroyJoin, DestroyRemove, Free, OwnerStep, OwnerAt, lifeVars
  <2> QED BY <2>1, Roles, DownBy, Zenon DEF LockInv, DownAt, OwnerAt
<1>2. CASE Declare("rx")
  BY <1>2, DeclareDown, Zenon
<1>3. CASE Frames
  <2>1. UNCHANGED worker_started
        /\ \E l \in {"idle", "data", "exchange", "swap", "deliver", "flush"} : Goto("rx", l)
    BY <1>3, Zenon DEF Frames, Push, Data, DataPush, Tick, Swap, DeliverEvent, TickConsume, TickFlush,
       RxStep, lifeVars
  <2> QED BY <2>1, Roles, DownBy, Zenon DEF LockInv, DownAt
<1>4. CASE Worker /\ ~Attempt("worker")
  <2>1. UNCHANGED worker_started /\ pc["worker"] # "unborn"
        /\ \E l \in WorkerAt \ AttemptAt : Goto("worker", l)
    BY <1>4, Zenon DEF Worker, WorkerLock, WorkerTop, WorkerEval, WorkerBlock, WorkerWake,
       WorkerWoke, WorkerTry, WorkerSleep, WorkerStep, WorkerAt, AttemptAt, lifeVars
  <2> QED BY <2>1, Roles, DownBy, Zenon DEF LockInv, DownAt, AttemptAt
<1>5. CASE Attempt("worker")
  BY <1>5, AttemptDown, Zenon
<1>6. ASSUME NEW u \in Users, UserCalls(u) \/ UserRuns(u)
      PROVE  DownStep
  <2>1. CASE Declare(u)
    BY <2>1, DeclareDown, Zenon
  <2>2. CASE Attempt(u)
    BY <2>2, AttemptDown, Zenon
  <2>3. CASE ~Declare(u) /\ ~Attempt(u)
    <3>1. UNCHANGED worker_started
          /\ \E l \in {"c_lock", "request", "idle", "exchange", "a_lock"} : Goto(u, l)
      BY <1>6, <2>3, Zenon DEF UserCalls, UserRuns, Command, Disconnect, Reconnect, CommandLock,
         CommandDone, CommandTimeout, UserStep, lifeVars
    <3> QED BY <3>1, Roles, DownBy, Zenon DEF LockInv, DownAt
  <2> QED BY <2>1, <2>2, <2>3, Zenon
<1>7. CASE WorkerSpurious \/ Age \/ Gone \/ UNCHANGED vars
  <2>1. UNCHANGED <<pc, worker_started>>
    BY <1>7, Zenon DEF WorkerSpurious, Age, Gone, vars, flowVars, lifeVars
  <2> QED BY <2>1, Zenon DEF DownStep
<1>8. Receive => Declare("rx") \/ Frames
  BY Zenon DEF Receive, RunTick, Frames
<1> QED BY <1>1, <1>2, <1>3, <1>4, <1>5, <1>6, <1>7, <1>8, Zenon DEF Next, Worker

LEMMA ConnectionDown == Spec => []DownInv
<1>1. Init => DownInv
  BY Roles, Zenon DEF Init, DownInv, DownAt
<1>2. LockInv /\ NumOK /\ DownInv /\ [Next]_vars => DownInv'
  <2> SUFFICES ASSUME LockInv, NumOK, DownInv, [Next]_vars
               PROVE  DownInv'
    BY Zenon
  <2>1. DownStep
    BY DownSteps, Zenon
  <2>2. CASE \E t \in Threads : AttemptStores(t)
    <3>1. PICK t \in Threads : AttemptStores(t)
      BY <2>2, Zenon
    <3>2. pc[t] = "a_store" /\ pc'[t] = "a_notify" /\ \A s \in Threads : s # t => pc'[s] = pc[s]
      BY <3>1, Zenon DEF AttemptStores, Goto, LockInv, PcOK
    <3>3. \A s \in Threads : s # t => pc[s] \notin DownAt
      BY <3>2, Zenon DEF LockInv, Locked, HoldAt, AttemptAt, DownAt
    <3>4. \A s \in Threads : pc'[s] \notin DownAt
      BY <3>2, <3>3, Zenon DEF DownAt
    <3> QED BY <2>1, <3>4, Zenon DEF DownInv, DownStep
  <2>3. CASE ~\E t \in Threads : AttemptStores(t)
    <3>1. connected' => connected
      <4>1. Still \/ Frames \/ \E t \in Threads : Outages(t)
        BY StepKinds, Zenon DEF NumOK
      <4>2. CASE Still
        BY <4>2, Zenon DEF Still
      <4>3. CASE Frames
        BY <4>3, FramesDeclared, Zenon
      <4>4. ASSUME NEW t \in Threads, Outages(t)
            PROVE  connected' => connected
        BY <2>3, <4>4, Zenon DEF Outages, Exchange, Count, Discard, QueueDisconnected,
           AttemptReplayed, AttemptQueues, stateVars
      <4> QED BY <4>1, <4>2, <4>3, <4>4, Zenon
    <3> QED BY <2>1, <3>1, Zenon DEF DownInv, DownStep
  <2> QED BY <2>2, <2>3, Zenon
<1> QED BY <1>1, <1>2, ConnectionLocks, ConnectionNumbers, PTL DEF Spec

(* The attempts that counted their reconnect and did not store `connected` yet. *)
Finishing == {t \in Threads : pc[t] \in {"a_queue", "a_store"}}

LEMMA FinishingFinite == IsFiniteSet(Finishing) /\ Cardinality(Finishing) \in Nat
<1>1. Finishing \in SUBSET Threads
  BY Zenon DEF Finishing
<1> QED BY <1>1, ThreadsFinite, FS_Subset, FS_CardinalityType, Zenon

LEMMA ConnectionOncePerOutage == Spec => []OncePerOutage
<1> DEFINE Down == IF connected THEN 0 ELSE 1
<1>1. Init => OncePerOutage
  <2> SUFFICES ASSUME Init PROVE OncePerOutage
    BY Zenon
  <2>1. {t \in Threads : pc[t] \in {"a_queue", "a_store"}} = {} /\ {t \in Threads : pc[t] = "count"} = {}
    BY Zenon DEF Init
  <2>2. Cardinality({}) = 0
    BY FS_EmptySet, Zenon
  <2>3. disconnects = 0 /\ reconnects = 0 /\ connected
    BY Zenon DEF Init
  <2> QED BY <2>1, <2>2, <2>3 DEF OncePerOutage, Declared
<1>2. LockInv /\ NumOK /\ DownInv /\ OncePerOutage /\ [Next]_vars => OncePerOutage'
  <2> SUFFICES ASSUME LockInv, NumOK, DownInv, OncePerOutage, [Next]_vars
               PROVE  OncePerOutage'
    BY Zenon
  <2>1. /\ Declared + Cardinality(Finishing) = reconnects + Down
        /\ Declared \in Nat /\ reconnects \in Nat /\ Cardinality(Finishing) \in Nat
    BY FinishingFinite, DeclaredType, Zenon DEF OncePerOutage, Finishing, NumOK
  <2>2. SUFFICES Declared' + Cardinality(Finishing') = reconnects' + Down'
    BY Zenon DEF OncePerOutage, Finishing
  <2>3. CASE Still
    <3>1. Finishing' = Finishing
      BY <2>3, Zenon DEF Still, Finishing, BusyAt
    <3> QED BY <2>1, <2>3, <3>1, StillDeclared, Zenon DEF Still
  <2>4. CASE Frames
    <3>1. Finishing' = Finishing
      BY <2>4, FramesDeclared, Zenon DEF Finishing, BusyAt
    <3> QED BY <2>1, <2>4, <3>1, FramesDeclared
  <2>5. ASSUME NEW t \in Threads, Outages(t)
        PROVE  Declared' + Cardinality(Finishing') = reconnects' + Down'
    <3>1. Declared' = IF Exchange(t) /\ connected THEN Declared + 1 ELSE Declared
      BY <2>5, OutagesDeclared, Zenon
    <3>2. CASE Exchange(t) /\ connected
      <4>1. Finishing' = Finishing
        BY <3>2, Zenon DEF Exchange, Goto, Finishing, LockInv, PcOK
      <4>2. UNCHANGED reconnects /\ ~connected'
        BY <3>2, Zenon DEF Exchange
      <4> QED BY <2>1, <3>1, <3>2, <4>1, <4>2
    <3>3. CASE Count(t) \/ Discard(t) \/ AttemptQueues(t)
      <4>1. \E l : Goto(t, l) /\ (l \in {"a_queue", "a_store"} <=> pc[t] \in {"a_queue", "a_store"})
        BY <3>3 DEF Count, Discard, AttemptQueues
      <4>2. Finishing' = Finishing
        BY <4>1, Zenon DEF Goto, Finishing, LockInv, PcOK
      <4>3. UNCHANGED <<reconnects, connected>> /\ ~Exchange(t)
        BY <3>3, Zenon DEF Count, Discard, AttemptQueues, Exchange, stateVars
      <4> QED BY <2>1, <3>1, <4>2, <4>3, Zenon
    <3>4. CASE QueueDisconnected(t)
      <4>1. \/ Goto(t, "notify")
            \/ pc' = [pc EXCEPT ![t] = "notify", !["worker"] = "lock"] /\ ~worker_started
        BY <3>4, Zenon DEF QueueDisconnected
      <4>2. \A s \in Threads : pc'[s] = pc[s] \/ (pc[s] \in {"queue", "unborn"} /\ pc'[s] \in {"notify", "lock"})
        BY <3>4, <4>1, Roles, Zenon DEF Goto, LockInv, PcOK, DownInv, QueueDisconnected
      <4>3. Finishing' = Finishing
        BY <4>2, Zenon DEF Finishing
      <4>4. UNCHANGED <<reconnects, connected>> /\ ~Exchange(t)
        BY <3>4, Zenon DEF QueueDisconnected, Exchange, stateVars
      <4> QED BY <2>1, <3>1, <4>3, <4>4
    <3>5. CASE AttemptReplayed(t)
      <4>1. Finishing' = Finishing \cup {t} /\ t \notin Finishing
        BY <3>5, Zenon DEF AttemptReplayed, Goto, Finishing, LockInv, PcOK
      <4>2. Cardinality(Finishing') = Cardinality(Finishing) + 1
        BY <4>1, FinishingFinite, FS_AddElement, Zenon
      <4>3. reconnects' = reconnects + 1 /\ UNCHANGED connected /\ ~Exchange(t)
        BY <3>5, Zenon DEF AttemptReplayed, Exchange
      <4> QED BY <2>1, <3>1, <4>2, <4>3
    <3>6. CASE AttemptStores(t)
      <4>1. Finishing' = Finishing \ {t} /\ t \in Finishing
        BY <3>6, Zenon DEF AttemptStores, Goto, Finishing, LockInv, PcOK
      <4>2. Cardinality(Finishing') = Cardinality(Finishing) - 1
        BY <4>1, FinishingFinite, FS_RemoveElement, Zenon
      <4>3. UNCHANGED reconnects /\ connected' /\ ~connected /\ ~Exchange(t)
        BY <3>6, Zenon DEF AttemptStores, Exchange, DownInv, DownAt
      <4> QED BY <2>1, <3>1, <4>2, <4>3
    <3> QED BY <2>5, <3>2, <3>3, <3>4, <3>5, <3>6, Zenon DEF Outages
  <2>6. Still \/ Frames \/ \E t \in Threads : Outages(t)
    BY StepKinds, Zenon DEF NumOK
  <2> QED BY <2>3, <2>4, <2>5, <2>6, Zenon
<1> QED BY <1>1, <1>2, ConnectionLocks, ConnectionNumbers, ConnectionDown, PTL DEF Spec

-----------------------------------------------------------------------------
(* Each outage is told once: it is being declared, queued, in delivery or shown. *)

Declaring == {t \in Threads : pc[t] \in {"count", "discard", "queue"}}
DeclaringNums == {n[t] : t \in Declaring}
Queued(q) == {i \in DOMAIN q : q[i].kind = "disconnected"}
Nums(q) == {q[i].n : i \in Queued(q)}

INSTANCE FunctionTheorems

LEMMA DeclaringFinite ==
  /\ IsFiniteSet(Declaring) /\ Cardinality(Declaring) \in Nat
  /\ IsFiniteSet(DeclaringNums) /\ Cardinality(DeclaringNums) <= Cardinality(Declaring)
<1>1. Declaring \in SUBSET Threads
  BY Zenon DEF Declaring
<1>2. IsFiniteSet(Declaring) /\ Cardinality(Declaring) \in Nat
  BY <1>1, ThreadsFinite, FS_Subset, FS_CardinalityType
<1> DEFINE f == [t \in Declaring |-> n[t]]
<1>3. f \in [Declaring -> DeclaringNums] /\ \A k \in DeclaringNums : \E t \in Declaring : f[t] = k
  BY Zenon DEF DeclaringNums
<1>4. f \in Surjection(Declaring, DeclaringNums)
  BY <1>3, Fun_IsSurj, Zenon
<1> QED BY <1>2, <1>4, FS_Surjection, Zenon

LEMMA QueuedFinite ==
  ASSUME NEW q \in Seq(Event)
  PROVE  /\ IsFiniteSet(Queued(q)) /\ Cardinality(Queued(q)) \in Nat
         /\ IsFiniteSet(Nums(q)) /\ Cardinality(Nums(q)) <= Cardinality(Queued(q))
<1>1. Queued(q) \in SUBSET (1..Len(q)) /\ Len(q) \in Int
  BY DEF Queued
<1>2. IsFiniteSet(1..Len(q))
  BY <1>1, FS_Interval
<1>3. IsFiniteSet(Queued(q)) /\ Cardinality(Queued(q)) \in Nat
  BY <1>1, <1>2, FS_Subset, FS_CardinalityType, Zenon
<1> DEFINE f == [i \in Queued(q) |-> q[i].n]
<1>4. f \in [Queued(q) -> Nums(q)] /\ \A k \in Nums(q) : \E i \in Queued(q) : f[i] = k
  BY Zenon DEF Nums
<1>5. f \in Surjection(Queued(q), Nums(q))
  BY <1>4, Fun_IsSurj, Zenon
<1> QED BY <1>3, <1>5, FS_Surjection, Zenon

LEMMA QueuedAppend ==
  ASSUME NEW q \in Seq(Event), NEW e \in Event
  PROVE  IF e.kind = "disconnected"
         THEN /\ Cardinality(Queued(Append(q, e))) = Cardinality(Queued(q)) + 1
              /\ Nums(Append(q, e)) = Nums(q) \cup {e.n}
         ELSE Queued(Append(q, e)) = Queued(q) /\ Nums(Append(q, e)) = Nums(q)
<1> DEFINE r == Append(q, e)
<1>1. /\ DOMAIN q = 1..Len(q) /\ DOMAIN r = 1..(Len(q) + 1) /\ Len(q) \in Nat
      /\ \A i \in DOMAIN q : r[i] = q[i]
      /\ r[Len(q) + 1] = e
  OBVIOUS
<1>2. Len(q) + 1 \notin Queued(q) /\ Queued(q) \subseteq DOMAIN q
  BY <1>1 DEF Queued
<1>3. CASE e.kind = "disconnected"
  <2>1. Queued(r) = Queued(q) \cup {Len(q) + 1}
    BY <1>1, <1>3 DEF Queued
  <2>2. Cardinality(Queued(r)) = Cardinality(Queued(q)) + 1
    BY <1>2, <2>1, QueuedFinite, FS_AddElement, Zenon
  <2>3. Nums(r) = Nums(q) \cup {e.n}
    BY <1>1, <1>2, <2>1 DEF Nums
  <2> QED BY <1>3, <2>2, <2>3, Zenon
<1>4. CASE e.kind # "disconnected"
  <2>1. Queued(r) = Queued(q)
    BY <1>1, <1>4 DEF Queued
  <2>2. Nums(r) = Nums(q)
    BY <1>1, <1>2, <2>1, Zenon DEF Nums
  <2> QED BY <1>4, <2>1, <2>2, Zenon
<1> QED BY <1>3, <1>4, Zenon

LEMMA QueuedTail ==
  ASSUME NEW q \in Seq(Event), q # <<>>
  PROVE  IF Head(q).kind = "disconnected"
         THEN /\ Cardinality(Queued(q)) = Cardinality(Queued(Tail(q))) + 1
              /\ Nums(q) = Nums(Tail(q)) \cup {Head(q).n}
         ELSE /\ Cardinality(Queued(q)) = Cardinality(Queued(Tail(q)))
              /\ Nums(q) = Nums(Tail(q))
<1> DEFINE r == Tail(q)
<1>1. /\ r \in Seq(Event) /\ Len(q) \in Nat /\ Len(q) > 0
      /\ DOMAIN q = 1..Len(q) /\ DOMAIN r = 1..(Len(q) - 1)
      /\ \A i \in DOMAIN r : i + 1 \in DOMAIN q /\ r[i] = q[i + 1]
      /\ 1 \in DOMAIN q /\ Head(q) = q[1]
  OBVIOUS
<1>2. \A i \in DOMAIN q : i = 1 \/ (i - 1 \in DOMAIN r /\ q[i] = r[i - 1])
  BY <1>1
<1> DEFINE f == [i \in Queued(r) |-> i + 1]
<1> DEFINE Rest == Queued(q) \ {1}
<1>3. /\ f \in [Queued(r) -> Rest]
      /\ \A i, j \in Queued(r) : f[i] = f[j] => i = j
  BY <1>1 DEF Queued
<1>4. \A k \in Rest : \E i \in Queued(r) : f[i] = k
  <2> SUFFICES ASSUME NEW k \in Rest PROVE \E i \in Queued(r) : f[i] = k
    BY Zenon
  <2>1. k - 1 \in Queued(r) /\ k \in Nat
    BY <1>1, <1>2 DEF Queued
  <2>2. f[k - 1] = k
    BY <2>1
  <2> QED BY <2>1, <2>2, Zenon
<1>5. f \in Bijection(Queued(r), Rest)
  BY <1>3, <1>4, Fun_IsBij, Zenon
<1>6. Cardinality(Rest) = Cardinality(Queued(r)) /\ IsFiniteSet(Rest)
  <2>1. ExistsBijection(Queued(r), Rest)
    BY <1>5, Fun_ExistsBij, Zenon
  <2>2. IsFiniteSet(Queued(r))
    BY <1>1, QueuedFinite, Zenon
  <2> HIDE DEF r, f, Rest
  <2> QED BY <2>1, <2>2, FS_Bijection, Zenon
<1>7. Cardinality(Rest) = IF 1 \in Queued(q) THEN Cardinality(Queued(q)) - 1 ELSE Cardinality(Queued(q))
  BY QueuedFinite, FS_RemoveElement, Zenon
<1>8. Nums(r) = {q[i].n : i \in Rest}
  <2>1. \A i \in Queued(r) : i + 1 \in Rest /\ r[i] = q[i + 1]
    BY <1>1 DEF Queued
  <2>2. \A i \in Rest : i - 1 \in Queued(r) /\ q[i] = r[i - 1]
    BY <1>1, <1>2, Zenon DEF Queued
  <2> HIDE DEF r, f, Rest
  <2>3. ASSUME NEW k \in Nums(r) PROVE k \in {q[i].n : i \in Rest}
    <3>1. PICK i \in Queued(r) : k = r[i].n
      BY Zenon DEF Nums
    <3> QED BY <2>1, <3>1, Zenon
  <2>4. ASSUME NEW k \in {q[i].n : i \in Rest} PROVE k \in Nums(r)
    <3>1. PICK i \in Rest : k = q[i].n
      BY Zenon
    <3> QED BY <2>2, <3>1, Zenon DEF Nums
  <2> QED BY <2>3, <2>4, Zenon
<1>9. 1 \in Queued(q) <=> Head(q).kind = "disconnected"
  BY <1>1, Zenon DEF Queued
<1>10. Cardinality(Queued(q)) \in Nat /\ Cardinality(Queued(r)) \in Nat
  BY <1>1, QueuedFinite, Zenon
<1>11. CASE 1 \in Queued(q)
  <2>1. Nums(q) = Nums(r) \cup {Head(q).n}
    <3>1. Queued(q) = Rest \cup {1} /\ Head(q) = q[1]
      BY <1>1, <1>11, Zenon
    <3> HIDE DEF r, f, Rest
    <3> QED BY <1>8, <3>1, Zenon DEF Nums
  <2> QED BY <1>6, <1>7, <1>9, <1>10, <1>11, <2>1
<1>12. CASE 1 \notin Queued(q)
  <2>1. Rest = Queued(q)
    BY <1>12, Zenon
  <2>2. Nums(q) = Nums(r)
    BY <1>8, <2>1, Zenon DEF Nums
  <2> QED BY <1>6, <1>9, <1>12, <2>1, <2>2, Zenon
<1> QED BY <1>11, <1>12, Zenon

(* Every number is somewhere, and the places are as many as the numbers. *)
Told == Nums(pending) \cup Nums(events) \cup shown.outages
Places == Cardinality(Declaring) + Cardinality(Queued(pending)) + Cardinality(Queued(events))
            + Cardinality(shown.outages)

(* The events of one tick are delivered before the next swap. *)
ToldInv ==
  /\ pc["rx"] # "deliver" => events = <<>>
  /\ 1..Declared = DeclaringNums \cup Told
  /\ Declared = Places

LEMMA ToldMeaning == EveryOutageReported <=> 1..Declared = DeclaringNums \cup Told /\ Declared = Places
<1>1. 1..Declared = DeclaringNums \cup Told
      <=> 1..Declared = {n[t] : t \in {s \in Threads : pc[s] \in {"count", "discard", "queue"}}}
                        \cup {pending[i].n : i \in {j \in DOMAIN pending : pending[j].kind = "disconnected"}}
                        \cup {events[i].n : i \in {j \in DOMAIN events : events[j].kind = "disconnected"}}
                        \cup shown.outages
  BY Zenon DEF Told, DeclaringNums, Declaring, Nums, Queued
<1> QED BY <1>1, Zenon DEF EveryOutageReported, Places, Declaring, Queued

LEMMA ShownFinite ==
  ASSUME Declared \in Nat, ToldInv
  PROVE  IsFiniteSet(shown.outages) /\ Cardinality(shown.outages) \in Nat
<1>1. shown.outages \in SUBSET (1..Declared)
  BY Zenon DEF ToldInv, Told
<1>2. IsFiniteSet(1..Declared)
  BY FS_Interval
<1> QED BY <1>1, <1>2, FS_Subset, FS_CardinalityType, Zenon

(* The size of a union is at most the sum of the sizes. *)
LEMMA UnionBound ==
  ASSUME NEW S, NEW T, IsFiniteSet(S), IsFiniteSet(T)
  PROVE  /\ IsFiniteSet(S \cup T) /\ Cardinality(S \cup T) \in Nat
         /\ Cardinality(S \cup T) <= Cardinality(S) + Cardinality(T)
<1>1. S \cap T \in SUBSET S
  BY Zenon
<1>2. Cardinality(S \cap T) \in Nat /\ Cardinality(S) \in Nat /\ Cardinality(T) \in Nat
  BY <1>1, FS_Subset, FS_CardinalityType, Zenon
<1>3. IsFiniteSet(S \cup T)
      /\ Cardinality(S \cup T) = Cardinality(S) + Cardinality(T) - Cardinality(S \cap T)
  BY FS_Union, Zenon
<1>4. Cardinality(S \cup T) \in Nat
  BY <1>3, FS_CardinalityType, Zenon
<1> QED BY <1>2, <1>3, <1>4

(* Numbers that are spread over four sets are no more than the elements of the four. *)
LEMMA FourSets ==
  ASSUME NEW d \in Nat, NEW A, NEW P, NEW E, NEW S,
         IsFiniteSet(A), IsFiniteSet(P), IsFiniteSet(E), IsFiniteSet(S),
         1..d = A \cup (P \cup E \cup S)
  PROVE  d <= Cardinality(A) + Cardinality(P) + Cardinality(E) + Cardinality(S)
<1>1. Cardinality(1..d) = d
  BY FS_Interval
<1> DEFINE U == P \cup E
           V == U \cup S
<1>2. Cardinality(A) \in Nat /\ Cardinality(P) \in Nat /\ Cardinality(E) \in Nat /\ Cardinality(S) \in Nat
  BY FS_CardinalityType, Zenon
<1>3. IsFiniteSet(U) /\ Cardinality(U) \in Nat /\ Cardinality(U) <= Cardinality(P) + Cardinality(E)
  BY UnionBound, Zenon
<1>4. 1..d = A \cup V
  BY Zenon
<1> HIDE DEF U
<1>5. IsFiniteSet(V) /\ Cardinality(V) \in Nat /\ Cardinality(V) <= Cardinality(U) + Cardinality(S)
  BY <1>3, UnionBound, Zenon
<1> HIDE DEF V
<1>6. Cardinality(A \cup V) \in Nat /\ Cardinality(A \cup V) <= Cardinality(A) + Cardinality(V)
  BY <1>5, UnionBound, Zenon
<1>7. d = Cardinality(A \cup V)
  BY <1>1, <1>4, Zenon
<1> QED BY <1>2, <1>3, <1>5, <1>6, <1>7

(* Declaring and its numbers, unless a thread enters or leaves. *)
LEMMA DeclaringKept ==
  ASSUME \A s \in Threads : pc'[s] \in {"count", "discard", "queue"}
                              <=> pc[s] \in {"count", "discard", "queue"},
         \A s \in Threads : pc[s] \in {"count", "discard", "queue"} => n'[s] = n[s]
  PROVE  UNCHANGED <<Declaring, DeclaringNums>>
<1>1. Declaring' = Declaring
  BY Zenon DEF Declaring
<1>2. \A s \in Declaring : n'[s] = n[s]
  BY Zenon DEF Declaring
<1> QED BY <1>1, <1>2, Zenon DEF DeclaringNums

LEMMA StillTold ==
  ASSUME ToldInv, Still
  PROVE  ToldInv'
<1>1. UNCHANGED <<pending, events, shown, Declared>>
  BY StillDeclared, Zenon DEF Still
<1>2. UNCHANGED <<Declaring, DeclaringNums>>
  BY DeclaringKept, Zenon DEF Still, BusyAt
<1>3. pc'["rx"] # "deliver" => pc["rx"] # "deliver"
  BY Zenon DEF Still, RxSame
<1> QED BY <1>1, <1>2, <1>3, Zenon DEF ToldInv, Told, Places

LEMMA FramesTold ==
  ASSUME LockInv, NumOK, DataOK, ToldInv, Frames
  PROVE  ToldInv'
<1>1. Declared \in Nat /\ UNCHANGED Declared /\ UNCHANGED <<Declaring, DeclaringNums>>
  <2>1. UNCHANGED n /\ \A s \in Threads : pc'[s] \in {"count", "discard", "queue"}
                                            <=> pc[s] \in {"count", "discard", "queue"}
    BY FramesDeclared, Zenon DEF BusyAt
  <2> QED BY <2>1, DeclaringKept, FramesDeclared, Zenon
<1>2. pending \in Seq(Event) /\ events \in Seq(Event)
  BY Zenon DEF DataOK
<1>3. CASE Swap
  <2>1. events = <<>> /\ events' = pending /\ pending' = <<>> /\ UNCHANGED shown
    BY <1>3, Zenon DEF Swap, ToldInv
  <2>2. pc'["rx"] = "deliver"
    BY <1>3, Roles, Zenon DEF Swap, RxStep, Goto, LockInv, PcOK
  <2>3. Told' = Told
    BY <2>1, Zenon DEF Told
  <2>4. Places' = Places
    <3>1. /\ Cardinality(Queued(pending)) \in Nat /\ Cardinality(Queued(events)) \in Nat
          /\ Cardinality(Declaring) \in Nat
      BY <1>2, QueuedFinite, DeclaringFinite, Zenon
    <3>2. Places' = Cardinality(Declaring) + Cardinality(Queued(events)) + Cardinality(Queued(pending))
                      + Cardinality(shown.outages)
      BY <1>1, <2>1, <3>1, Zenon DEF Places
    <3> QED BY <3>1, <3>2 DEF Places
  <2> QED BY <1>1, <2>2, <2>3, <2>4, Zenon DEF ToldInv
<1>4. CASE DeliverEvent
  <2>1. /\ events # <<>> /\ events' = Tail(events) /\ UNCHANGED pending
        /\ shown'.outages = IF Head(events).kind = "disconnected"
                            THEN shown.outages \cup {Head(events).n} ELSE shown.outages
        /\ pc'["rx"] = "deliver"
    BY <1>4, Roles, Zenon DEF DeliverEvent, RxStep, Goto, LockInv, PcOK
  <2>2. events' \in Seq(Event)
    BY <1>2, <2>1
  <2>3. IsFiniteSet(shown.outages) /\ Cardinality(shown.outages) \in Nat
    BY <1>1, ShownFinite, Zenon
  <2>4. /\ Cardinality(Queued(pending)) \in Nat /\ Cardinality(Queued(events)) \in Nat
        /\ Cardinality(Queued(events')) \in Nat /\ Cardinality(Declaring) \in Nat
    BY <1>2, <2>2, QueuedFinite, DeclaringFinite, Zenon
  <2>5. Places = Cardinality(Declaring) + Cardinality(Queued(pending)) + Cardinality(Queued(events))
                   + Cardinality(shown.outages)
        /\ Places' = Cardinality(Declaring) + Cardinality(Queued(pending))
                       + Cardinality(Queued(events')) + Cardinality(shown'.outages)
    BY <1>1, <2>1, Zenon DEF Places
  <2>6. CASE Head(events).kind = "disconnected"
    <3>1. /\ Cardinality(Queued(events)) = Cardinality(Queued(events')) + 1
          /\ Nums(events) = Nums(events') \cup {Head(events).n}
      BY <1>2, <2>1, <2>6, QueuedTail, Zenon
    <3>2. shown'.outages = shown.outages \cup {Head(events).n}
      BY <2>1, <2>6, Zenon
    <3>3. Told' = Told
      BY <2>1, <3>1, <3>2, Zenon DEF Told
    <3>4. /\ IsFiniteSet(shown'.outages) /\ Cardinality(shown'.outages) \in Nat
          /\ Cardinality(shown'.outages) <= Cardinality(shown.outages) + 1
      <4>1. IsFiniteSet(shown'.outages)
            /\ Cardinality(shown'.outages) \in {Cardinality(shown.outages), Cardinality(shown.outages) + 1}
        BY <2>3, <3>2, FS_AddElement
      <4> QED BY <2>3, <4>1
    <3>5. 1..Declared' = DeclaringNums' \cup Told'
      BY <1>1, <3>3, Zenon DEF ToldInv
    <3>6. Declared' <= Places'
      <4>1. /\ IsFiniteSet(DeclaringNums) /\ IsFiniteSet(Nums(pending)) /\ IsFiniteSet(Nums(events'))
            /\ Cardinality(DeclaringNums) <= Cardinality(Declaring)
            /\ Cardinality(Nums(pending)) <= Cardinality(Queued(pending))
            /\ Cardinality(Nums(events')) <= Cardinality(Queued(events'))
        BY <1>2, <2>2, DeclaringFinite, QueuedFinite, Zenon
      <4>2. /\ Cardinality(DeclaringNums) \in Nat /\ Cardinality(Nums(pending)) \in Nat
            /\ Cardinality(Nums(events')) \in Nat
        BY <4>1, FS_CardinalityType, Zenon
      <4>3. 1..Declared = DeclaringNums \cup (Nums(pending) \cup Nums(events') \cup shown'.outages)
        BY <1>1, <2>1, <3>5, Zenon DEF Told
      <4>4. Declared <= Cardinality(DeclaringNums) + Cardinality(Nums(pending))
                          + Cardinality(Nums(events')) + Cardinality(shown'.outages)
        BY <1>1, <3>4, <4>1, <4>3, FourSets, Zenon
      <4> QED BY <1>1, <2>4, <2>5, <3>4, <4>1, <4>2, <4>4
    <3>7. Declared = Places
      BY Zenon DEF ToldInv
    <3>8. Declared' = Places'
      BY <1>1, <2>3, <2>4, <2>5, <3>1, <3>4, <3>6, <3>7
    <3> QED BY <2>1, <3>5, <3>8, Zenon DEF ToldInv
  <2>7. CASE Head(events).kind # "disconnected"
    <3>1. /\ Cardinality(Queued(events)) = Cardinality(Queued(events'))
          /\ Nums(events) = Nums(events') /\ shown'.outages = shown.outages
      BY <1>2, <2>1, <2>7, QueuedTail
    <3>2. Told' = Told /\ Places' = Places
      BY <2>1, <2>5, <3>1, Zenon DEF Told
    <3> QED BY <1>1, <2>1, <3>2, Zenon DEF ToldInv
  <2> QED BY <2>6, <2>7, Zenon
<1>5. CASE ~Swap /\ ~DeliverEvent
  <2>1. UNCHANGED <<pending, events, shown>>
    BY <1>5, Zenon DEF Frames, Push, Data, DataPush, Tick, TickConsume, TickFlush
  <2>3. pc["rx"] = "deliver" => events = <<>>
    BY <1>5, Zenon DEF Frames, Push, Data, DataPush, Tick, TickConsume, TickFlush
  <2>4. events' = <<>>
    BY <2>1, <2>3, Zenon DEF ToldInv
  <2>5. Told' = Told /\ Places' = Places
    BY <1>1, <2>1, Zenon DEF Told, Places
  <2> QED BY <1>1, <2>4, <2>5, Zenon DEF ToldInv
<1> QED BY <1>3, <1>4, <1>5, Zenon

LEMMA OutagesTold ==
  ASSUME LockInv, NumOK, DataOK, DownInv, ToldInv, NEW t \in Threads, Outages(t)
  PROVE  ToldInv'
<1>1. /\ Declared \in Nat
      /\ Declared' = IF Exchange(t) /\ connected THEN Declared + 1 ELSE Declared
  BY OutagesDeclared, Zenon
<1>2. UNCHANGED <<events, shown>>
  BY Zenon DEF Outages, Exchange, Count, Discard, QueueDisconnected, AttemptReplayed, AttemptQueues,
     AttemptStores, rxVars
<1>3. pending \in Seq(Event) /\ \A s \in Threads : n[s] \in Nat
  BY Zenon DEF DataOK, NumOK
<1>4. /\ IsFiniteSet(Declaring) /\ Cardinality(Declaring) \in Nat
      /\ Cardinality(Queued(pending)) \in Nat /\ Cardinality(Queued(events)) \in Nat
      /\ Cardinality(shown.outages) \in Nat
  BY <1>1, <1>3, DeclaringFinite, QueuedFinite, ShownFinite, Zenon DEF DataOK
<1>5. Places' = Cardinality(Declaring') + Cardinality(Queued(pending')) + Cardinality(Queued(events))
                  + Cardinality(shown.outages)
  BY <1>2, Zenon DEF Places
<1>6. \A s \in Threads : s # t => \/ pc'[s] = pc[s]
                                  \/ pc[s] = "unborn" /\ pc'[s] = "lock"
  <2>1. \/ \E l : Goto(t, l)
        \/ pc' = [pc EXCEPT ![t] = "notify", !["worker"] = "lock"] /\ ~worker_started
    BY Zenon DEF Outages, Exchange, Count, Discard, QueueDisconnected, AttemptReplayed, AttemptQueues,
       AttemptStores
  <2> QED BY <2>1, Roles, Zenon DEF Goto, LockInv, PcOK, DownInv
<1>7. pc'["rx"] # "deliver" => events' = <<>>
  <2>1. pc[t] # "deliver"
    BY Zenon DEF Outages, Exchange, Count, Discard, QueueDisconnected, AttemptReplayed, AttemptQueues,
       AttemptStores
  <2>2. pc'["rx"] # "deliver" => pc["rx"] # "deliver"
    BY <1>6, <2>1, Roles, Zenon
  <2> QED BY <1>2, <2>2, Zenon DEF ToldInv
<1>8. SUFFICES 1..Declared' = DeclaringNums' \cup Told' /\ Declared' = Places'
  BY <1>7, Zenon DEF ToldInv
<1>9. 1..Declared = DeclaringNums \cup Told /\ Declared = Places
  BY Zenon DEF ToldInv
<1>10. CASE Exchange(t) /\ connected
  <2>1. /\ pc[t] = "exchange" /\ pc'[t] = "count" /\ UNCHANGED pending
        /\ n' = [n EXCEPT ![t] = Declared + 1]
    BY <1>10, Zenon DEF Exchange, Goto, LockInv, PcOK
  <2>2. Declaring' = Declaring \cup {t} /\ t \notin Declaring
    BY <1>6, <2>1, Zenon DEF Declaring
  <2>3. Cardinality(Declaring') = Cardinality(Declaring) + 1
    BY <1>4, <2>2, FS_AddElement, Zenon
  <2>4. DeclaringNums' = DeclaringNums \cup {Declared + 1}
    <3>1. n'[t] = Declared + 1 /\ \A s \in Declaring : n'[s] = n[s]
      BY <2>1, <2>2, Zenon DEF NumOK, Declaring
    <3> QED BY <2>2, <3>1, Zenon DEF DeclaringNums
  <2>5. Told' = Told /\ Declared' = Declared + 1
    BY <1>1, <1>2, <1>10, <2>1, Zenon DEF Told
  <2>6. 1..(Declared + 1) = (1..Declared) \cup {Declared + 1}
    BY <1>1
  <2>7. 1..Declared' = DeclaringNums' \cup Told'
    BY <1>9, <2>4, <2>5, <2>6, Zenon
  <2>8. Declared' = Places'
    BY <1>4, <1>5, <1>9, <2>1, <2>3, <2>5 DEF Places
  <2> QED BY <2>7, <2>8, Zenon
<1>11. CASE Count(t) \/ Discard(t) \/ AttemptReplayed(t) \/ AttemptQueues(t) \/ AttemptStores(t)
  <2>1. UNCHANGED n /\ UNCHANGED Declared
    BY <1>1, <1>11, Zenon DEF Exchange, Count, Discard, AttemptReplayed, AttemptQueues, AttemptStores
  <2>2. pc'[t] \in {"count", "discard", "queue"} <=> pc[t] \in {"count", "discard", "queue"}
    BY <1>11, Zenon DEF Count, Discard, AttemptReplayed, AttemptQueues, AttemptStores, Goto, LockInv, PcOK
  <2>3. UNCHANGED <<Declaring, DeclaringNums>>
    BY <1>6, <2>1, <2>2, DeclaringKept, Zenon
  <2>4. Nums(pending') = Nums(pending) /\ Queued(pending') = Queued(pending)
    <3>1. \/ UNCHANGED pending
          \/ pending' = Append(pending, [kind |-> "reconnected", n |-> reconnects])
      BY <1>11, Zenon DEF Count, Discard, AttemptReplayed, AttemptQueues, AttemptStores
    <3>2. [kind |-> "reconnected", n |-> reconnects] \in Event
      BY Zenon DEF Event, NumOK
    <3>3. PICK e \in Event : e.kind # "disconnected" /\ (UNCHANGED pending \/ pending' = Append(pending, e))
      BY <3>1, <3>2, Zenon
    <3>4. Nums(Append(pending, e)) = Nums(pending) /\ Queued(Append(pending, e)) = Queued(pending)
      BY <1>3, <3>3, QueuedAppend, Zenon
    <3>5. CASE pending' = Append(pending, e)
      BY <3>4, <3>5, Zenon
    <3>6. CASE UNCHANGED pending
      BY <3>6, Zenon
    <3> QED BY <3>3, <3>5, <3>6, Zenon
  <2>5. Told' = Told /\ Places' = Places
    BY <1>2, <1>5, <2>3, <2>4, Zenon DEF Told, Places
  <2> QED BY <1>9, <2>1, <2>3, <2>5, Zenon
<1>12. CASE QueueDisconnected(t)
  <2>1. /\ pc[t] = "queue" /\ UNCHANGED n /\ UNCHANGED Declared
        /\ pending' = Append(pending, DisconnectedEvent(n[t]))
    BY <1>1, <1>12, Zenon DEF QueueDisconnected, Exchange
  <2>2. pc'[t] \in {"notify", "lock"}
    BY <1>12, Roles, Zenon DEF QueueDisconnected, Goto, LockInv, PcOK
  <2>3. Declaring' = Declaring \ {t} /\ t \in Declaring
    BY <1>6, <2>1, <2>2, Zenon DEF Declaring
  <2>4. Cardinality(Declaring') = Cardinality(Declaring) - 1
    BY <1>4, <2>3, FS_RemoveElement, Zenon
  <2>5. DeclaringNums = DeclaringNums' \cup {n[t]}
    BY <2>1, <2>3, Zenon DEF DeclaringNums
  <2>6. /\ DisconnectedEvent(n[t]) \in Event /\ DisconnectedEvent(n[t]).kind = "disconnected"
        /\ DisconnectedEvent(n[t]).n = n[t]
    BY <1>3, Zenon DEF DisconnectedEvent, Event
  <2>7. /\ Cardinality(Queued(pending')) = Cardinality(Queued(pending)) + 1
        /\ Nums(pending') = Nums(pending) \cup {n[t]}
    BY <1>3, <2>1, <2>6, QueuedAppend, Zenon
  <2>8. DeclaringNums' \cup Told' = DeclaringNums \cup Told
    BY <1>2, <2>5, <2>7, Zenon DEF Told
  <2>9. Places' = Places
    <3>1. Places' = (Cardinality(Declaring) - 1) + (Cardinality(Queued(pending)) + 1)
                      + Cardinality(Queued(events)) + Cardinality(shown.outages)
      BY <1>5, <2>4, <2>7, Zenon
    <3> QED BY <1>4, <3>1 DEF Places
  <2> QED BY <1>9, <2>1, <2>8, <2>9
<1> QED BY <1>10, <1>11, <1>12, Zenon DEF Outages

(* OutagesExact: whichever threads notice an outage, it is declared once (the             *)
(* compare-exchange, device.cpp:862) and its kDisconnected reaches the callback once      *)
(* (queued at line 875, swapped and delivered in connection_tick(), lines 1139-1147), for *)
(* any number of threads and outages.                                                     *)
THEOREM ConnectionOutagesExact == Spec => []OutagesExact
<1>1. Init => ToldInv
  <2> SUFFICES ASSUME Init PROVE ToldInv
    OBVIOUS
  <2>1. Declaring = {} /\ {t \in Threads : pc[t] = "count"} = {}
    BY Zenon DEF Init, Declaring
  <2>2. pending = <<>> /\ events = <<>> /\ shown.outages = {} /\ disconnects = 0
    BY Zenon DEF Init
  <2>3. Queued(pending) = {} /\ Queued(events) = {}
    BY <2>2 DEF Queued
  <2>4. Cardinality({}) = 0
    BY FS_EmptySet
  <2>5. Declared = 0
    <3>1. Cardinality({t \in Threads : pc[t] = "count"}) = 0
      BY <2>1, <2>4, Zenon
    <3> QED BY <2>2, <3>1 DEF Declared
  <2>6. DeclaringNums = {} /\ Told = {}
    BY <2>1, <2>2, <2>3, Zenon DEF DeclaringNums, Told, Nums
  <2>7. Places = 0
    <3>1. /\ Cardinality(Declaring) = 0 /\ Cardinality(Queued(pending)) = 0
          /\ Cardinality(Queued(events)) = 0 /\ Cardinality(shown.outages) = 0
      BY <2>1, <2>2, <2>3, <2>4, Zenon
    <3> QED BY <3>1 DEF Places
  <2>8. 1..Declared = {}
    BY <2>5
  <2> QED BY <2>2, <2>5, <2>6, <2>7, <2>8, Zenon DEF ToldInv
<1>2. LockInv /\ NumOK /\ StaleInv /\ DownInv /\ ToldInv /\ [Next]_vars => ToldInv'
  <2> SUFFICES ASSUME LockInv, NumOK, StaleInv, DownInv, ToldInv, [Next]_vars
               PROVE  ToldInv'
    BY Zenon
  <2>1. Still \/ Frames \/ \E t \in Threads : Outages(t)
    BY StepKinds, Zenon DEF NumOK
  <2>2. DataOK
    BY Zenon DEF StaleInv
  <2> QED BY <2>1, <2>2, StillTold, FramesTold, OutagesTold, Zenon
<1>3. ToldInv /\ OncePerOutage => OutagesExact
  BY ToldMeaning, Zenon DEF ToldInv, OutagesExact
<1> QED BY <1>1, <1>2, <1>3, ConnectionLocks, ConnectionNumbers, ConnectionStale, ConnectionDown,
           ConnectionOncePerOutage, PTL DEF Spec
=============================================================================
