------------------------------ MODULE Context ------------------------------
(***************************************************************************)
(* The shared receive side of the SDK: src/src/context.cpp and             *)
(* src/src/context_impl.hpp.                                               *)
(*                                                                         *)
(* User threads change the registry (add, bind, rekey, remove) under       *)
(* `mutex`; every such critical section is one action.  The receive thread *)
(* runs Context::Impl::run(): it works on a private `snapshot` of the      *)
(* entries, which it renews (refresh) only when `generation` differs from  *)
(* the generation it has `seen`.  remove() blocks until the thread has     *)
(* `observed` the generation of the removal.                               *)
(*                                                                         *)
(* A Receiver is the Device::Impl that is registered.  Its address may be  *)
(* reused by a later Device, so a receiver returns to "none" and may be    *)
(* added again.  Statistics counters and log records are left out.         *)
(***************************************************************************)
EXTENDS Naturals, Sequences, FiniteSets

CONSTANTS
  Receivers,      \* Device::Impl objects (addresses)
  Ips,            \* source addresses
  Serials,        \* serial numbers
  SerialOf,       \* the serial number each receiver is opened with
  Ports,          \* the receive sockets (push, point, imu, log, debug data)
  BatchSize,      \* ContextOptions::batch_size
  MaxRounds,      \* batches per socket and wake-up (8 in the code)
  RxCapacity,     \* datagrams a socket buffer holds (SO_RCVBUF)
  MaxGeneration,  \* bound on the number of registry changes
  None

ASSUME ContextAssumption ==
  /\ SerialOf \in [Receivers -> Serials]
  /\ BatchSize \in Nat \ {0}
  /\ MaxRounds \in Nat \ {0}
  /\ RxCapacity \in Nat
  /\ MaxGeneration \in Nat
  /\ None \notin Receivers
  /\ None \notin Ports

VARIABLES
  entries,     \* Impl::entries
  generation,  \* Impl::generation
  observed,    \* Impl::observed
  stop,        \* Impl::stop
  life,        \* per receiver: "none", "open", or "removing" (inside remove())
  target,      \* per receiver: the generation its remove() waits for
  woken,       \* receivers whose remove() has been woken on cv
  since,       \* per receiver: the generation of its last add or rekey (history)
  snapshot,    \* run(): the entries last copied
  seen,        \* run(): the generation of `snapshot`
  pc,          \* run(): where the receive thread is
  ret,         \* where a refresh returns to: "tick" or "dispatch"
  todo,        \* receivers whose tick is still due in this iteration
  active,      \* the receiver being called (tick or on_datagram), or None
  ready,       \* sockets reported by the poll and not drained yet
  cur,         \* the socket being drained, or None
  round,       \* batches already read from `cur`
  full,        \* the last batch was full
  batch,       \* datagrams read and not dispatched yet
  rx           \* per socket: datagrams in the kernel buffer

userVars == <<entries, generation, stop, life, target, since>>
loopVars == <<pc, ret, todo, active, ready, cur, round, full, batch>>
snapVars == <<snapshot, seen, observed>>
vars == <<userVars, woken, loopVars, snapVars, rx>>

Entry == [ip : Ips, receiver : Receivers, serial : Serials, device : BOOLEAN]

(***************************************************************************)
(* `gen` is not on the wire: it records the generation at the moment the   *)
(* datagram reached the host.                                              *)
(***************************************************************************)
Datagram == [ip : Ips, gen : Nat]

ReceiversOf(S) == {e.receiver : e \in S}

Init ==
  /\ entries = {} /\ generation = 1 /\ observed = 0 /\ stop = FALSE
  /\ life = [r \in Receivers |-> "none"]
  /\ target = [r \in Receivers |-> 0]
  /\ since = [r \in Receivers |-> 0]
  /\ woken = {}
  /\ snapshot = {} /\ seen = 0
  /\ pc = "loop" /\ ret = "tick" /\ todo = {} /\ active = None
  /\ ready = {} /\ cur = None /\ round = 0 /\ full = FALSE /\ batch = <<>>
  /\ rx = [p \in Ports |-> <<>>]

-----------------------------------------------------------------------------
(* User threads: the registry.                                             *)

(* Mutant: only the serial number is looked at. *)
AddAnyAddress(r, ip) ==
  /\ life[r] = "none" /\ ~stop
  /\ generation < MaxGeneration
  /\ \A e \in entries : e.serial # SerialOf[r]
  /\ entries' = entries \cup
       {[ip |-> ip, receiver |-> r, serial |-> SerialOf[r], device |-> FALSE]}
  /\ generation' = generation + 1
  /\ since' = [since EXCEPT ![r] = generation + 1]
  /\ life' = [life EXCEPT ![r] = "open"]
  /\ target' = [target EXCEPT ![r] = 0]
  /\ UNCHANGED <<stop, woken, loopVars, snapVars, rx>>

(* add(): refused when the IP or the serial number is taken. *)
Add(r, ip) ==
  /\ life[r] = "none" /\ ~stop
  /\ generation < MaxGeneration
  /\ \A e \in entries : e.ip # ip /\ e.serial # SerialOf[r]
  /\ entries' = entries \cup
       {[ip |-> ip, receiver |-> r, serial |-> SerialOf[r], device |-> FALSE]}
  /\ generation' = generation + 1
  /\ since' = [since EXCEPT ![r] = generation + 1]
  /\ life' = [life EXCEPT ![r] = "open"]
  /\ target' = [target EXCEPT ![r] = 0]
  /\ UNCHANGED <<stop, woken, loopVars, snapVars, rx>>

(* bind(): the public handle; the generation does not change. *)
Bind(r) ==
  /\ life[r] = "open"
  /\ entries' = {IF e.receiver = r THEN [e EXCEPT !.device = TRUE] ELSE e : e \in entries}
  /\ entries' # entries
  /\ UNCHANGED <<generation, stop, life, target, since, woken, loopVars, snapVars, rx>>

(* Mutant: the serial number is stored as the address. *)
RekeyBySerial(r, ip) ==
  /\ life[r] = "open"
  /\ generation < MaxGeneration
  /\ \A e \in entries : e.ip # ip
  /\ entries' = {IF e.receiver = r THEN [e EXCEPT !.ip = e.serial] ELSE e : e \in entries}
  /\ generation' = generation + 1
  /\ since' = [since EXCEPT ![r] = generation + 1]
  /\ UNCHANGED <<stop, life, target, woken, loopVars, snapVars, rx>>

(* rekey(): a reconnect found the LiDAR at another address. *)
Rekey(r, ip) ==
  /\ life[r] = "open"
  /\ generation < MaxGeneration
  /\ \A e \in entries : e.ip # ip
  /\ entries' = {IF e.receiver = r THEN [e EXCEPT !.ip = ip] ELSE e : e \in entries}
  /\ generation' = generation + 1
  /\ since' = [since EXCEPT ![r] = generation + 1]
  /\ UNCHANGED <<stop, life, target, woken, loopVars, snapVars, rx>>

(* remove() up to its wait on cv, which releases `mutex`. *)
Remove(r) ==
  /\ life[r] = "open"
  /\ entries' = {e \in entries : e.receiver # r}
  /\ generation' = generation + 1
  /\ target' = [target EXCEPT ![r] = generation + 1]
  /\ life' = [life EXCEPT ![r] = "removing"]
  /\ since' = [since EXCEPT ![r] = 0]
  /\ UNCHANGED <<stop, woken, loopVars, snapVars, rx>>

(* Mutant: a wake-up is taken for the observation. *)
RemoveWakeReturns(r) ==
  /\ life[r] = "removing" /\ r \in woken
  /\ woken' = woken \ {r}
  /\ life' = [life EXCEPT ![r] = "none"]
  /\ UNCHANGED <<entries, generation, stop, target, since, loopVars, snapVars, rx>>

(* remove() woken on cv: it returns, or its predicate is false and it waits again. *)
RemoveWake(r) ==
  /\ life[r] = "removing" /\ r \in woken
  /\ woken' = woken \ {r}
  /\ life' = [life EXCEPT ![r] = IF observed >= target[r] \/ stop THEN "none" ELSE @]
  /\ UNCHANGED <<entries, generation, stop, target, since, loopVars, snapVars, rx>>

(* A condition variable may wake a waiter without a notification. *)
SpuriousWake(r) ==
  /\ life[r] = "removing" /\ r \notin woken
  /\ woken' = woken \cup {r}
  /\ UNCHANGED <<userVars, loopVars, snapVars, rx>>

(* ~Context(): by contract (context.hpp:46) every Device was destroyed before. *)
Shutdown ==
  /\ ~stop /\ \A r \in Receivers : life[r] = "none"
  /\ stop' = TRUE
  /\ UNCHANGED <<entries, generation, life, target, since, woken, loopVars, snapVars, rx>>

-----------------------------------------------------------------------------
(* The network and the kernel.                                             *)

(* A datagram arrives; a full socket buffer drops it. *)
Arrive(p, ip) ==
  /\ Len(rx[p]) < RxCapacity
  /\ rx' = [rx EXCEPT ![p] = Append(@, [ip |-> ip, gen |-> generation])]
  /\ UNCHANGED <<userVars, woken, loopVars, snapVars>>

-----------------------------------------------------------------------------
(* The receive thread.                                                     *)

(* Mutant: the stop flag is not looked at. *)
LoopUnstopped ==
  /\ pc = "loop"
  /\ pc' = "check"
  /\ ret' = "tick"
  /\ UNCHANGED <<userVars, woken, snapVars, rx, todo, active, ready, cur, round, full, batch>>

(* The head of the loop: leave on stop, otherwise refresh. *)
Loop ==
  /\ pc = "loop"
  /\ pc' = IF stop THEN "exit" ELSE "check"
  /\ ret' = "tick"
  /\ UNCHANGED <<userVars, woken, snapVars, rx, todo, active, ready, cur, round, full, batch>>

(* refresh, outside the mutex: nothing to do when the generation was seen. *)
RefreshCheck ==
  /\ pc = "check"
  /\ IF generation = seen
     THEN /\ pc' = ret
          /\ todo' = IF ret = "tick" THEN ReceiversOf(snapshot) ELSE todo
     ELSE pc' = "copy" /\ UNCHANGED todo
  /\ UNCHANGED <<userVars, woken, snapVars, rx, ret, active, ready, cur, round, full, batch>>

(* Mutant: nobody is notified. *)
RefreshCopySilent ==
  /\ pc = "copy"
  /\ snapshot' = entries
  /\ seen' = generation
  /\ observed' = generation
  /\ pc' = ret
  /\ todo' = IF ret = "tick" THEN ReceiversOf(entries) ELSE todo
  /\ UNCHANGED <<userVars, woken, rx, ret, active, ready, cur, round, full, batch>>

(* refresh, under the mutex: copy the entries and wake every remove(). *)
RefreshCopy ==
  /\ pc = "copy"
  /\ snapshot' = entries
  /\ seen' = generation
  /\ observed' = generation
  /\ woken' = {r \in Receivers : life[r] = "removing"}
  /\ pc' = ret
  /\ todo' = IF ret = "tick" THEN ReceiversOf(entries) ELSE todo
  /\ UNCHANGED <<userVars, rx, ret, active, ready, cur, round, full, batch>>

(* receiver->tick() is called for each entry of the snapshot in turn. *)
BeginTick(r) ==
  /\ pc = "tick" /\ r \in todo
  /\ todo' = todo \ {r}
  /\ active' = r
  /\ pc' = "ticking"
  /\ UNCHANGED <<userVars, woken, snapVars, rx, ret, ready, cur, round, full, batch>>

EndTick ==
  /\ pc = "ticking"
  /\ active' = None
  /\ pc' = "tick"
  /\ UNCHANGED <<userVars, woken, snapVars, rx, ret, todo, ready, cur, round, full, batch>>

(* poller.wait(): the sockets with data, none after the timeout or a wake-up. *)
Poll ==
  /\ pc = "tick" /\ todo = {}
  /\ ready' = {p \in Ports : rx[p] # <<>>}
  /\ pc' = "next"
  /\ UNCHANGED <<userVars, woken, snapVars, rx, ret, todo, active, cur, round, full, batch>>

(* poller.wait() fails (EINTR or similar): the next iteration. *)
PollFails ==
  /\ pc = "tick" /\ todo = {}
  /\ pc' = "loop"
  /\ UNCHANGED <<userVars, woken, snapVars, rx, ret, todo, active, ready, cur, round, full, batch>>

(* The next ready socket, or the next iteration. *)
NextSocket(p) ==
  /\ pc = "next" /\ p \in ready
  /\ ready' = ready \ {p}
  /\ cur' = p /\ round' = 0 /\ pc' = "recv"
  /\ UNCHANGED <<userVars, woken, snapVars, rx, ret, todo, active, full, batch>>

NoMoreSockets ==
  /\ pc = "next" /\ ready = {}
  /\ cur' = None /\ round' = 0 /\ full' = FALSE /\ pc' = "loop"
  /\ UNCHANGED <<userVars, woken, snapVars, rx, ret, todo, active, ready, batch>>

(* Mutant: the datagrams are dispatched with the snapshot at hand. *)
AfterReceiveDirect == pc' = "dispatch" /\ ret' = "dispatch"

(* After a batch: refresh, then dispatch (#124). *)
AfterReceive == pc' = "check" /\ ret' = "dispatch"

(* recv_batch(): kWouldBlock ends the socket; otherwise the datagrams are taken. *)
RecvBatch ==
  LET n == IF Len(rx[cur]) < BatchSize THEN Len(rx[cur]) ELSE BatchSize IN
  /\ pc = "recv"
  /\ IF n = 0
     THEN /\ pc' = "next"
          /\ UNCHANGED <<rx, batch, ret, round, full>>
     ELSE /\ batch' = SubSeq(rx[cur], 1, n)
          /\ rx' = [rx EXCEPT ![cur] = SubSeq(@, n + 1, Len(@))]
          /\ round' = round + 1
          /\ full' = (n = BatchSize)
          /\ AfterReceive
  /\ UNCHANGED <<userVars, woken, snapVars, todo, active, ready, cur>>

(* recv_batch() fails with another error than kWouldBlock: the socket is left. *)
RecvFails ==
  /\ pc = "recv"
  /\ pc' = "next"
  /\ UNCHANGED <<userVars, woken, snapVars, rx, ret, todo, active, ready, cur, round, full, batch>>

(* Mutant: the next socket is only chosen once this one is empty. *)
BatchDoneUnbounded ==
  /\ pc = "dispatch" /\ batch = <<>>
  /\ pc' = IF full THEN "recv" ELSE "next"
  /\ round' = 0
  /\ UNCHANGED <<userVars, woken, snapVars, rx, ret, todo, active, ready, cur, full, batch>>

(* A datagram whose source is in the snapshot goes to that receiver. *)
Dispatch ==
  /\ pc = "dispatch" /\ batch # <<>>
  /\ \E e \in snapshot :
       /\ e.ip = Head(batch).ip
       /\ active' = e.receiver
  /\ batch' = Tail(batch)
  /\ pc' = "calling"
  /\ UNCHANGED <<userVars, woken, snapVars, rx, ret, todo, ready, cur, round, full>>

(* Any other datagram is counted in unknown_source. *)
UnknownSource ==
  /\ pc = "dispatch" /\ batch # <<>>
  /\ \A e \in snapshot : e.ip # Head(batch).ip
  /\ batch' = Tail(batch)
  /\ UNCHANGED <<userVars, woken, snapVars, rx, pc, ret, todo, active, ready, cur, round, full>>

EndDatagram ==
  /\ pc = "calling"
  /\ active' = None
  /\ pc' = "dispatch"
  /\ UNCHANGED <<userVars, woken, snapVars, rx, ret, todo, ready, cur, round, full, batch>>

(* A full batch is followed by another one of the same socket, MaxRounds at most. *)
BatchDone ==
  /\ pc = "dispatch" /\ batch = <<>>
  /\ pc' = IF full /\ round < MaxRounds THEN "recv" ELSE "next"
  /\ UNCHANGED <<userVars, woken, snapVars, rx, ret, todo, active, ready, cur, round, full, batch>>

(* The end of run(): let a remove() that raced with shutdown return. *)
Exit ==
  /\ pc = "exit"
  /\ woken' = {r \in Receivers : life[r] = "removing"}
  /\ pc' = "done"
  /\ UNCHANGED <<userVars, snapVars, rx, ret, todo, active, ready, cur, round, full, batch>>

-----------------------------------------------------------------------------
User ==
  \/ \E r \in Receivers : Bind(r) \/ Remove(r) \/ RemoveWake(r) \/ SpuriousWake(r)
  \/ \E r \in Receivers, ip \in Ips : Add(r, ip) \/ Rekey(r, ip)
  \/ Shutdown

Receive ==
  \/ Loop \/ RefreshCheck \/ RefreshCopy
  \/ \E r \in Receivers : BeginTick(r)
  \/ EndTick \/ Poll \/ PollFails \/ NoMoreSockets \/ RecvBatch \/ RecvFails
  \/ \E p \in Ports : NextSocket(p)
  \/ Dispatch \/ UnknownSource \/ EndDatagram \/ BatchDone \/ Exit

Network == \E p \in Ports, ip \in Ips : Arrive(p, ip)

(* The process may stop once the Context is gone. *)
Terminated == pc = "done" /\ UNCHANGED vars

Next == User \/ Receive \/ Network \/ Terminated

Spec == Init /\ [][Next]_vars

(***************************************************************************)
(* The receive thread is scheduled and user callbacks return (rule 1 of    *)
(* the threading rules); a notified remove() is scheduled too.  A poll     *)
(* that is tried again and again succeeds at some point.  Nothing is       *)
(* assumed of the user's calls or of the network.                          *)
(***************************************************************************)
Fairness ==
  /\ WF_vars(Receive) /\ SF_vars(Poll)
  /\ \A r \in Receivers : WF_vars(RemoveWake(r))

FairSpec == Spec /\ Fairness

-----------------------------------------------------------------------------
(* Every variable has its type. *)
TypeOK ==
  /\ entries \in SUBSET Entry /\ snapshot \in SUBSET Entry
  /\ generation \in Nat /\ observed \in Nat /\ seen \in Nat
  /\ stop \in BOOLEAN
  /\ life \in [Receivers -> {"none", "open", "removing"}]
  /\ target \in [Receivers -> Nat] /\ since \in [Receivers -> Nat]
  /\ woken \in SUBSET Receivers
  /\ pc \in {"loop", "check", "copy", "tick", "ticking", "next", "recv",
             "dispatch", "calling", "exit", "done"}
  /\ ret \in {"tick", "dispatch"}
  /\ todo \in SUBSET Receivers
  /\ active \in Receivers \cup {None}
  /\ ready \in SUBSET Ports /\ cur \in Ports \cup {None}
  /\ round \in Nat /\ full \in BOOLEAN
  /\ batch \in Seq(Datagram)
  /\ rx \in [Ports -> Seq(Datagram)]

(* No two entries share an IP or a serial number, in the registry and in the  *)
(* copy the receive thread dispatches with: one source has one receiver       *)
(* (add() and rekey() refuse duplicates, context.cpp:45-50 and 78-80).        *)
UniqueKeys ==
  \A S \in {entries, snapshot} : \A e, f \in S :
    e.ip = f.ip \/ e.serial = f.serial \/ e.receiver = f.receiver => e = f

(* The receive thread neither is inside a call of r nor will make one with the *)
(* snapshot it holds. *)
Dropped(r) == r \notin ReceiversOf(snapshot) /\ r \notin todo /\ active # r

(* Once remove() has returned, the receive thread neither is inside a call of *)
(* the removed receiver nor will make another one: it is in no snapshot, not  *)
(* due for a tick and not being called (context_impl.hpp:76-78).  The memory  *)
(* of the Device::Impl is freed right after.                                  *)
NoCallbackAfterRemove ==
  \A r \in Receivers : life[r] = "none" => Dropped(r)

(* A datagram that reached the host after its source was registered is never  *)
(* counted as unknown: when it is dispatched, the snapshot holds every entry  *)
(* that has been in place since before its arrival (#124, the refresh after   *)
(* recv_batch, context.cpp:103-105 and 178).                                  *)
RegisteredSourceFound ==
  pc = "dispatch" => \A i \in DOMAIN batch : \A e \in entries :
    e.ip = batch[i].ip /\ since[e.receiver] <= batch[i].gen =>
      \E f \in snapshot : f.ip = e.ip /\ f.receiver = e.receiver

(* A registered source has one receiver, and the dispatch finds it.           *)
DispatchSound == UniqueKeys /\ RegisteredSourceFound

-----------------------------------------------------------------------------
(* The inductive invariant behind the three properties above.               *)

(* Entries belong to open receivers, and nothing is newer than `generation`. *)
EntriesOpen ==
  \A e \in entries : life[e.receiver] = "open" /\ since[e.receiver] <= generation

(* `snapshot` holds every entry unchanged since the generation it was taken at. *)
SnapshotCurrent ==
  /\ observed = seen /\ seen <= generation
  /\ \A e \in entries : since[e.receiver] <= seen =>
       \E f \in snapshot : f.ip = e.ip /\ f.receiver = e.receiver

(* A removal that has been observed has left the receive thread. *)
RemovalObserved ==
  /\ \A r \in Receivers : life[r] = "removing" =>
       target[r] <= generation /\ (target[r] <= observed => Dropped(r))
  /\ stop => \A r \in Receivers : life[r] = "none"

(* What the receive thread's local variables hold at each point of the loop. *)
LoopLocals ==
  /\ pc \notin {"tick", "ticking"} => todo = {}
  /\ pc \notin {"ticking", "calling"} => active = None
  /\ pc \in {"recv", "dispatch", "calling"} => cur \in Ports
  /\ pc \in {"check", "copy"} /\ ret = "dispatch" => cur \in Ports

(* A datagram is no newer than the registry, nor than the snapshot it meets. *)
DatagramsSeen ==
  /\ \A p \in Ports : \A i \in DOMAIN rx[p] : rx[p][i].gen <= generation
  /\ \A i \in DOMAIN batch :
       /\ batch[i].gen <= generation
       /\ pc \in {"dispatch", "calling"} => batch[i].gen <= seen

IInv ==
  /\ TypeOK /\ UniqueKeys /\ NoCallbackAfterRemove
  /\ EntriesOpen /\ SnapshotCurrent /\ RemovalObserved /\ LoopLocals /\ DatagramsSeen

-----------------------------------------------------------------------------
(* remove() returns: the receive thread renews its snapshot and notifies, and *)
(* no notification is lost (context.cpp:92-94 and 110-114).                   *)
RemoveReturns ==
  \A r \in Receivers : life[r] = "removing" ~> life[r] = "none"

(* However busy the sockets are, the receive thread comes back to the top of  *)
(* its loop, where it polls every socket and ticks every Device: the drain of *)
(* one socket is bounded (context.cpp:166-167).                               *)
LoopTurns == []<>(pc \in {"loop", "done"})

(* ~Context() can join the receive thread (context.cpp:284-288).              *)
ShutdownJoins == stop ~> pc = "done"

(* The receive thread keeps serving until it is stopped, and then ends.       *)
LoopLives == LoopTurns /\ ShutdownJoins
=============================================================================
