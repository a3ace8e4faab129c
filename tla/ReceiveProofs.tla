---------------------------- MODULE ReceiveProofs ----------------------------
(***************************************************************************)
(* Proofs about Receive for every number of users, callbacks, policies,    *)
(* pushes and restarts: what users hand to the receive thread reaches it   *)
(* (CallbackInv, PolicyInv), the events tell the status (StatusInv), and   *)
(* the time base is of the instance that sends (BaseInv).                  *)
(***************************************************************************)
EXTENDS Receive, TLAPS

Callback == [gen : Nat, stops : Nat]

(* The handler that runs is at one of its stages. *)
RxOK ==
  /\ rx \in [kind : {"idle", "data", "imu", "debug", "push", "tick"}, at : Nat,
             connected : BOOLEAN, since : [Slots -> Callback]]
  /\ rx.kind \in {"data", "imu"} => rx.at \in 1..7
  /\ rx.kind = "debug" => rx.at \in 1..3
  /\ rx.kind = "push" => rx.at \in 1..4
  /\ rx.kind = "tick" => rx.at \in 1..9

SlotsOK ==
  /\ slots \in [Slots -> Callback] /\ rx_slots \in [Slots -> Callback]
  /\ cb_generation \in Nat /\ cb_seen \in Nat /\ stops \in Nat /\ connected \in BOOLEAN
  /\ DOMAIN pc = Users /\ DOMAIN job = Users
  /\ \A u \in Users : pc[u] = "store" => job[u] \in Slots

(* The handler has refreshed its callbacks. *)
Refreshed(r) ==
  \/ r.kind \in {"data", "imu"} /\ r.at >= 7
  \/ r.kind \in {"debug", "push", "tick"} /\ r.at >= 3

(* The generation tells whether the copy of the slots is current. *)
CallbackInv ==
  /\ cb_seen <= cb_generation
  /\ \A s \in Slots : slots[s].gen < cb_generation
  /\ cb_seen = cb_generation => rx_slots = slots
  /\ rx.kind # "idle" => \A s \in Slots : slots[s].gen >= rx.since[s].gen
  /\ Refreshed(rx) => \A s \in Slots : rx_slots[s].gen >= rx.since[s].gen

AssemblerOK ==
  /\ assembler \in [policy : Policies, partial : Nat \cup {None}, base : Nat \cup {None}]
  /\ frame_policy \in Policies /\ policy_pending \in Policies \cup {None} /\ instance \in Nat

(* A policy that waits is the last one that was set, and somebody will take it. *)
PolicyInv ==
  /\ policy_pending = None => assembler.policy = frame_policy
  /\ policy_pending # None =>
       /\ policy_pending = frame_policy
       /\ policy_requested \/ At("take") \/ \E u \in Users : pc[u] = "announce"

StatusOK == DOMAIN told = Fields

(* What the events of the next push are compared with is what was told. *)
StatusInv ==
  /\ EventsTellStatus
  /\ hms_sorted = told["hms_code"] /\ diag_seen = told["lidar_diag_status"]
  /\ pushes \in Nat /\ merged \in Nat /\ pushes <= merged
  /\ At("count") => pushes < merged

Stale == assembler.base \notin {None, instance}

(* A time base of an earlier instance is dropped before a packet of the new one. *)
BaseInv ==
  /\ Stale => rebase_requested \/ (~connected /\ ~attempted)
  /\ rx.kind \in {"data", "imu"} /\ rx.connected = TRUE /\ Stale => rebase_requested /\ rx.at <= 2

-----------------------------------------------------------------------------
(* Where each stage is in the program of its handler. *)
LEMMA Stages ==
  ASSUME RxOK
  PROVE  /\ At("discard") => (rx.kind \in {"data", "imu"} /\ rx.at = 1) \/ (rx.kind = "tick" /\ rx.at = 5)
         /\ At("rebase") => (rx.kind \in {"data", "imu"} /\ rx.at = 2) \/ (rx.kind = "tick" /\ rx.at = 6)
         /\ At("policy") => (rx.kind \in {"data", "imu"} /\ rx.at = 3) \/ (rx.kind = "tick" /\ rx.at = 7)
         /\ At("take") <=> (rx.kind \in {"data", "imu"} /\ rx.at = 4) \/ (rx.kind = "tick" /\ rx.at = 8)
         /\ At("load") => (rx.kind \in {"data", "imu"} /\ rx.at = 5)
                            \/ (rx.kind \in {"debug", "push", "tick"} /\ rx.at = 1)
         /\ At("copy") => (rx.kind \in {"data", "imu"} /\ rx.at = 6)
                            \/ (rx.kind \in {"debug", "push", "tick"} /\ rx.at = 2)
         /\ At("packet") => rx.kind = "data" /\ rx.at = 7
         /\ At("samples") => rx.kind = "imu" /\ rx.at = 7
         /\ At("payload") => rx.kind = "debug" /\ rx.at = 3
         /\ At("merge") => rx.kind = "push" /\ rx.at = 3
         /\ At("count") <=> rx.kind = "push" /\ rx.at = 4
         /\ At("timeout") => rx.kind = "tick" /\ rx.at = 3
         /\ At("drop") => rx.kind = "tick" /\ rx.at = 4
         /\ At("flush") => rx.kind = "tick" /\ rx.at = 9
<1>0. rx.kind \in {"idle", "data", "imu", "debug", "push", "tick"} /\ rx.at \in Nat
  BY Zenon DEF RxOK
<1>1. CASE rx.kind = "idle"
  BY <1>1, Zenon DEF At
<1>2. CASE rx.kind = "data"
  <2>1. rx.at \in 1..7
        /\ Program[rx.kind] = <<"discard", "rebase", "policy", "take", "load", "copy", "packet">>
    BY <1>2 DEF RxOK, Program
  <2> QED BY <1>2, <2>1 DEF At
<1>3. CASE rx.kind = "imu"
  <2>1. rx.at \in 1..7
        /\ Program[rx.kind] = <<"discard", "rebase", "policy", "take", "load", "copy", "samples">>
    BY <1>3 DEF RxOK, Program
  <2> QED BY <1>3, <2>1 DEF At
<1>4. CASE rx.kind = "debug"
  <2>1. rx.at \in 1..3 /\ Program[rx.kind] = <<"load", "copy", "payload">>
    BY <1>4 DEF RxOK, Program
  <2> QED BY <1>4, <2>1 DEF At
<1>5. CASE rx.kind = "push"
  <2>1. rx.at \in 1..4 /\ Program[rx.kind] = <<"load", "copy", "merge", "count">>
    BY <1>5 DEF RxOK, Program
  <2> QED BY <1>5, <2>1 DEF At
<1>6. CASE rx.kind = "tick"
  <2>1. rx.at \in 1..9
        /\ Program[rx.kind] = <<"load", "copy", "timeout", "drop", "discard", "rebase", "policy",
                                "take", "flush">>
    BY <1>6 DEF RxOK, Program
  <2> QED BY <1>6, <2>1 DEF At
<1> QED BY <1>0, <1>1, <1>2, <1>3, <1>4, <1>5, <1>6, Zenon

(* The handler goes on or has returned; what it noted when it began stays. *)
GoesOn(n) ==
  \/ /\ rx'.kind = "idle"
     /\ rx.kind \in {"data", "imu"} => rx.at + n > 7
     /\ rx.kind = "push" => rx.at + n > 4
     /\ rx.kind = "tick" => rx.at + n > 9
  \/ /\ rx'.kind = rx.kind /\ rx'.at = rx.at + n
     /\ rx'.connected = rx.connected /\ rx'.since = rx.since

LEMMA SkipStep ==
  ASSUME RxOK, rx.kind # "idle", NEW n \in {1, 2}, Skip(n)
  PROVE  RxOK' /\ GoesOn(n)
<1> DEFINE Length == Len(Program[rx.kind])
<1>1. /\ rx.kind \in {"data", "imu"} => Length = 7
      /\ rx.kind = "debug" => Length = 3
      /\ rx.kind = "push" => Length = 4
      /\ rx.kind = "tick" => Length = 9
  BY DEF Program
<1>2. CASE rx.at + n > Length
  <2>1. rx' = Idle
    BY <1>2, Zenon DEF Skip
  <2>2. Idle.kind = "idle"
    BY Zenon DEF Idle
  <2>3. Idle \in [kind : {"idle", "data", "imu", "debug", "push", "tick"}, at : Nat,
                  connected : BOOLEAN, since : [Slots -> Callback]]
    BY Zenon DEF Idle, NoCallback, Callback
  <2> HIDE DEF Length
  <2>4. /\ rx.kind \in {"data", "imu"} => rx.at + n > 7
        /\ rx.kind = "push" => rx.at + n > 4
        /\ rx.kind = "tick" => rx.at + n > 9
    BY <1>1, <1>2, Zenon
  <2> QED BY <2>1, <2>2, <2>3, <2>4, Zenon DEF RxOK, GoesOn
<1>3. CASE ~(rx.at + n > Length)
  <2>1. rx' = [rx EXCEPT !.at = @ + n]
    BY <1>3, Zenon DEF Skip
  <2>2. /\ rx' \in [kind : {"idle", "data", "imu", "debug", "push", "tick"}, at : Nat,
                    connected : BOOLEAN, since : [Slots -> Callback]]
        /\ rx'.kind = rx.kind /\ rx'.at = rx.at + n /\ rx'.since = rx.since
    BY <2>1 DEF RxOK
  <2>3. rx'.connected = rx.connected
    BY <2>1, Zenon DEF RxOK
  <2>4. rx.at \in 1..Length /\ rx.at + n \in 1..Length
    BY <1>1, <1>3 DEF RxOK
  <2> HIDE DEF Length
  <2>5. /\ rx.kind \in {"data", "imu"} => rx.at + n \in 1..7
        /\ rx.kind = "debug" => rx.at + n \in 1..3
        /\ rx.kind = "push" => rx.at + n \in 1..4
        /\ rx.kind = "tick" => rx.at + n \in 1..9
    BY <1>1, <2>4, Zenon
  <2>6. RxOK'
    BY <2>2, <2>5, Zenon DEF RxOK
  <2> QED BY <2>2, <2>3, <2>6, Zenon DEF GoesOn
<1> QED BY <1>2, <1>3, Zenon

(* A handler begins. *)
LEMMA DispatchStep ==
  ASSUME RxOK, SlotsOK, NEW kind \in DOMAIN Program, Dispatch(kind)
  PROVE  /\ RxOK' /\ rx'.kind = kind /\ rx'.at = 1 /\ rx'.since = slots
         /\ rx'.connected = connected
<1>1. kind \in {"data", "imu", "debug", "push", "tick"}
  BY Zenon DEF Program
<1>2. rx' = [kind |-> kind, at |-> 1, connected |-> connected, since |-> slots]
  BY Zenon DEF Dispatch
<1>3. connected \in BOOLEAN /\ slots \in [Slots -> Callback]
  BY Zenon DEF SlotsOK
<1>4. rx' \in [kind : {"idle", "data", "imu", "debug", "push", "tick"}, at : Nat,
               connected : BOOLEAN, since : [Slots -> Callback]]
  BY <1>1, <1>2, <1>3, Zenon
<1>5. rx'.kind = kind /\ rx'.at = 1 /\ rx'.since = slots
  BY <1>2, Zenon
<1>6. rx'.connected = connected
  BY <1>2, Zenon
<1>7. 1 \in 1..3 /\ 1 \in 1..4 /\ 1 \in 1..7 /\ 1 \in 1..9
  OBVIOUS
<1> QED BY <1>4, <1>5, <1>6, <1>7, Zenon DEF RxOK

(* The handler that runs takes a step: it leaves its stage. *)
LEMMA HandleStep ==
  ASSUME RxOK, Handle
  PROVE  RxOK' /\ rx.kind # "idle" /\ \E n \in {1, 2} : GoesOn(n)
<1>1. rx.kind # "idle"
  BY Zenon DEF Handle, At, ConsumeDiscard, ConsumeRebase, ConsumePolicy, TakePolicy, RefreshLoad,
         RefreshCopy, Packet, PassOn, TickTimeout, TickDiscards, Flush, Count, Merge
<1>2. Skip(1) \/ Skip(2)
  BY Zenon DEF Handle, ConsumeDiscard, ConsumeRebase, ConsumePolicy, TakePolicy, RefreshLoad,
         RefreshCopy, Packet, PassOn, TickTimeout, TickDiscards, Flush, Count, Merge
<1> QED BY <1>1, <1>2, SkipStep, Zenon

(* What is not the receive thread does not move it. *)
LEMMA OthersLeaveRx ==
  ASSUME (\E u \in Users : User(u)) \/ Link \/ UNCHANGED vars
  PROVE  UNCHANGED <<rx, rx_slots, cb_seen, assembler>>
<1>1. ASSUME NEW u \in Users, User(u)
      PROVE  UNCHANGED <<rx, rx_slots, cb_seen, assembler>>
  BY <1>1, Zenon DEF User, SetCallback, StoreCallback, SetFramePolicy, AnnouncePolicy, StartSampling,
              StopSampling, StopDiscards, rxVars
<1>2. CASE Link
  BY <1>2, Zenon DEF Link, Declare, DeclareDiscards, AttemptRebases, AttemptConnects, LidarRestarts, rxVars
<1>3. CASE UNCHANGED vars
  BY <1>3, Zenon DEF vars, rxVars
<1> QED BY <1>1, <1>2, <1>3, Zenon

LEMMA RxStep ==
  ASSUME RxOK, SlotsOK, [Next]_vars
  PROVE  RxOK'
<1>1. CASE \E kind \in DOMAIN Program : Dispatch(kind)
  BY <1>1, DispatchStep, Zenon
<1>2. CASE Handle
  BY <1>2, HandleStep, Zenon
<1>3. CASE (\E u \in Users : User(u)) \/ Link \/ UNCHANGED vars
  BY <1>3, OthersLeaveRx, Zenon DEF RxOK
<1> QED BY <1>1, <1>2, <1>3, Zenon DEF Next

(* Only StoreCallback(u) changes the slots, only RefreshCopy the copy of them, and only *)
(* a call of the user moves its thread.                                                 *)
LEMMA HandleLeavesSlots ==
  ASSUME Handle \/ (\E kind \in DOMAIN Program : Dispatch(kind)) \/ Link \/ UNCHANGED vars
  PROVE  UNCHANGED <<slots, cb_generation, stops, pc, job>>
<1>1. CASE Handle
  BY <1>1, Zenon
     DEF Handle, ConsumeDiscard, ConsumeRebase, ConsumePolicy, TakePolicy, RefreshLoad,
         RefreshCopy, Packet, PassOn, TickTimeout, TickDiscards, Flush, Count, Merge, slotVars,
         callVars
<1>2. CASE \E kind \in DOMAIN Program : Dispatch(kind)
  BY <1>2, Zenon DEF Dispatch, slotVars, callVars
<1>3. CASE Link
  BY <1>3, Zenon DEF Link, Declare, DeclareDiscards, AttemptRebases, AttemptConnects, LidarRestarts,
              slotVars, callVars
<1>4. CASE UNCHANGED vars
  BY <1>4, Zenon DEF vars, slotVars, callVars
<1> QED BY <1>1, <1>2, <1>3, <1>4, Zenon

(* A handler keeps its copy of the callbacks, except at "copy". *)
LEMMA HandleKeepsCopy ==
  ASSUME Handle \/ \E kind \in DOMAIN Program : Dispatch(kind), ~RefreshCopy
  PROVE  UNCHANGED <<rx_slots, cb_seen>>
  BY Zenon
     DEF Handle, ConsumeDiscard, ConsumeRebase, ConsumePolicy, TakePolicy, RefreshLoad,
         Packet, PassOn, TickTimeout, TickDiscards, Flush, Count, Merge, Dispatch

-----------------------------------------------------------------------------
(* set_callback() stores one slot with the generation it takes. *)
LEMMA StoreStep ==
  ASSUME SlotsOK, CallbackInv, NEW u \in Users, StoreCallback(u)
  PROVE  /\ slots' \in [Slots -> Callback] /\ cb_generation' = cb_generation + 1
         /\ \A s \in Slots : slots'[s].gen >= slots[s].gen /\ slots'[s].gen <= cb_generation
<1> DEFINE c == [gen |-> cb_generation, stops |-> stops]
           t == job[u]
           w == slots'
<1>1. t \in Slots /\ c \in Callback /\ c.gen = cb_generation
  BY Zenon DEF SlotsOK, StoreCallback, Callback
<1>2. w = [slots EXCEPT ![t] = c] /\ cb_generation' = cb_generation + 1
  BY Zenon DEF StoreCallback
<1> HIDE DEF c, t, w
<1>3. w \in [Slots -> Callback] /\ w[t] = c /\ \A s \in Slots : s # t => w[s] = slots[s]
  BY <1>1, <1>2, Zenon DEF SlotsOK
<1>4. ASSUME NEW s \in Slots
      PROVE  w[s].gen >= slots[s].gen /\ w[s].gen <= cb_generation
  <2>1. slots[s].gen \in Nat /\ cb_generation \in Nat /\ slots[s].gen < cb_generation
    BY Zenon DEF SlotsOK, Callback, CallbackInv
  <2>2. CASE s = t
    BY <1>1, <1>3, <2>1, <2>2
  <2>3. CASE s # t
    BY <1>3, <2>1, <2>3
  <2> QED BY <2>2, <2>3, Zenon
<1> QED BY <1>2, <1>3, <1>4, Zenon DEF w

(* The thread of a user and its argument. *)
LEMMA UserJobs ==
  ASSUME SlotsOK, NEW u \in Users, User(u)
  PROVE  /\ DOMAIN pc' = Users /\ DOMAIN job' = Users
         /\ \A v \in Users : pc'[v] = "store" => job'[v] \in Slots
<1>1. CASE SetCallback(u)
  <2>1. PICK s \in Slots : Call(u, "store", s)
    BY <1>1, Zenon DEF SetCallback
  <2> QED BY <2>1, Zenon DEF Call, SlotsOK
<1>2. CASE SetFramePolicy(u)
  <2>1. PICK p \in Policies : Call(u, "announce", p)
    BY <1>2, Zenon DEF SetFramePolicy
  <2> QED BY <2>1, Zenon DEF Call, SlotsOK
<1>3. CASE StartSampling(u) \/ StopSampling(u)
  <2>1. PICK l \in {"idle", "discard"} : Call(u, l, None)
    BY <1>3, Zenon DEF StartSampling, StopSampling
  <2> QED BY <2>1, Zenon DEF Call, SlotsOK
<1>4. CASE StoreCallback(u) \/ AnnouncePolicy(u) \/ StopDiscards(u)
  <2>1. Goto(u, "idle")
    BY <1>4, Zenon DEF StoreCallback, AnnouncePolicy, StopDiscards
  <2> QED BY <2>1, Zenon DEF Goto, SlotsOK
<1> QED BY <1>1, <1>2, <1>3, <1>4, Zenon DEF User

(* `connected` is written by the outage, the attempt and the timeout. *)
LEMMA ConnectedStep ==
  ASSUME SlotsOK, [Next]_vars
  PROVE  connected' \in BOOLEAN
<1>0. connected \in BOOLEAN
  BY Zenon DEF SlotsOK
<1>1. CASE \E kind \in DOMAIN Program : Dispatch(kind)
  BY <1>0, <1>1, Zenon DEF Dispatch, requestVars
<1>2. CASE Handle
  <2>1. connected' = connected \/ connected' = FALSE
    BY <1>2, Zenon
       DEF Handle, ConsumeDiscard, ConsumeRebase, ConsumePolicy, TakePolicy, RefreshLoad,
           RefreshCopy, Packet, PassOn, TickTimeout, TickDiscards, Flush, Count, Merge, requestVars
  <2> QED BY <1>0, <2>1, Zenon
<1>3. ASSUME NEW u \in Users, User(u)
      PROVE  connected' = connected
  BY <1>3, Zenon DEF User, SetCallback, StoreCallback, SetFramePolicy, AnnouncePolicy, StartSampling,
              StopSampling, StopDiscards, requestVars
<1>4. CASE Link
  <2>1. connected' = connected \/ connected' = FALSE \/ connected' = TRUE
    BY <1>4, Zenon DEF Link, Declare, DeclareDiscards, AttemptRebases, AttemptConnects,
                       LidarRestarts, requestVars
  <2> QED BY <1>0, <2>1, Zenon
<1>5. CASE UNCHANGED vars
  BY <1>0, <1>5, Zenon DEF vars, requestVars
<1> QED BY <1>0, <1>1, <1>2, <1>3, <1>4, <1>5, Zenon DEF Next

(* Before "copy" a handler has not refreshed, after it it has. *)
LEMMA RefreshedStays ==
  ASSUME NEW r, NEW q, NEW n \in {1, 2}, r.at \in Nat, q.kind = r.kind, q.at = r.at + n,
         r.kind \in {"data", "imu"} => r.at \in {1, 2, 3, 4, 7},
         r.kind \in {"debug", "push", "tick"} => r.at >= 3,
         Refreshed(q)
  PROVE  Refreshed(r)
  BY DEF Refreshed

(* The stages other than those of refresh_callbacks(). *)
LEMMA OtherStages ==
  ASSUME RxOK, Handle, ~RefreshLoad, ~RefreshCopy
  PROVE  /\ rx.kind \in {"data", "imu"} => rx.at \in {1, 2, 3, 4, 7}
         /\ rx.kind \in {"debug", "push", "tick"} => rx.at >= 3
<1>1. \/ At("discard") \/ At("rebase") \/ At("policy") \/ At("take") \/ At("packet")
      \/ At("samples") \/ At("payload") \/ At("timeout") \/ At("drop") \/ At("flush") \/ At("count")
      \/ At("merge")
  BY Zenon DEF Handle, ConsumeDiscard, ConsumeRebase, ConsumePolicy, TakePolicy, Packet, PassOn,
               TickTimeout, TickDiscards, Flush, Count, Merge
<1> QED BY <1>1, Stages

LEMMA CallbackHandle ==
  ASSUME RxOK, SlotsOK, CallbackInv, Handle
  PROVE  rx_slots' \in [Slots -> Callback] /\ cb_seen' \in Nat /\ CallbackInv'
<1>0. UNCHANGED <<slots, cb_generation>>
  BY HandleLeavesSlots, Zenon
<1>1. PICK n \in {1, 2} : GoesOn(n)
  BY HandleStep, Zenon
<1>2. rx.kind # "idle" /\ rx.at \in Nat
  BY HandleStep, Zenon DEF RxOK
<1>3. \A s \in Slots : slots[s].gen >= rx.since[s].gen
  BY <1>2, Zenon DEF CallbackInv
<1>4. rx'.kind # "idle" => \A s \in Slots : slots'[s].gen >= rx'.since[s].gen
  BY <1>0, <1>1, <1>3, Zenon DEF GoesOn
<1>5. CASE RefreshCopy
  <2>1. rx_slots' = slots /\ cb_seen' = cb_generation
    BY <1>5, Zenon DEF RefreshCopy
  <2>2. Refreshed(rx') => \A s \in Slots : rx_slots'[s].gen >= rx'.since[s].gen
    BY <1>1, <1>3, <2>1, Zenon DEF GoesOn, Refreshed
  <2>3. cb_generation <= cb_generation
    BY DEF SlotsOK
  <2> QED BY <1>0, <1>4, <2>1, <2>2, <2>3, Zenon DEF CallbackInv, SlotsOK
<1>6. CASE RefreshLoad
  <2>1. UNCHANGED <<rx_slots, cb_seen>>
    BY <1>6, Zenon DEF RefreshLoad
  <2>2. CASE cb_generation = cb_seen
    <3>1. rx_slots = slots
      BY <2>2, Zenon DEF CallbackInv
    <3>2. Refreshed(rx') => \A s \in Slots : rx_slots'[s].gen >= rx'.since[s].gen
      BY <1>1, <1>3, <2>1, <3>1, Zenon DEF GoesOn, Refreshed
    <3> QED BY <1>0, <1>4, <2>1, <3>2, Zenon DEF CallbackInv, SlotsOK
  <2>3. CASE cb_generation # cb_seen
    <3>1. Skip(1)
      BY <1>6, <2>3, Zenon DEF RefreshLoad
    <3>2. GoesOn(1)
      BY <1>2, <3>1, SkipStep, Zenon
    <3>3. (rx.kind \in {"data", "imu"} /\ rx.at = 5)
            \/ (rx.kind \in {"debug", "push", "tick"} /\ rx.at = 1)
      BY <1>6, Stages, Zenon DEF RefreshLoad
    <3>4. ~Refreshed(rx')
      BY <3>2, <3>3 DEF GoesOn, Refreshed
    <3> QED BY <1>0, <1>4, <2>1, <3>4, Zenon DEF CallbackInv, SlotsOK
  <2> QED BY <2>2, <2>3, Zenon
<1>7. CASE ~RefreshCopy /\ ~RefreshLoad
  <2>1. UNCHANGED <<rx_slots, cb_seen>>
    BY <1>7, HandleKeepsCopy, Zenon
  <2>2. /\ rx.kind \in {"data", "imu"} => rx.at \in {1, 2, 3, 4, 7}
        /\ rx.kind \in {"debug", "push", "tick"} => rx.at >= 3
    BY <1>7, OtherStages, Zenon
  <2>3. Refreshed(rx') => Refreshed(rx) /\ rx'.since = rx.since
    <3> SUFFICES ASSUME Refreshed(rx') PROVE Refreshed(rx) /\ rx'.since = rx.since
      BY Zenon
    <3>1. rx'.kind = rx.kind /\ rx'.at = rx.at + n /\ rx'.since = rx.since
      BY <1>1, Zenon DEF GoesOn, Refreshed
    <3> QED BY <1>2, <2>2, <3>1, RefreshedStays, Zenon
  <2>4. Refreshed(rx') => \A s \in Slots : rx_slots'[s].gen >= rx'.since[s].gen
    BY <2>1, <2>3, Zenon DEF CallbackInv
  <2> QED BY <1>0, <1>4, <2>1, <2>4 DEF CallbackInv, SlotsOK
<1> QED BY <1>5, <1>6, <1>7, Zenon

LEMMA CallbackStep ==
  ASSUME RxOK, SlotsOK, CallbackInv, [Next]_vars
  PROVE  SlotsOK' /\ CallbackInv'
<1>0. connected' \in BOOLEAN
  BY ConnectedStep, Zenon
<1>1. CASE Handle
  <2>1. UNCHANGED <<slots, cb_generation, stops, pc, job>>
    BY <1>1, HandleLeavesSlots, Zenon
  <2> QED BY <1>0, <1>1, <2>1, CallbackHandle, Zenon DEF SlotsOK
<1>2. ASSUME NEW kind \in DOMAIN Program, Dispatch(kind)
      PROVE  SlotsOK' /\ CallbackInv'
  <2>1. UNCHANGED <<slots, cb_generation, stops, pc, job>>
    BY <1>2, HandleLeavesSlots, Zenon
  <2>2. UNCHANGED <<rx_slots, cb_seen>>
    BY <1>2, Zenon DEF Dispatch
  <2>3. rx'.at = 1 /\ rx'.since = slots
    BY <1>2, DispatchStep, Zenon
  <2>4. ~Refreshed(rx')
    BY <2>3 DEF Refreshed
  <2>5. \A s \in Slots : slots[s].gen >= slots[s].gen
    BY DEF SlotsOK, Callback
  <2> QED BY <1>0, <2>1, <2>2, <2>3, <2>4, <2>5, Zenon DEF SlotsOK, CallbackInv
<1>3. ASSUME NEW u \in Users, User(u)
      PROVE  SlotsOK' /\ CallbackInv'
  <2>0. UNCHANGED <<rx, rx_slots, cb_seen>>
    BY <1>3, OthersLeaveRx, Zenon
  <2>1. DOMAIN pc' = Users /\ DOMAIN job' = Users
        /\ \A v \in Users : pc'[v] = "store" => job'[v] \in Slots
    BY <1>3, UserJobs, Zenon
  <2>2. stops' \in Nat
    <3>1. stops' = stops \/ stops' = stops + 1
      BY <1>3, Zenon DEF User, SetCallback, StoreCallback, SetFramePolicy, AnnouncePolicy,
                         StartSampling, StopSampling, StopDiscards
    <3> QED BY <3>1 DEF SlotsOK
  <2>3. CASE StoreCallback(u)
    <3>1. /\ slots' \in [Slots -> Callback] /\ cb_generation' = cb_generation + 1
          /\ \A s \in Slots : slots'[s].gen >= slots[s].gen /\ slots'[s].gen <= cb_generation
      BY <2>3, StoreStep, Zenon
    <3> QED BY <1>0, <2>0, <2>1, <2>2, <3>1 DEF SlotsOK, CallbackInv, RxOK, Callback
  <2>4. CASE ~StoreCallback(u)
    <3>1. UNCHANGED <<slots, cb_generation>>
      BY <1>3, <2>4, Zenon DEF User, SetCallback, SetFramePolicy, AnnouncePolicy, StartSampling,
                               StopSampling, StopDiscards, slotVars
    <3> QED BY <1>0, <2>0, <2>1, <2>2, <3>1, Zenon DEF SlotsOK, CallbackInv
  <2> QED BY <2>3, <2>4, Zenon
<1>4. CASE Link \/ UNCHANGED vars
  <2>1. UNCHANGED <<slots, cb_generation, stops, pc, job>>
    BY <1>4, HandleLeavesSlots, Zenon
  <2>2. UNCHANGED <<rx, rx_slots, cb_seen>>
    BY <1>4, OthersLeaveRx, Zenon
  <2> QED BY <1>0, <2>1, <2>2, Zenon DEF SlotsOK, CallbackInv
<1> QED BY <1>1, <1>2, <1>3, <1>4, Zenon DEF Next

-----------------------------------------------------------------------------
(* What a handler does to the assembler: each stage writes one field. *)
LEMMA AssemblerHandle ==
  ASSUME AssemblerOK, SlotsOK, Handle
  PROVE  /\ assembler' \in [policy : Policies, partial : Nat \cup {None}, base : Nat \cup {None}]
         /\ TakePolicy \/ assembler'.policy = assembler.policy
         /\ assembler'.base = assembler.base
              \/ (ConsumeRebase /\ rebase_requested /\ assembler'.base = None)
              \/ (assembler.base = None /\ assembler'.base = instance)
<1>1. stops \in Nat /\ instance \in Nat
  BY Zenon DEF SlotsOK, AssemblerOK
<1>2. CASE ConsumeDiscard
  BY <1>2, Zenon DEF ConsumeDiscard, AssemblerOK
<1>3. CASE ConsumeRebase
  <2>1. CASE rebase_requested
    BY <1>3, <2>1, Zenon DEF ConsumeRebase, AssemblerOK
  <2>2. CASE ~rebase_requested
    BY <1>3, <2>2, Zenon DEF ConsumeRebase, AssemblerOK
  <2> QED BY <2>1, <2>2, Zenon
<1>4. CASE TakePolicy
  BY <1>4, Zenon DEF TakePolicy, AssemblerOK
<1>5. CASE Packet
  <2> DEFINE based == [assembler EXCEPT !.base = IF @ = None THEN instance ELSE @]
             joins == [based EXCEPT !.partial = IF @ = None THEN stops ELSE @]
             next == [based EXCEPT !.partial = stops]
  <2>1. /\ based \in [policy : Policies, partial : Nat \cup {None}, base : Nat \cup {None}]
        /\ based.policy = assembler.policy
        /\ based.base = IF assembler.base = None THEN instance ELSE assembler.base
    BY <1>1, Zenon DEF AssemblerOK
  <2>2. assembler' = joins \/ assembler' = next
    BY <1>5, Zenon DEF Packet
  <2> HIDE DEF based
  <2>3. /\ joins \in [policy : Policies, partial : Nat \cup {None}, base : Nat \cup {None}]
        /\ joins.policy = based.policy /\ joins.base = based.base
    BY <1>1, <2>1, Zenon
  <2>4. /\ next \in [policy : Policies, partial : Nat \cup {None}, base : Nat \cup {None}]
        /\ next.policy = based.policy /\ next.base = based.base
    BY <1>1, <2>1, Zenon
  <2> HIDE DEF joins, next
  <2> QED BY <2>1, <2>2, <2>3, <2>4, Zenon
<1>6. CASE Flush
  BY <1>6, Zenon DEF Flush, AssemblerOK
<1>7. CASE ~(ConsumeDiscard \/ ConsumeRebase \/ TakePolicy \/ Packet \/ Flush)
  <2>1. assembler' = assembler
    BY <1>7, Zenon DEF Handle, ConsumePolicy, RefreshLoad, RefreshCopy, PassOn, TickTimeout,
                       TickDiscards, Count, Merge
  <2> QED BY <2>1, Zenon DEF AssemblerOK
<1> QED BY <1>2, <1>3, <1>4, <1>5, <1>6, <1>7, Zenon

(* Nobody else touches the policy or the instance. *)
LEMMA PolicyLeft ==
  ASSUME Handle \/ (\E kind \in DOMAIN Program : Dispatch(kind)) \/ UNCHANGED vars
  PROVE  UNCHANGED <<frame_policy, instance>>
<1>1. CASE Handle
  BY <1>1, Zenon
     DEF Handle, ConsumeDiscard, ConsumeRebase, ConsumePolicy, TakePolicy, RefreshLoad, RefreshCopy,
         Packet, PassOn, TickTimeout, TickDiscards, Flush, Count, Merge, policyVars, linkVars
<1>2. CASE \E kind \in DOMAIN Program : Dispatch(kind)
  BY <1>2, Zenon DEF Dispatch, policyVars, linkVars
<1>3. CASE UNCHANGED vars
  BY <1>3, Zenon DEF vars, policyVars, linkVars
<1> QED BY <1>1, <1>2, <1>3, Zenon

LEMMA AssemblerStep ==
  ASSUME AssemblerOK, SlotsOK, [Next]_vars
  PROVE  AssemblerOK'
<1>1. CASE Handle
  <2>1. UNCHANGED <<frame_policy, instance>>
    BY <1>1, PolicyLeft, Zenon
  <2>2. policy_pending' = policy_pending \/ policy_pending' = None
    BY <1>1, Zenon
       DEF Handle, ConsumeDiscard, ConsumeRebase, ConsumePolicy, TakePolicy, RefreshLoad,
           RefreshCopy, Packet, PassOn, TickTimeout, TickDiscards, Flush, Count, Merge, policyVars
  <2>3. assembler' \in [policy : Policies, partial : Nat \cup {None}, base : Nat \cup {None}]
    BY <1>1, AssemblerHandle, Zenon
  <2> QED BY <2>1, <2>2, <2>3, Zenon DEF AssemblerOK
<1>2. CASE \E kind \in DOMAIN Program : Dispatch(kind)
  BY <1>2, Zenon DEF Dispatch, policyVars, linkVars, AssemblerOK
<1>3. ASSUME NEW u \in Users, User(u)
      PROVE  AssemblerOK'
  <2>1. UNCHANGED <<assembler, instance>>
    BY <1>3, Zenon DEF User, SetCallback, StoreCallback, SetFramePolicy, AnnouncePolicy,
                       StartSampling, StopSampling, StopDiscards, rxVars, linkVars
  <2>2. \/ UNCHANGED <<frame_policy, policy_pending>>
        \/ \E p \in Policies : frame_policy' = p /\ policy_pending' = p
    BY <1>3, Zenon DEF User, SetCallback, StoreCallback, SetFramePolicy, AnnouncePolicy,
                       StartSampling, StopSampling, StopDiscards, policyVars
  <2> QED BY <2>1, <2>2, Zenon DEF AssemblerOK
<1>4. CASE Link
  <2>1. UNCHANGED <<assembler, frame_policy, policy_pending>>
    BY <1>4, Zenon DEF Link, Declare, DeclareDiscards, AttemptRebases, AttemptConnects, LidarRestarts,
                rxVars, policyVars
  <2>2. instance' = instance \/ instance' = instance + 1
    BY <1>4, Zenon DEF Link, Declare, DeclareDiscards, AttemptRebases, AttemptConnects,
                       LidarRestarts
  <2> QED BY <2>1, <2>2 DEF AssemblerOK
<1>5. CASE UNCHANGED vars
  BY <1>5, Zenon DEF vars, rxVars, policyVars, linkVars, AssemblerOK
<1> QED BY <1>1, <1>2, <1>3, <1>4, <1>5, Zenon DEF Next

-----------------------------------------------------------------------------
(* consume_requests() clears the flag and goes on to take the policy, or finds none. *)
LEMMA PolicyConsumed ==
  ASSUME RxOK, PolicyInv, ConsumePolicy
  PROVE  PolicyInv'
<1>1. UNCHANGED <<frame_policy, policy_pending, assembler, pc>>
  BY Zenon DEF ConsumePolicy, callVars
<1>2. CASE policy_requested
  <2>1. Skip(1) /\ At("policy")
    BY <1>2, Zenon DEF ConsumePolicy
  <2>2. (rx.kind \in {"data", "imu"} /\ rx.at = 3) \/ (rx.kind = "tick" /\ rx.at = 7)
    BY <2>1, Stages, Zenon
  <2>3. GoesOn(1)
    BY <2>1, <2>2, SkipStep, Zenon
  <2>4. rx'.kind = rx.kind /\ rx'.at = rx.at + 1
    BY <2>2, <2>3 DEF GoesOn
  <2>5. rx.kind # "idle" /\ Program[rx.kind][rx.at + 1] = "take"
    BY <2>2 DEF Program
  <2>6. At("take")'
    BY <2>4, <2>5, Zenon DEF At
  <2> QED BY <1>1, <2>6, Zenon DEF PolicyInv
<1>3. CASE ~policy_requested
  <2>1. ~At("take")
    BY Zenon DEF ConsumePolicy, At
  <2> QED BY <1>1, <1>3, <2>1, Zenon DEF PolicyInv
<1> QED BY <1>2, <1>3, Zenon

(* The other stages of the handlers neither take a policy nor leave one behind. *)
LEMMA PolicyHandle ==
  ASSUME RxOK, AssemblerOK, SlotsOK, PolicyInv, Handle
  PROVE  PolicyInv'
<1>1. CASE ConsumePolicy
  BY <1>1, PolicyConsumed, Zenon
<1>2. CASE TakePolicy
  <2>1. policy_pending' = None /\ frame_policy' = frame_policy
    BY <1>2, Zenon DEF TakePolicy
  <2>2. assembler'.policy = IF policy_pending = None THEN assembler.policy ELSE policy_pending
    BY <1>2, Zenon DEF TakePolicy, AssemblerOK
  <2> QED BY <2>1, <2>2, Zenon DEF PolicyInv
<1>3. CASE ~ConsumePolicy /\ ~TakePolicy
  <2>1. UNCHANGED <<frame_policy, policy_pending, policy_requested, pc>>
    BY <1>3, Zenon
       DEF Handle, ConsumeDiscard, ConsumeRebase, RefreshLoad, RefreshCopy, Packet, PassOn,
           TickTimeout, TickDiscards, Flush, Count, Merge, policyVars, callVars
  <2>2. assembler'.policy = assembler.policy
    BY <1>3, AssemblerHandle, Zenon
  <2>3. ~At("take")
    BY <1>3, Zenon DEF Handle, ConsumeDiscard, ConsumeRebase, RefreshLoad, RefreshCopy, Packet, PassOn,
                TickTimeout, TickDiscards, Flush, Count, Merge, At
  <2> QED BY <2>1, <2>2, <2>3, Zenon DEF PolicyInv
<1> QED BY <1>1, <1>2, <1>3, Zenon

(* set_frame_policy() stores the policy before it announces it. *)
LEMMA PolicyUser ==
  ASSUME SlotsOK, PolicyInv, NEW u \in Users, User(u)
  PROVE  PolicyInv'
<1>0. UNCHANGED <<rx, assembler>>
  BY OthersLeaveRx, Zenon
<1>1. CASE SetFramePolicy(u)
  <2>1. PICK p \in Policies : Call(u, "announce", p) /\ frame_policy' = p /\ policy_pending' = p
    BY <1>1, Zenon DEF SetFramePolicy
  <2>2. pc'[u] = "announce"
    BY <2>1, Zenon DEF Call, SlotsOK
  <2>3. p # None
    BY ReceiveAssumption, Zenon
  <2> QED BY <2>1, <2>2, <2>3, Zenon DEF PolicyInv
<1>2. CASE AnnouncePolicy(u)
  <2>1. policy_requested' /\ UNCHANGED <<frame_policy, policy_pending>>
    BY <1>2, Zenon DEF AnnouncePolicy
  <2> QED BY <1>0, <2>1, Zenon DEF PolicyInv
<1>3. CASE ~SetFramePolicy(u) /\ ~AnnouncePolicy(u)
  <2>1. UNCHANGED <<frame_policy, policy_pending, policy_requested>>
    BY <1>3, Zenon DEF User, SetCallback, StoreCallback, StartSampling, StopSampling, StopDiscards,
                       policyVars
  <2>2. pc[u] # "announce" /\ \E l \in {"store", "idle", "discard"} : pc' = [pc EXCEPT ![u] = l]
    BY <1>3, Zenon DEF User, SetCallback, StoreCallback, StartSampling, StopSampling, StopDiscards,
                       Call, Goto
  <2>3. \A v \in Users : pc[v] = "announce" => pc'[v] = "announce"
    BY <2>2, Zenon DEF SlotsOK
  <2>4. At("take")' <=> At("take")
    BY <1>0, Zenon DEF At
  <2> QED BY <1>0, <2>1, <2>3, <2>4, Zenon DEF PolicyInv
<1> QED BY <1>1, <1>2, <1>3, Zenon

LEMMA PolicyStep ==
  ASSUME RxOK, AssemblerOK, SlotsOK, PolicyInv, [Next]_vars
  PROVE  PolicyInv'
<1>1. ASSUME NEW kind \in DOMAIN Program, Dispatch(kind)
      PROVE  PolicyInv'
  <2>1. UNCHANGED <<frame_policy, policy_pending, policy_requested, assembler, pc>>
    BY <1>1, Zenon DEF Dispatch, policyVars, callVars
  <2>2. ~At("take")
    BY <1>1, Zenon DEF Dispatch, At
  <2> QED BY <2>1, <2>2, Zenon DEF PolicyInv
<1>2. CASE Link \/ UNCHANGED vars
  <2>1. UNCHANGED <<frame_policy, policy_pending, policy_requested, assembler, pc, rx>>
    BY <1>2, Zenon DEF Link, Declare, DeclareDiscards, AttemptRebases, AttemptConnects, LidarRestarts,
                vars, rxVars, policyVars, callVars
  <2> QED BY <2>1, Zenon DEF PolicyInv, At
<1> QED BY <1>1, <1>2, PolicyHandle, PolicyUser, Zenon DEF Next

-----------------------------------------------------------------------------
(* The events of one push, compared with what the last ones told. *)
LEMMA MergeTells ==
  ASSUME StatusOK, StatusInv, NEW p \in Pushes, Merge(p)
  PROVE  StatusInv'
<1> DEFINE next == CarryOver(p)
           state == next["cur_work_state"]
           hms == next["hms_code"]
           diag == next["lidar_diag_status"]
           changed == None \notin {status["cur_work_state"], state} /\ status["cur_work_state"] # state
<1>1. /\ state = IF p["cur_work_state"] = None THEN status["cur_work_state"] ELSE p["cur_work_state"]
      /\ hms = IF p["hms_code"] = None THEN status["hms_code"] ELSE p["hms_code"]
      /\ diag = IF p["lidar_diag_status"] = None THEN status["lidar_diag_status"]
                ELSE p["lidar_diag_status"]
  BY Zenon DEF CarryOver, Fields
<1>2. status' = next
  BY Zenon DEF Merge
<1>3. hms_sorted' = (IF hms = None THEN hms_sorted ELSE Sorted(hms))
  BY Zenon DEF Merge
<1>4. diag_seen' = (IF diag = None THEN diag_seen ELSE diag)
  BY Zenon DEF Merge
<1>5. told' = [told EXCEPT
        !["cur_work_state"] = IF changed \/ @ = None THEN state ELSE @,
        !["hms_code"] = IF hms_sorted' # hms_sorted THEN Sorted(hms) ELSE @,
        !["lidar_diag_status"] = IF diag_seen' # diag_seen THEN diag ELSE @]
  BY Zenon DEF Merge
<1>6. DOMAIN told = Fields
  BY Zenon DEF StatusOK
<1>7. /\ told'["cur_work_state"] = IF changed \/ told["cur_work_state"] = None THEN state
                                   ELSE told["cur_work_state"]
      /\ told'["hms_code"] = IF hms_sorted' # hms_sorted THEN Sorted(hms) ELSE told["hms_code"]
      /\ told'["lidar_diag_status"] = IF diag_seen' # diag_seen THEN diag
                                      ELSE told["lidar_diag_status"]
  BY <1>5, <1>6, Zenon DEF Fields
<1> HIDE DEF next
<1>8. told'["cur_work_state"] = state
  BY <1>1, <1>7, Zenon DEF StatusInv, EventsTellStatus
<1>9. hms_sorted' = told'["hms_code"]
      /\ told'["hms_code"] = Sorted(IF hms = None THEN NoHms ELSE hms)
  <2>1. CASE hms = None
    <3>1. status["hms_code"] = None
      BY <1>1, <2>1, Zenon
    <3> QED BY <1>3, <1>7, <2>1, <3>1, Zenon DEF StatusInv, EventsTellStatus
  <2>2. CASE hms # None
    BY <1>3, <1>7, <2>2, Zenon DEF StatusInv
  <2> QED BY <2>1, <2>2, Zenon
<1>10. diag_seen' = told'["lidar_diag_status"]
       /\ told'["lidar_diag_status"] = (IF diag = None THEN Normal ELSE diag)
  <2>1. CASE diag = None
    <3>1. status["lidar_diag_status"] = None
      BY <1>1, <2>1, Zenon
    <3> QED BY <1>4, <1>7, <2>1, <3>1, Zenon DEF StatusInv, EventsTellStatus
  <2>2. CASE diag # None
    BY <1>4, <1>7, <2>2, Zenon DEF StatusInv
  <2> QED BY <2>1, <2>2, Zenon
<1>11. EventsTellStatus'
  BY <1>2, <1>8, <1>9, <1>10, Zenon DEF EventsTellStatus
<1>12. merged' = merged + 1 /\ pushes' = pushes
  BY Zenon DEF Merge
<1>13. merged + 1 \in Nat /\ pushes < merged + 1 /\ pushes <= merged + 1 /\ pushes \in Nat
  BY DEF StatusInv
<1> QED BY <1>9, <1>10, <1>11, <1>12, <1>13, Zenon DEF StatusInv

(* A step that leaves the status alone, and does not reach the count of the push. *)
LEMMA StatusLeft ==
  ASSUME StatusInv, UNCHANGED <<status, hms_sorted, diag_seen, pushes, merged, told>>,
         At("count")' => At("count")
  PROVE  StatusInv'
  BY Zenon DEF StatusInv, EventsTellStatus

(* The count of a push is reached from its merge alone. *)
LEMMA CountAfterMerge ==
  ASSUME RxOK, Handle, \A p \in Pushes : ~Merge(p)
  PROVE  ~At("count")'
<1>1. PICK n \in {1, 2} : GoesOn(n)
  BY HandleStep, Zenon
<1>2. rx.kind # "idle" /\ RxOK'
  BY HandleStep, Zenon
<1>3. rx'.kind # "push" \/ rx'.at \in {1, 2, 3}
  <2>1. CASE RefreshCopy
    <3>1. GoesOn(1)
      BY <1>2, <2>1, SkipStep, Zenon DEF RefreshCopy
    <3>2. rx.kind = "push" => rx.at = 2
      BY <2>1, Stages, Zenon DEF RefreshCopy
    <3> QED BY <3>1, <3>2 DEF GoesOn
  <2>2. CASE RefreshLoad
    <3>1. rx.kind = "push" => rx.at = 1
      BY <2>2, Stages, Zenon DEF RefreshLoad
    <3> QED BY <1>1, <3>1 DEF GoesOn
  <2>3. CASE Count
    <3>1. rx.kind = "push" /\ rx.at = 4
      BY <2>3, Stages, Zenon DEF Count
    <3>2. rx'.kind = "push" => rx'.at \in {5, 6}
      BY <1>1, <3>1 DEF GoesOn
    <3>3. rx'.kind = "push" => rx'.at \in 1..4
      BY <1>2, Zenon DEF RxOK
    <3> QED BY <3>2, <3>3
  <2>4. CASE ~RefreshCopy /\ ~RefreshLoad /\ ~Count
    <3>1. \/ At("discard") \/ At("rebase") \/ At("policy") \/ At("take") \/ At("packet")
          \/ At("samples") \/ At("payload") \/ At("timeout") \/ At("drop") \/ At("flush")
      BY <2>4, Zenon DEF Handle, ConsumeDiscard, ConsumeRebase, ConsumePolicy, TakePolicy, Packet,
                         PassOn, TickTimeout, TickDiscards, Flush
    <3>2. rx.kind # "push"
      BY <3>1, Stages, Zenon
    <3> QED BY <1>1, <3>2, Zenon DEF GoesOn
  <2> QED BY <2>1, <2>2, <2>3, <2>4, Zenon
<1>4. rx'.kind = "push" => Program[rx'.kind] = <<"load", "copy", "merge", "count">>
  <2>1. Program["push"] = <<"load", "copy", "merge", "count">>
    BY Zenon DEF Program
  <2> QED BY <2>1, Zenon
<1>5. <<"load", "copy", "merge", "count">>[1] = "load" /\ <<"load", "copy", "merge", "count">>[2] = "copy"
      /\ <<"load", "copy", "merge", "count">>[3] = "merge"
  BY Zenon
<1>6. rx'.kind = "push" => Program[rx'.kind][rx'.at] # "count"
  BY <1>3, <1>4, <1>5, Zenon
<1>7. rx'.kind # "push" => ~At("count")'
  <2>1. rx'.kind \in {"idle", "data", "imu", "debug", "push", "tick"} /\ rx'.at \in Nat
        /\ (rx'.kind \in {"data", "imu"} => rx'.at \in 1..7)
        /\ (rx'.kind = "debug" => rx'.at \in 1..3) /\ (rx'.kind = "tick" => rx'.at \in 1..9)
    BY <1>2, Zenon DEF RxOK
  <2> QED BY <2>1 DEF At, Program
<1> QED BY <1>6, <1>7, Zenon DEF At

LEMMA StatusStep ==
  ASSUME RxOK, StatusOK, StatusInv, [Next]_vars
  PROVE  StatusOK' /\ StatusInv'
<1>1. ASSUME NEW p \in Pushes, Merge(p)
      PROVE  StatusOK' /\ StatusInv'
  <2>1. StatusInv'
    BY <1>1, MergeTells, Zenon
  <2>2. DOMAIN told' = DOMAIN told
    BY <1>1, Zenon DEF Merge
  <2> QED BY <2>1, <2>2, Zenon DEF StatusOK
<1>2. CASE Count
  <2>1. UNCHANGED <<status, hms_sorted, diag_seen, merged, told>> /\ pushes' = pushes + 1
        /\ At("count")
    BY <1>2, Zenon DEF Count
  <2>2. Handle /\ \A p \in Pushes : ~Merge(p)
    BY <1>2, <2>1, Zenon DEF Handle, Merge, At
  <2>3. ~At("count")'
    BY <2>2, CountAfterMerge, Zenon
  <2>4. pushes + 1 \in Nat /\ pushes + 1 <= merged
    BY <2>1 DEF StatusInv
  <2>5. EventsTellStatus'
    BY <2>1, Zenon DEF StatusInv, EventsTellStatus
  <2> QED BY <2>1, <2>3, <2>4, <2>5, Zenon DEF StatusOK, StatusInv
<1>3. CASE Handle /\ ~Count /\ \A p \in Pushes : ~Merge(p)
  <2>1. UNCHANGED <<status, hms_sorted, diag_seen, pushes, merged, told>>
    BY <1>3, Zenon
       DEF Handle, ConsumeDiscard, ConsumeRebase, ConsumePolicy, TakePolicy, RefreshLoad,
           RefreshCopy, Packet, PassOn, TickTimeout, TickDiscards, Flush, statusVars
  <2>2. ~At("count")'
    BY <1>3, CountAfterMerge, Zenon
  <2> QED BY <2>1, <2>2, StatusLeft, Zenon DEF StatusOK
<1>4. ASSUME NEW kind \in DOMAIN Program, Dispatch(kind)
      PROVE  StatusOK' /\ StatusInv'
  <2>1. UNCHANGED <<status, hms_sorted, diag_seen, pushes, merged, told>>
    BY <1>4, Zenon DEF Dispatch, statusVars
  <2>2. rx'.kind = kind /\ rx'.at = 1
    BY <1>4, Zenon DEF Dispatch
  <2>3. Program[kind][1] # "count"
    BY DEF Program
  <2>4. ~At("count")'
    BY <2>2, <2>3, Zenon DEF At
  <2> QED BY <2>1, <2>4, StatusLeft, Zenon DEF StatusOK
<1>5. CASE (\E u \in Users : User(u)) \/ Link \/ UNCHANGED vars
  <2>1. rx' = rx
    BY <1>5, OthersLeaveRx, Zenon
  <2>2. UNCHANGED <<status, hms_sorted, diag_seen, pushes, merged, told>>
    BY <1>5, Zenon
       DEF User, SetCallback, StoreCallback, SetFramePolicy, AnnouncePolicy, StartSampling,
           StopSampling, StopDiscards, Link, Declare, DeclareDiscards, AttemptRebases,
           AttemptConnects, LidarRestarts, vars, statusVars
  <2>3. At("count")' => At("count")
    BY <2>1, Zenon DEF At
  <2> QED BY <2>2, <2>3, StatusLeft, Zenon DEF StatusOK
<1> QED BY <1>1, <1>2, <1>3, <1>4, <1>5, Zenon DEF Next, Handle

-----------------------------------------------------------------------------
(* No stage of a handler makes a time base stale. *)
LEMMA BaseHandled ==
  ASSUME AssemblerOK, SlotsOK, Handle
  PROVE  UNCHANGED <<attempted, instance>> /\ (Stale' => Stale)
<1>1. UNCHANGED <<attempted, instance>>
  BY Zenon
     DEF Handle, ConsumeDiscard, ConsumeRebase, ConsumePolicy, TakePolicy, RefreshLoad, RefreshCopy,
         Packet, PassOn, TickTimeout, TickDiscards, Flush, Count, Merge, linkVars
<1>2. assembler'.base = assembler.base \/ assembler'.base \in {None, instance}
  BY AssemblerHandle, Zenon
<1> QED BY <1>1, <1>2, Zenon DEF Stale

(* consume_requests() drops the time base before the handler uses it. *)
LEMMA BaseConsumed ==
  ASSUME RxOK, AssemblerOK, SlotsOK, BaseInv, ConsumeRebase
  PROVE  BaseInv'
<1>0. Handle
  BY Zenon DEF Handle
<1>1. UNCHANGED <<attempted, instance>> /\ (Stale' => Stale)
  BY <1>0, BaseHandled, Zenon
<1>2. connected' = connected
  BY Zenon DEF ConsumeRebase
<1>3. rebase_requested => ~Stale'
  <2>1. rebase_requested => assembler'.base = None
    BY Zenon DEF ConsumeRebase, AssemblerOK
  <2> QED BY <2>1, Zenon DEF Stale
<1>4. rx'.kind # "idle" => rx'.kind = rx.kind /\ rx'.connected = rx.connected
  BY <1>0, HandleStep, Zenon DEF GoesOn
<1>5. Stale' => ~connected' /\ ~attempted'
  BY <1>1, <1>2, <1>3, Zenon DEF BaseInv
<1>6. ~(rx'.kind \in {"data", "imu"} /\ rx'.connected = TRUE /\ Stale')
  BY <1>1, <1>3, <1>4, Zenon DEF BaseInv
<1> QED BY <1>5, <1>6, Zenon DEF BaseInv

(* The other stages find a current time base, or come before that one. *)
LEMMA BaseHandle ==
  ASSUME RxOK, AssemblerOK, SlotsOK, BaseInv, Handle, ~ConsumeRebase
  PROVE  BaseInv'
<1>1. UNCHANGED <<attempted, instance>> /\ (Stale' => Stale)
  BY BaseHandled, Zenon
<1>2. rebase_requested => rebase_requested'
  BY Zenon
     DEF Handle, ConsumeDiscard, ConsumePolicy, TakePolicy, RefreshLoad, RefreshCopy, Packet, PassOn,
         TickTimeout, TickDiscards, Flush, Count, Merge, requestVars
<1>3. connected' => connected
  BY Zenon
     DEF Handle, ConsumeDiscard, ConsumePolicy, TakePolicy, RefreshLoad, RefreshCopy, Packet, PassOn,
         TickTimeout, TickDiscards, Flush, Count, Merge, requestVars
<1>4. rx'.kind # "idle" => rx'.kind = rx.kind /\ rx'.connected = rx.connected
  BY HandleStep, Zenon DEF GoesOn
<1>5. rx.kind \in {"data", "imu"} /\ rx.at <= 2 => rx'.at <= 2
  <2> SUFFICES ASSUME rx.kind \in {"data", "imu"}, rx.at <= 2 PROVE rx'.at <= 2
    BY Zenon
  <2>1. rx.at \in {1, 2}
    BY DEF RxOK
  <2>2. ConsumeDiscard
    <3>1. \/ ConsumeDiscard \/ At("policy") \/ At("take") \/ At("packet") \/ At("samples")
          \/ At("payload") \/ At("timeout") \/ At("drop") \/ At("flush") \/ At("count")
          \/ At("load") \/ At("copy") \/ At("merge")
      BY Zenon DEF Handle, ConsumePolicy, TakePolicy, RefreshLoad, RefreshCopy, Packet, PassOn,
                   TickTimeout, TickDiscards, Flush, Count, Merge
    <3> QED BY <2>1, <3>1, Stages
  <2>3. rx.at = 1 /\ Skip(1)
    BY <2>2, Stages, Zenon DEF ConsumeDiscard
  <2>4. GoesOn(1)
    BY <2>3, SkipStep, Zenon
  <2> QED BY <2>3, <2>4 DEF GoesOn
<1>6. Stale' => rebase_requested' \/ (~connected' /\ ~attempted')
  BY <1>1, <1>2, <1>3, Zenon DEF BaseInv
<1>7. rx'.kind \in {"data", "imu"} /\ rx'.connected = TRUE /\ Stale' => rebase_requested' /\ rx'.at <= 2
  BY <1>1, <1>2, <1>4, <1>5, Zenon DEF BaseInv
<1> QED BY <1>6, <1>7, Zenon DEF BaseInv

(* The users do not touch the time base; the attempt requests the rebase before it *)
(* sets `connected`.                                                               *)
LEMMA BaseOthers ==
  ASSUME RxOK, BaseInv, (\E u \in Users : User(u)) \/ Link \/ UNCHANGED vars
  PROVE  BaseInv'
<1>0. UNCHANGED <<rx, assembler>>
  BY OthersLeaveRx, Zenon
<1>1. CASE UNCHANGED <<connected, rebase_requested, attempted, instance>>
  BY <1>0, <1>1, Zenon DEF BaseInv, Stale
<1>2. CASE Declare
  <2>1. connected /\ ~connected' /\ UNCHANGED <<rebase_requested, attempted, instance>>
    BY <1>2, Zenon DEF Declare
  <2> QED BY <1>0, <2>1, Zenon DEF BaseInv, Stale
<1>3. CASE AttemptRebases
  <2>1. rebase_requested' /\ UNCHANGED <<connected, instance>>
    BY <1>3, Zenon DEF AttemptRebases
  <2>2. rx.kind \in {"data", "imu"} /\ rx.connected = TRUE /\ Stale' => rx'.at <= 2
    BY <1>0, <2>1, Zenon DEF BaseInv, Stale
  <2> QED BY <1>0, <2>1, <2>2, Zenon DEF BaseInv
<1>4. CASE AttemptConnects
  <2>1. attempted /\ UNCHANGED <<rebase_requested, instance>>
    BY <1>4, Zenon DEF AttemptConnects
  <2> QED BY <1>0, <2>1, Zenon DEF BaseInv, Stale
<1>5. CASE LidarRestarts
  <2>1. /\ ~connected /\ ~attempted /\ rx.kind \notin {"data", "imu"}
        /\ UNCHANGED <<connected, attempted>>
    BY <1>5, Zenon DEF LidarRestarts, requestVars
  <2> QED BY <1>0, <2>1, Zenon DEF BaseInv
<1>6. CASE (\E u \in Users : User(u)) \/ DeclareDiscards \/ UNCHANGED vars
  <2>1. UNCHANGED <<connected, rebase_requested, attempted, instance>>
    BY <1>6, Zenon
       DEF User, SetCallback, StoreCallback, SetFramePolicy, AnnouncePolicy, StartSampling,
           StopSampling, StopDiscards, DeclareDiscards, vars, requestVars, linkVars
  <2> QED BY <1>1, <2>1, Zenon
<1> QED BY <1>2, <1>3, <1>4, <1>5, <1>6, Zenon DEF Link

LEMMA BaseStep ==
  ASSUME RxOK, AssemblerOK, SlotsOK, BaseInv, [Next]_vars
  PROVE  BaseInv'
<1>1. ASSUME NEW kind \in DOMAIN Program, Dispatch(kind)
      PROVE  BaseInv'
  <2>1. rx'.at = 1 /\ rx'.connected = connected
    BY <1>1, DispatchStep, Zenon
  <2>2. UNCHANGED <<assembler, connected, rebase_requested, attempted, instance>>
    BY <1>1, Zenon DEF Dispatch, requestVars, linkVars
  <2>3. rx'.at <= 2
    BY <2>1
  <2> QED BY <2>1, <2>2, <2>3, Zenon DEF BaseInv, Stale
<1> QED BY <1>1, BaseConsumed, BaseHandle, BaseOthers, Zenon DEF Next

-----------------------------------------------------------------------------
ReceiveInv ==
  RxOK /\ SlotsOK /\ AssemblerOK /\ CallbackInv /\ PolicyInv /\ StatusOK /\ StatusInv /\ BaseInv

LEMMA ReceiveInit == Init => ReceiveInv
<1> SUFFICES ASSUME Init PROVE ReceiveInv
  BY Zenon
<1>0. ~At("count") /\ ~At("take") /\ rx.kind = "idle"
  BY Zenon DEF Init, Idle, At
<1>1. RxOK
  BY <1>0, Zenon DEF Init, RxOK, Idle, NoCallback, Callback
<1>2. SlotsOK
  BY Zenon DEF Init, SlotsOK, NoCallback, Callback
<1>3. AssemblerOK
  BY ReceiveAssumption, Zenon DEF Init, AssemblerOK
<1>4. CallbackInv
  <2>1. slots = NoCallback /\ rx_slots = NoCallback /\ cb_seen = 0 /\ cb_generation = 1
    BY Zenon DEF Init
  <2>2. \A s \in Slots : NoCallback[s].gen = 0
    BY Zenon DEF NoCallback
  <2>3. ~Refreshed(rx)
    BY <1>0, Zenon DEF Refreshed
  <2> QED BY <1>0, <2>1, <2>2, <2>3 DEF CallbackInv
<1>5. PolicyInv
  BY Zenon DEF Init, PolicyInv
<1>6. StatusOK
  BY Zenon DEF Init, StatusOK, Fields
<1>7. StatusInv
  BY <1>0 DEF Init, StatusInv, EventsTellStatus, Fields
<1>8. BaseInv
  BY <1>0, Zenon DEF Init, BaseInv, Stale
<1> QED BY <1>1, <1>2, <1>3, <1>4, <1>5, <1>6, <1>7, <1>8, Zenon DEF ReceiveInv

LEMMA ReceiveInvariant == Spec => []ReceiveInv
<1>1. ReceiveInv /\ [Next]_vars => ReceiveInv'
  BY RxStep, CallbackStep, AssemblerStep, PolicyStep, StatusStep, BaseStep, Zenon DEF ReceiveInv
<1> QED BY <1>1, ReceiveInit, PTL DEF Spec

(* A callback set before a handler began is the one it calls, and the last policy   *)
(* that was set is in use or about to be taken, for any number of users             *)
(* (refresh_callbacks(), consume_requests(), set_callback(), set_frame_policy()).   *)
THEOREM ReceiveRequestsReach == Spec => []RequestsReach
<1>1. ReceiveInv => RequestsReach
  <2> SUFFICES ASSUME ReceiveInv PROVE RequestsReach
    BY Zenon
  <2>1. ASSUME NEW stage \in {"packet", "samples", "payload", "merge", "timeout", "flush"}, At(stage)
        PROVE  \A s \in Slots : rx_slots[s].gen >= rx.since[s].gen
    <3>1. Refreshed(rx)
      BY <2>1, Stages DEF ReceiveInv, Refreshed
    <3> QED BY <3>1, Zenon DEF ReceiveInv, CallbackInv
  <2>2. PolicyTakesEffect
    BY Zenon DEF ReceiveInv, PolicyInv, PolicyTakesEffect
  <2> QED BY <2>1, <2>2, Zenon DEF RequestsReach, CallbackPickedUp
<1> QED BY <1>1, ReceiveInvariant, PTL

(* Whatever keys the pushes leave out, the events give the merged status, and the    *)
(* count of the pushes is never ahead of it (carry_over(), on_push()).               *)
THEOREM ReceiveStatusTold == Spec => []StatusTold
<1>1. ReceiveInv => StatusTold
  BY Zenon DEF ReceiveInv, StatusInv, StatusTold, CountPublishesStatus
<1> QED BY <1>1, ReceiveInvariant, PTL

(* No packet whose handler began while connected is mapped with the time base of an  *)
(* earlier instance of the LiDAR (consume_requests(), attempt_locked()).             *)
THEOREM ReceiveTimeBaseCurrent == Spec => []TimeBaseCurrent
<1>1. ReceiveInv => TimeBaseCurrent
  <2> SUFFICES ASSUME ReceiveInv, At("packet") \/ At("samples"), rx.connected
               PROVE  ~Stale
    BY Zenon DEF TimeBaseCurrent, Stale
  <2>1. rx.kind \in {"data", "imu"} /\ rx.at = 7
    BY Stages, Zenon DEF ReceiveInv
  <2>2. rx.connected = TRUE
    BY Zenon DEF ReceiveInv, RxOK
  <2> QED BY <2>1, <2>2 DEF ReceiveInv, BaseInv
<1> QED BY <1>1, ReceiveInvariant, PTL
=============================================================================
