------------------------------- MODULE Receive -------------------------------
(***************************************************************************)
(* What user threads hand to the receive thread of a Device and what it    *)
(* publishes to them (src/src/device.cpp): the callback slots with their   *)
(* generation, the frame policy, the discard and rebase requests, the      *)
(* status merged from the 0x0102 pushes and the events raised from it.     *)
(*                                                                         *)
(* One step is one access to an atomic or one critical section.  A handler *)
(* of the receive thread is a program: the sequence of its stages.  A      *)
(* callback is the version of its slot.  The assembler is its policy, the  *)
(* stops its partial frame dates from and the LiDAR instance its time base *)
(* was measured on; FrameAssembler models the rest.  The commands and the  *)
(* attempts are those of Commands and Connection, here only with what they *)
(* hand over.  The LiDAR is external.                                      *)
(***************************************************************************)
EXTENDS Naturals, Sequences, FiniteSets

CONSTANTS
  Users,         \* user threads
  Policies,      \* FramePolicy values; the first one is of open()
  First,
  WorkStates,    \* values of cur_work_state, with
  Restarting,    \* those of a LiDAR that starts over
  HmsCodes,      \* values of hms_code: sequences of HmsSlots codes, with
  NoHms,         \* the baseline
  DiagValues,    \* values of lidar_diag_status, with
  Normal,        \* the baseline
  Pushes,        \* the contents of a push: a value or None for each of the Fields
  MaxCalls,      \* bound on the calls of the users and the outages together
  MaxDatagrams,  \* bound on the handlers run
  MaxRestarts,   \* bound on the restarts of the LiDAR
  None

ASSUME ReceiveAssumption ==
  /\ First \in Policies /\ Normal \in DiagValues /\ NoHms \in HmsCodes
  /\ Restarting \subseteq WorkStates
  /\ Pushes \subseteq [cur_work_state : WorkStates \cup {None}, hms_code : HmsCodes \cup {None},
                       lidar_diag_status : DiagValues \cup {None}]
  /\ None \notin Policies /\ None \notin WorkStates /\ None \notin DiagValues

Slots == {"frame_cb", "event_cb"}
Fields == {"cur_work_state", "hms_code", "lidar_diag_status"}

VARIABLES
  (* handed to the receive thread *)
  slots, cb_generation,
  frame_policy, policy_pending, policy_requested,
  sampling_requested, discard_requested, rebase_requested, connected,
  (* of the receive thread *)
  rx,                  \* the handler it runs, its stage, what it has read
  rx_slots, cb_seen,
  assembler,           \* policy, the stops its points are older than, its time base
  (* published *)
  status, hms_sorted, diag_seen, pushes,
  (* the threads and the environment *)
  pc, job,
  declaring,           \* a declare_disconnected() has yet to request the discard
  attempted,           \* a successful attempt has yet to set `connected`
  instance,            \* of the LiDAR: how often it has restarted
  calls, datagrams,    \* what is left of the bounds
  (* history *)
  merged,              \* pushes merged into status
  told,                \* the status as the events alone tell it
  stops,               \* stop_sampling() calls that have returned
  frame                \* the frame just handed to a callback: the stops its first
                       \* point and the callback date from

requestVars == <<sampling_requested, discard_requested, rebase_requested, connected>>
policyVars == <<frame_policy, policy_pending, policy_requested>>
slotVars == <<slots, cb_generation>>
rxVars == <<rx, rx_slots, cb_seen, assembler>>
statusVars == <<status, hms_sorted, diag_seen, pushes, merged, told>>
callVars == <<pc, job, calls>>
linkVars == <<declaring, attempted, instance>>
vars == <<slotVars, policyVars, requestVars, rxVars, statusVars, callVars, linkVars, datagrams,
          stops, frame>>

NoCallback == [s \in Slots |-> [gen |-> 0, stops |-> 0]]
Idle == [kind |-> "idle", at |-> 1, connected |-> FALSE, since |-> NoCallback]
NoFrame == [first |-> 0, cb |-> 0]

(* The codes in sorted order: how often each occurs. *)
Sorted(hms) ==
  [c \in UNION {{h[i] : i \in DOMAIN h} : h \in HmsCodes} |->
     Cardinality({i \in DOMAIN hms : hms[i] = c})]

Init ==
  /\ slots = NoCallback /\ cb_generation = 1
  /\ frame_policy = First /\ policy_pending = None /\ policy_requested = FALSE
  /\ sampling_requested = FALSE /\ discard_requested = FALSE /\ rebase_requested = FALSE
  /\ connected = TRUE
  /\ rx = Idle /\ rx_slots = NoCallback /\ cb_seen = 0
  /\ assembler = [policy |-> First, partial |-> None, base |-> None]
  /\ status = [f \in Fields |-> None] /\ hms_sorted = Sorted(NoHms) /\ diag_seen = Normal
  /\ pushes = 0 /\ merged = 0
  /\ told = [cur_work_state |-> None, hms_code |-> Sorted(NoHms), lidar_diag_status |-> Normal]
  /\ pc = [u \in Users |-> "idle"] /\ job = [u \in Users |-> None]
  /\ declaring = FALSE /\ attempted = FALSE /\ instance = 0
  /\ calls = MaxCalls /\ datagrams = MaxDatagrams
  /\ stops = 0 /\ frame = NoFrame

-----------------------------------------------------------------------------
(* The receive thread.                                                     *)

(* The stages of the handlers: consume_requests() is "discard" to "take", *)
(* refresh_callbacks() "load" and "copy".                                 *)
Program ==
  [data |-> <<"discard", "rebase", "policy", "take", "load", "copy", "packet">>,
   imu |-> <<"discard", "rebase", "policy", "take", "load", "copy", "samples">>,
   debug |-> <<"load", "copy", "payload">>,
   push |-> <<"load", "copy", "merge", "count">>,
   tick |-> <<"load", "copy", "timeout", "drop", "discard", "rebase", "policy", "take", "flush">>]

At(stage) == rx.kind # "idle" /\ Program[rx.kind][rx.at] = stage

(* Go on after n stages, or return to the loop. *)
Skip(n) ==
  rx' = IF rx.at + n > Len(Program[rx.kind]) THEN Idle ELSE [rx EXCEPT !.at = @ + n]

(* A datagram or the timer: on_datagram() and tick() begin. *)
Dispatch(kind) ==
  /\ rx.kind = "idle" /\ datagrams > 0
  /\ datagrams' = datagrams - 1
  /\ rx' = [kind |-> kind, at |-> 1, connected |-> connected, since |-> slots]
  /\ frame' = NoFrame
  /\ UNCHANGED <<slotVars, policyVars, requestVars, rx_slots, cb_seen, assembler, statusVars,
                 callVars, linkVars, stops>>

(* consume_requests(): the partial frame is discarded ... *)
ConsumeDiscard ==
  /\ At("discard")
  /\ discard_requested' = FALSE
  /\ assembler' = IF discard_requested THEN [assembler EXCEPT !.partial = None] ELSE assembler
  /\ Skip(1)
  /\ UNCHANGED <<slotVars, policyVars, sampling_requested, rebase_requested, connected, rx_slots,
                 cb_seen, statusVars, callVars, linkVars, datagrams, stops, frame>>

(* ... the time base measured anew ... *)
ConsumeRebase ==
  /\ At("rebase")
  /\ rebase_requested' = FALSE
  /\ assembler' = IF rebase_requested THEN [assembler EXCEPT !.base = None] ELSE assembler
  /\ Skip(1)
  /\ UNCHANGED <<slotVars, policyVars, sampling_requested, discard_requested, connected, rx_slots,
                 cb_seen, statusVars, callVars, linkVars, datagrams, stops, frame>>

(* ... and the frame policy: the flag is cleared first, ... *)
ConsumePolicy ==
  /\ At("policy")
  /\ policy_requested' = FALSE
  /\ Skip(IF policy_requested THEN 1 ELSE 2)
  /\ UNCHANGED <<slotVars, frame_policy, policy_pending, requestVars, rx_slots, cb_seen, assembler,
                 statusVars, callVars, linkVars, datagrams, stops, frame>>

(* ... then the policy taken under policy_mutex. *)
TakePolicy ==
  /\ At("take")
  /\ policy_pending' = None
  /\ assembler' = IF policy_pending = None THEN assembler
                  ELSE [assembler EXCEPT !.policy = policy_pending]
  /\ Skip(1)
  /\ UNCHANGED <<slotVars, frame_policy, policy_requested, requestVars, rx_slots, cb_seen,
                 statusVars, callVars, linkVars, datagrams, stops, frame>>

(* refresh_callbacks(): the generation is compared without the lock ... *)
RefreshLoad ==
  /\ At("load")
  /\ Skip(IF cb_generation = cb_seen THEN 2 ELSE 1)
  /\ UNCHANGED <<slotVars, policyVars, requestVars, rx_slots, cb_seen, assembler, statusVars,
                 callVars, linkVars, datagrams, stops, frame>>

(* ... and slots and generation are copied under cb_mutex. *)
RefreshCopy ==
  /\ At("copy")
  /\ rx_slots' = slots
  /\ cb_seen' = cb_generation
  /\ Skip(1)
  /\ UNCHANGED <<slotVars, policyVars, requestVars, assembler, statusVars, callVars, linkVars,
                 datagrams, stops, frame>>

(* deliver(): the partial frame is handed to the frame callback. *)
Delivered == [first |-> assembler.partial, cb |-> rx_slots["frame_cb"].stops]

(* A data packet: the time base is measured on the first one; the packet joins the partial *)
(* frame or completes it and begins the next one.                                          *)
Packet ==
  LET based == [assembler EXCEPT !.base = IF @ = None THEN instance ELSE @]
      joins == [based EXCEPT !.partial = IF @ = None THEN stops ELSE @]
  IN
  /\ At("packet")
  /\ \/ assembler' = joins /\ UNCHANGED frame
     \/ /\ assembler.partial # None
        /\ frame' = Delivered
        /\ assembler' = [based EXCEPT !.partial = stops]
  /\ Skip(1)
  /\ UNCHANGED <<slotVars, policyVars, requestVars, rx_slots, cb_seen, statusVars, callVars,
                 linkVars, datagrams, stops>>

(* The rest of tick(): an idle partial frame is flushed. *)
Flush ==
  /\ At("flush")
  /\ \/ /\ assembler.partial # None
        /\ frame' = Delivered
        /\ assembler' = [assembler EXCEPT !.partial = None]
     \/ UNCHANGED <<frame, assembler>>
  /\ Skip(1)
  /\ UNCHANGED <<slotVars, policyVars, requestVars, rx_slots, cb_seen, statusVars, callVars,
                 linkVars, datagrams, stops>>

(* An IMU packet, stamped with the time base or, before there is one, with the receive time; *)
(* a debug-data payload.  Both go to their callback only.                                    *)
PassOn ==
  /\ At("samples") \/ At("payload")
  /\ Skip(1)
  /\ UNCHANGED <<slotVars, policyVars, requestVars, rx_slots, cb_seen, assembler, statusVars,
                 callVars, linkVars, datagrams, stops, frame>>

(* connection_tick(): the push deadline may have passed; the loser of the exchange and a tick *)
(* before the deadline go on.                                                                 *)
TickTimeout ==
  /\ At("timeout")
  /\ \/ /\ connected /\ ~declaring /\ calls > 0
        /\ connected' = FALSE /\ declaring' = TRUE /\ calls' = calls - 1
        /\ Skip(1)
     \/ Skip(2) /\ UNCHANGED <<connected, declaring, calls>>
  /\ UNCHANGED <<slotVars, policyVars, sampling_requested, discard_requested, rebase_requested,
                 rx_slots, cb_seen, assembler, statusVars, pc, job, attempted, instance, datagrams,
                 stops, frame>>

TickDiscards ==
  /\ At("drop")
  /\ declaring' = FALSE /\ discard_requested' = TRUE
  /\ Skip(1)
  /\ UNCHANGED <<slotVars, policyVars, sampling_requested, rebase_requested, connected, rx_slots,
                 cb_seen, assembler, statusVars, callVars, attempted, instance, datagrams,
                 stops, frame>>

(* Mutant: a key the push lacks is empty. *)
CarryOverNothing(next) == next

(* carry_over(): a key the push lacks keeps the value of an earlier one. *)
CarryOver(next) == [f \in Fields |-> IF next[f] = None THEN status[f] ELSE next[f]]

(* on_push() under push_mutex: merge, compare, raise the events. *)
Merge(push) ==
  LET next == CarryOver(push)
      state == next["cur_work_state"]
      hms == next["hms_code"]
      diag == next["lidar_diag_status"]
      changed == None \notin {status["cur_work_state"], state} /\ status["cur_work_state"] # state
  IN
  /\ At("merge")
  /\ status' = next
  /\ rebase_requested' = (rebase_requested \/ (changed /\ ~connected /\ state \in Restarting))
  /\ hms_sorted' = IF hms = None THEN hms_sorted ELSE Sorted(hms)
  /\ diag_seen' = IF diag = None THEN diag_seen ELSE diag
  /\ told' = [told EXCEPT
       !["cur_work_state"] = IF changed \/ @ = None THEN state ELSE @,
       !["hms_code"] = IF hms_sorted' # hms_sorted THEN Sorted(hms) ELSE @,
       !["lidar_diag_status"] = IF diag_seen' # diag_seen THEN diag ELSE @]
  /\ merged' = merged + 1
  /\ Skip(1)
  /\ UNCHANGED <<slotVars, policyVars, sampling_requested, discard_requested, connected, rx_slots,
                 cb_seen, assembler, pushes, callVars, linkVars, datagrams, stops, frame>>

(* The push is counted last, with release. *)
Count ==
  /\ At("count")
  /\ pushes' = pushes + 1
  /\ Skip(1)
  /\ UNCHANGED <<slotVars, policyVars, requestVars, rx_slots, cb_seen, assembler, status,
                 hms_sorted, diag_seen, merged, told, callVars, linkVars, datagrams, stops, frame>>

Handle ==
  \/ ConsumeDiscard \/ ConsumeRebase \/ ConsumePolicy \/ TakePolicy \/ RefreshLoad \/ RefreshCopy
  \/ Packet \/ PassOn \/ TickTimeout \/ TickDiscards \/ Flush \/ Count \/ \E p \in Pushes : Merge(p)

-----------------------------------------------------------------------------
(* The user threads.                                                       *)

Call(u, l, j) ==
  /\ pc[u] = "idle" /\ calls > 0
  /\ calls' = calls - 1
  /\ pc' = [pc EXCEPT ![u] = l] /\ job' = [job EXCEPT ![u] = j]

Goto(u, l) == pc' = [pc EXCEPT ![u] = l] /\ UNCHANGED <<job, calls>>

(* set_callback(): refused while sampling is requested ... *)
SetCallback(u) ==
  /\ ~sampling_requested
  /\ \E s \in Slots : Call(u, "store", s)
  /\ UNCHANGED <<slotVars, policyVars, requestVars, rxVars, statusVars, linkVars, datagrams, stops,
                 frame>>

(* ... and stored under cb_mutex with a new generation. *)
StoreCallback(u) ==
  /\ pc[u] = "store"
  /\ slots' = [slots EXCEPT ![job[u]] = [gen |-> cb_generation, stops |-> stops]]
  /\ cb_generation' = cb_generation + 1
  /\ Goto(u, "idle")
  /\ UNCHANGED <<policyVars, requestVars, rxVars, statusVars, linkVars, datagrams, stops, frame>>

(* Mutant: a policy that waits is not replaced. *)
SetFramePolicyOnce(u) ==
  /\ \E p \in Policies :
       /\ Call(u, "announce", p)
       /\ frame_policy' = p
       /\ policy_pending' = IF policy_pending = None THEN p ELSE policy_pending
  /\ UNCHANGED <<slotVars, policy_requested, requestVars, rxVars, statusVars, linkVars, datagrams,
                 stops, frame>>

(* set_frame_policy(): stored under policy_mutex, then announced. *)
SetFramePolicy(u) ==
  /\ \E p \in Policies :
       /\ Call(u, "announce", p)
       /\ frame_policy' = p /\ policy_pending' = p
  /\ UNCHANGED <<slotVars, policy_requested, requestVars, rxVars, statusVars, linkVars, datagrams,
                 stops, frame>>

AnnouncePolicy(u) ==
  /\ pc[u] = "announce"
  /\ policy_requested' = TRUE
  /\ Goto(u, "idle")
  /\ UNCHANGED <<slotVars, frame_policy, policy_pending, requestVars, rxVars, statusVars, linkVars,
                 datagrams, stops, frame>>

(* The LiDAR has acknowledged SAMPLING. *)
StartSampling(u) ==
  /\ connected /\ Call(u, "idle", None)
  /\ sampling_requested' = TRUE
  /\ UNCHANGED <<slotVars, policyVars, discard_requested, rebase_requested, connected, rxVars,
                 statusVars, linkVars, datagrams, stops, frame>>

(* stop_sampling(), once the LiDAR is idle: two stores. *)
StopSampling(u) ==
  /\ connected /\ Call(u, "discard", None)
  /\ sampling_requested' = FALSE
  /\ UNCHANGED <<slotVars, policyVars, discard_requested, rebase_requested, connected, rxVars,
                 statusVars, linkVars, datagrams, stops, frame>>

StopDiscards(u) ==
  /\ pc[u] = "discard"
  /\ discard_requested' = TRUE
  /\ stops' = stops + 1
  /\ Goto(u, "idle")
  /\ UNCHANGED <<slotVars, policyVars, sampling_requested, rebase_requested, connected, rxVars,
                 statusVars, linkVars, datagrams, frame>>

User(u) ==
  \/ SetCallback(u) \/ StoreCallback(u) \/ SetFramePolicy(u) \/ AnnouncePolicy(u)
  \/ StartSampling(u) \/ StopSampling(u) \/ StopDiscards(u)

-----------------------------------------------------------------------------
(* The outage and the attempt, as far as the receive thread is concerned.  *)

(* declare_disconnected() by a user thread: the exchange, ... *)
Declare ==
  /\ connected /\ ~declaring /\ calls > 0
  /\ connected' = FALSE /\ declaring' = TRUE /\ calls' = calls - 1
  /\ UNCHANGED <<slotVars, policyVars, sampling_requested, discard_requested, rebase_requested,
                 rxVars, statusVars, pc, job, attempted, instance, datagrams, stops, frame>>

(* ... then the discard request. *)
DeclareDiscards ==
  /\ declaring /\ ~At("drop")
  /\ declaring' = FALSE /\ discard_requested' = TRUE
  /\ UNCHANGED <<slotVars, policyVars, sampling_requested, rebase_requested, connected, rxVars,
                 statusVars, callVars, attempted, instance, datagrams, stops, frame>>

(* Mutant: only a push with a restarting state rebases. *)
AttemptPlain ==
  /\ ~connected /\ ~attempted
  /\ attempted' = TRUE
  /\ UNCHANGED <<slotVars, policyVars, requestVars, rxVars, statusVars, callVars, declaring,
                 instance, datagrams, stops, frame>>

(* A successful attempt requests the rebase ... *)
AttemptRebases ==
  /\ ~connected /\ ~attempted
  /\ attempted' = TRUE /\ rebase_requested' = TRUE
  /\ UNCHANGED <<slotVars, policyVars, sampling_requested, discard_requested, connected, rxVars,
                 statusVars, callVars, declaring, instance, datagrams, stops, frame>>

(* ... before it sets `connected`. *)
AttemptConnects ==
  /\ attempted
  /\ attempted' = FALSE /\ connected' = TRUE
  /\ UNCHANGED <<slotVars, policyVars, sampling_requested, discard_requested, rebase_requested,
                 rxVars, statusVars, callVars, declaring, instance, datagrams, stops,
                 frame>>

(* The LiDAR restarts during an outage, before the attempt that succeeds.  It takes seconds, *)
(* a handler that uses the time base microseconds.                                           *)
LidarRestarts ==
  /\ instance < MaxRestarts /\ ~connected /\ ~attempted
  /\ rx.kind \notin {"data", "imu"}
  /\ instance' = instance + 1
  /\ UNCHANGED <<slotVars, policyVars, requestVars, rxVars, statusVars, callVars, declaring,
                 attempted, datagrams, stops, frame>>

Link == Declare \/ DeclareDiscards \/ AttemptRebases \/ AttemptConnects \/ LidarRestarts

Next ==
  \/ \E kind \in DOMAIN Program : Dispatch(kind)
  \/ Handle
  \/ \E u \in Users : User(u)
  \/ Link

Spec == Init /\ [][Next]_vars

-----------------------------------------------------------------------------
(* Every variable has its type. *)
TypeOK ==
  /\ slots \in [Slots -> [gen : Nat, stops : Nat]]
  /\ rx_slots \in [Slots -> [gen : Nat, stops : Nat]]
  /\ cb_generation \in Nat /\ cb_seen \in Nat
  /\ frame_policy \in Policies /\ policy_pending \in Policies \cup {None}
  /\ policy_requested \in BOOLEAN /\ sampling_requested \in BOOLEAN
  /\ discard_requested \in BOOLEAN /\ rebase_requested \in BOOLEAN /\ connected \in BOOLEAN
  /\ rx \in [kind : DOMAIN Program \cup {"idle"}, at : Nat, connected : BOOLEAN,
             since : [Slots -> [gen : Nat, stops : Nat]]]
  /\ assembler \in [policy : Policies, partial : Nat \cup {None}, base : Nat \cup {None}]
  /\ status["cur_work_state"] \in WorkStates \cup {None}
  /\ status["hms_code"] \in HmsCodes \cup {None}
  /\ status["lidar_diag_status"] \in DiagValues \cup {None}
  /\ declaring \in BOOLEAN /\ attempted \in BOOLEAN /\ instance \in Nat
  /\ diag_seen \in DiagValues /\ pushes \in Nat /\ merged \in Nat /\ stops \in Nat

(* A callback that was set before a handler began is the one it calls: the      *)
(* receive thread "picks a change up at the next packet or timer tick" (api.md; *)
(* the generation, device.cpp:265-277 against 1189-1191).                       *)
CallbackPickedUp ==
  \A stage \in {"packet", "samples", "payload", "merge", "timeout", "flush"} :
    At(stage) => \A s \in Slots : rx_slots[s].gen >= rx.since[s].gen

(* The last policy that was set is the one in use, or is still to be taken: of   *)
(* two setters beside consume_requests() none is lost (device.cpp:777-786         *)
(* against 1482-1486).                                                            *)
PolicyTakesEffect ==
  \/ assembler.policy = frame_policy
  \/ policy_requested \/ At("take") \/ \E u \in Users : pc[u] = "announce"

(* What a user asked of the receive thread reaches it: callbacks and frame policy. *)
RequestsReach == CallbackPickedUp /\ PolicyTakesEffect

(* The events tell the whole story: applied one after the other they give the     *)
(* merged status, whatever keys the pushes leave out (device.cpp:335-399).         *)
EventsTellStatus ==
  /\ told["cur_work_state"] = status["cur_work_state"]
  /\ told["hms_code"] = 
       Sorted(IF status["hms_code"] = None THEN NoHms ELSE status["hms_code"])
  /\ told["lidar_diag_status"] =
       IF status["lidar_diag_status"] = None THEN Normal ELSE status["lidar_diag_status"]

(* Who reads the count of a push and then the status sees at least that push        *)
(* (device.cpp:413-415).                                                            *)
CountPublishesStatus == pushes <= merged

(* The status and its events agree, and the count is not ahead of them.           *)
StatusTold == EventsTellStatus /\ CountPublishesStatus

(* After a reconnect the time base is of the LiDAR instance that sends: a packet     *)
(* whose handler began while connected is not mapped with the base of an instance    *)
(* from before the outage, whether or not a push showed the restart (device.cpp:353, *)
(* 1032 before 1045).                                                                *)
TimeBaseCurrent ==
  (At("packet") \/ At("samples")) /\ rx.connected => assembler.base \in {None, instance}

-----------------------------------------------------------------------------
(* api.md:227: "`stop_sampling()` and the destructor deliver nothing".  A callback  *)
(* set after a stop_sampling() returned receives no frame whose first point was     *)
(* received before it returned.                                                     *)
NothingFromBeforeStop == frame.first >= frame.cb
=============================================================================
