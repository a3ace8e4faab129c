----------------------------- MODULE WaitProofs -----------------------------
(***************************************************************************)
(* Proofs about the two objects a thread waits on: the Session, where it   *)
(* waits for an ACK, and the BoundedQueue, where it waits for an element.  *)
(*                                                                         *)
(* Session, for every number of attempts, requests, commands and sequence  *)
(* numbers: its type invariant, that a stop silences it, that one cancel() *)
(* ends one call, and that the ACK taken is this request's.                *)
(*                                                                         *)
(* BoundedQueue, for every capacity, any finite set of consumers and any   *)
(* number of elements: the newest elements stay, in order; each element    *)
(* has one fate; no wake-up is lost; and the queue implements NewestWins.  *)
(* NewestKept makes OneFate inductive (it says which element the head is), *)
(* and OneFate makes the refinement go through (it says which elements are *)
(* still waiting).                                                         *)
(***************************************************************************)
EXTENDS Session, BoundedQueue, TLAPS

-----------------------------------------------------------------------------
(* Session *)

(* An empty socket buffer. *)
LEMMA EmptyBuffer == <<>> \in Seq(Datagram)
  OBVIOUS

(* AfterSeq skips 0. *)
LEMMA AfterSeqType ==
  ASSUME NEW n \in 1..SeqMod - 1
  PROVE  AfterSeq(n) \in 1..SeqMod - 1
  BY SessionAssumption DEF AfterSeq

(* A new request counts from its first attempt and remembers the LiDAR's state. *)
LEMMA BeginType ==
  ASSUME TypeOK, NEW c \in Cmds, NEW n \in 1..SeqMod - 1, Begin(c, n)
  PROVE  /\ cmd' \in Cmds /\ seq' \in Nat /\ next_seq' \in 1..SeqMod - 1
         /\ attempt' \in 0..Attempts /\ sent' \in 0..Attempts /\ sent' + 1 = attempt'
         /\ pc' = "attempt" /\ id' \in Nat /\ seen' \in SUBSET States
  BY AfterSeqType, SessionAssumption DEF TypeOK, FlagsOK, StateOK, Begin

(* What an interrupted call leaves behind. *)
LEMMA CancelledType ==
  ASSUME TypeOK, NEW n, Cancelled(n), UNCHANGED network
  PROVE  TypeOK'
<1>1. cancelled' \in Nat
  BY DEF TypeOK, FlagsOK, StateOK, Cancelled
<1>2. /\ pc' = "idle" /\ op' = "none" /\ cancel' = FALSE /\ due' = FALSE
      /\ UNCHANGED <<open, cmd, seq, attempt, next_seq, id, sent, sessions, after_stop,
                     stop, lidar, cancels, seen, rx, reqs, acks>>
  BY Zenon DEF Cancelled, Return, ConsumeCancel, others, network
<1> QED BY <1>1, <1>2, Zenon DEF TypeOK, FlagsOK, StateOK

(* Spec keeps every variable in its type. *)
THEOREM SessionTypeOK == Spec => []TypeOK
<1>1. Init => TypeOK
  <2>1. Init => StateOK
    BY SessionAssumption DEF Init, StateOK
  <2>2. Init => rx \in Seq(Datagram)
    BY EmptyBuffer, Zenon DEF Init
  <2>3. Init => FlagsOK
    BY Zenon DEF Init, FlagsOK
  <2> QED BY <2>1, <2>2, <2>3, Zenon DEF TypeOK
<1>2. TypeOK /\ [Next]_vars => TypeOK'
  <2> SUFFICES ASSUME TypeOK, [Next]_vars
               PROVE  TypeOK'
    BY Zenon
  <2> USE SessionAssumption
  <2>1. CASE Connect
    <3>1. 1 \in 1..SeqMod - 1
      OBVIOUS
    <3>2. Begin("kParamInquire", 1) BY <2>1, Zenon DEF Connect
    <3>3. StateOK'
      BY <2>1, <3>1, <3>2, BeginType DEF TypeOK, FlagsOK, StateOK, Connect, others
    <3>4. rx' \in Seq(Datagram)
      BY <2>1, EmptyBuffer, Zenon DEF Connect
    <3>5. FlagsOK'
      BY <2>1, Zenon DEF TypeOK, FlagsOK, Connect, others
    <3> QED BY <3>3, <3>4, <3>5, Zenon DEF TypeOK
  <2>2. CASE ConnectUnverified
    <3>1. StateOK'
      BY <2>2 DEF TypeOK, FlagsOK, StateOK, ConnectUnverified, others
    <3>2. rx' \in Seq(Datagram)
      BY <2>2, EmptyBuffer, Zenon DEF ConnectUnverified
    <3>3. FlagsOK'
      BY <2>2, Zenon DEF TypeOK, FlagsOK, ConnectUnverified, others
    <3> QED BY <3>1, <3>2, <3>3 DEF TypeOK
  <2>3. CASE ConnectFails
    <3>1. StateOK'
      BY <2>3 DEF TypeOK, FlagsOK, StateOK, ConnectFails, others, Return
    <3>2. rx' \in Seq(Datagram)
      BY <2>3, EmptyBuffer, Zenon DEF ConnectFails
    <3>3. FlagsOK'
      BY <2>3, Zenon DEF TypeOK, FlagsOK, ConnectFails, others, Return
    <3> QED BY <3>1, <3>2, <3>3 DEF TypeOK
  <2>4. CASE Call
    <3>1. PICK c \in Cmds : Begin(c, next_seq)
      BY <2>4, Zenon DEF Call
    <3>2. op' \in {"request", "wait_for_state"}
      BY <2>4, Zenon DEF Call
    <3> QED BY <2>4, <3>1, <3>2, BeginType, Zenon DEF TypeOK, FlagsOK, StateOK, Call, others, network
  <2>5. CASE CallTooLong
    <3>1. StateOK'
      BY <2>5, AfterSeqType DEF TypeOK, StateOK, CallTooLong, others, network, Return
    <3>2. FlagsOK' /\ rx' \in Seq(Datagram)
      BY <2>5, Zenon DEF TypeOK, FlagsOK, CallTooLong, others, network, Return
    <3> QED BY <3>1, <3>2, Zenon DEF TypeOK
  <2>6. CASE AttemptCheck
    <3>1. CASE Cancelled(attempt - 1) /\ UNCHANGED network
      BY <3>1, CancelledType, Zenon
    <3>2. CASE ~(Cancelled(attempt - 1) /\ UNCHANGED network)
      BY <2>6, <3>2, Zenon DEF TypeOK, FlagsOK, StateOK, AttemptCheck, ConsumeCancel, others, network
    <3> QED BY <3>1, <3>2, Zenon
  <2>7. CASE Send
    <3>1. [seq |-> seq, cmd |-> cmd, id |-> id] \in Request
      BY <2>7 DEF TypeOK, FlagsOK, StateOK, Send, Request
    <3> QED BY <2>7, <3>1 DEF TypeOK, FlagsOK, StateOK, Send, others
  <2>a. CASE Poll \/ SleepBegin
    BY <2>a, Zenon DEF TypeOK, FlagsOK, StateOK, Poll, SleepBegin, others, network
  <2>8. CASE Expire
    <3>1. StateOK'
      BY <2>8 DEF TypeOK, StateOK, Expire, Return, others, network
    <3>2. FlagsOK' /\ rx' \in Seq(Datagram)
      BY <2>8, Zenon DEF TypeOK, FlagsOK, Expire, Return, others, network
    <3> QED BY <3>1, <3>2, Zenon DEF TypeOK
  <2>9. CASE Wait
    <3>1. CASE Cancelled(attempt) /\ UNCHANGED network
      BY <3>1, CancelledType, Zenon
    <3>2. CASE ~(Cancelled(attempt) /\ UNCHANGED network)
      BY <2>9, <3>2, Zenon DEF TypeOK, FlagsOK, StateOK, Wait, ConsumeCancel, DeadlineKept, others, network
    <3> QED BY <3>1, <3>2, Zenon
  <2>10. CASE Drain
    <3>1. rx' \in Seq(Datagram)
      BY <2>10 DEF TypeOK, FlagsOK, StateOK, Drain
    <3>2. /\ pc' \in {"idle", "top", "drain", "judge"} /\ open' \in BOOLEAN /\ due' \in BOOLEAN
          /\ op' \in {"none", "connect", "request", "wait_for_state"}
      BY <2>10, Zenon DEF TypeOK, FlagsOK, StateOK, Drain, Accept, Return, DeadlineKept
    <3> QED BY <2>10, <3>1, <3>2, Zenon DEF TypeOK, FlagsOK, StateOK, Drain, others
  <2>11. CASE SleepExpire
    BY <2>11, Zenon DEF TypeOK, FlagsOK, StateOK, SleepExpire, Return, others, network
  <2>b. ASSUME NextPoll, cancel' \in BOOLEAN PROVE TypeOK'
    <3>1. /\ Begin("kParamInquire", next_seq)
          /\ UNCHANGED <<op, open, due, sessions, cancelled, after_stop, rx, reqs, acks, stop,
                         lidar, cancels>>
      BY <2>b, Zenon DEF NextPoll, others, network
    <3>2. "kParamInquire" \in Cmds /\ next_seq \in 1..SeqMod - 1
      BY Zenon DEF TypeOK, FlagsOK, StateOK
    <3>3. StateOK'
      BY <3>1, <3>2, BeginType, Zenon DEF TypeOK, FlagsOK, StateOK
    <3>4. FlagsOK' /\ rx' \in Seq(Datagram)
      BY <2>b, <3>1, Zenon DEF TypeOK, FlagsOK
    <3> QED BY <3>3, <3>4, Zenon DEF TypeOK
  <2>12. CASE Sleep
    <3>1. CASE Cancelled(0) /\ UNCHANGED network
      BY <3>1, CancelledType, Zenon
    <3>2. CASE cancel' = FALSE /\ NextPoll
      BY <3>2, <2>b, Zenon
    <3>3. CASE ~(Cancelled(0) /\ UNCHANGED network) /\ ~(cancel' = FALSE /\ NextPoll)
      BY <2>12, <3>3, Zenon DEF TypeOK, FlagsOK, StateOK, Sleep, ConsumeCancel, others, network
    <3> QED BY <3>1, <3>2, <3>3, Zenon
  <2>c. CASE Flush
    <3>1. CASE NextPoll
      BY <2>c, <3>1, <2>b, Zenon DEF Flush, TypeOK, FlagsOK
    <3>2. CASE ~NextPoll
      <4>1. /\ rx # <<>> /\ rx' = Tail(rx)
            /\ UNCHANGED <<thread, due, reqs, acks, others, seen, cancel>>
        BY <2>c, <3>2, Zenon DEF Flush
      <4>2. rx' \in Seq(Datagram)
        BY <4>1 DEF TypeOK
      <4>3. StateOK'
        BY <4>1, Zenon DEF TypeOK, StateOK, thread, others
      <4>4. FlagsOK'
        BY <4>1, Zenon DEF TypeOK, FlagsOK, thread, others
      <4> QED BY <4>2, <4>3, <4>4, Zenon DEF TypeOK
    <3> QED BY <3>1, <3>2, Zenon
  <2>d. CASE DeadlinePasses
    BY <2>d, Zenon DEF TypeOK, FlagsOK, StateOK, DeadlinePasses, thread, network, others
  <2>13. CASE IoFails
    BY <2>13, Zenon DEF TypeOK, FlagsOK, StateOK, IoFails, Return, others, network
  <2>14. CASE Cancel
    BY <2>14 DEF TypeOK, FlagsOK, StateOK, Cancel, thread, network
  <2>15. CASE RequestStop
    BY <2>15 DEF TypeOK, FlagsOK, StateOK, RequestStop, thread, network
  <2>16. CASE LidarChanges
    BY <2>16 DEF TypeOK, FlagsOK, StateOK, LidarChanges, thread, network
  <2>17. CASE LidarAnswers
    <3>1. PICK r \in reqs, ret \in Rets :
            acks' = acks \cup {[type |-> "ack", seq |-> r.seq, cmd |-> r.cmd, id |-> r.id,
                                ret |-> ret, state |-> lidar]}
      BY <2>17, Zenon DEF LidarAnswers
    <3>2. [type |-> "ack", seq |-> r.seq, cmd |-> r.cmd, id |-> r.id,
           ret |-> ret, state |-> lidar] \in Ack
      BY Zenon DEF TypeOK, FlagsOK, StateOK, Request, Ack
    <3>3. reqs' \in SUBSET Request
      BY <2>17, Zenon DEF TypeOK, FlagsOK, StateOK, LidarAnswers
    <3> QED BY <2>17, <3>1, <3>2, <3>3 DEF TypeOK, FlagsOK, StateOK, LidarAnswers, thread, others
  <2>18. CASE Deliver
    <3>1. PICK a \in acks : rx' = Append(rx, a) /\ acks' \in {acks, acks \ {a}}
      BY <2>18, Zenon DEF Deliver
    <3>2. rx' \in Seq(Datagram)
      BY <3>1 DEF TypeOK, FlagsOK, StateOK, Datagram
    <3> QED BY <2>18, <3>1, <3>2 DEF TypeOK, FlagsOK, StateOK, Deliver, thread
  <2>19. CASE Stray
    <3>1. [type |-> "other"] \in Datagram
      BY Zenon DEF Datagram
    <3>2. rx' \in Seq(Datagram)
      BY <2>19, <3>1 DEF TypeOK, FlagsOK, StateOK, Stray
    <3>3. StateOK'
      BY <2>19, Zenon DEF TypeOK, StateOK, Stray, thread, others
    <3>4. FlagsOK'
      BY <2>19, Zenon DEF TypeOK, FlagsOK, Stray, thread, others
    <3> QED BY <3>2, <3>3, <3>4, Zenon DEF TypeOK
  <2>20. CASE UNCHANGED vars
    BY <2>20 DEF TypeOK, FlagsOK, StateOK, vars, thread, network, others
  <2> QED
    BY <2>1, <2>2, <2>3, <2>4, <2>5, <2>6, <2>7, <2>8, <2>9, <2>10, <2>11, <2>12, <2>13,
       <2>14, <2>15, <2>16, <2>17, <2>18, <2>19, <2>20, <2>a, <2>c, <2>d, Zenon DEF Next, Thread
<1> QED BY <1>1, <1>2, PTL DEF Spec

-----------------------------------------------------------------------------
(* Only the datagram whose check came before the stop is sent after it. *)
Silenced == after_stop <= 1 /\ (after_stop = 1 => stop /\ pc # "send")

(* QuietAfterStop: request() and wait_for_state() look at the stop token before every   *)
(* datagram, so that at most one follows the stop (session.cpp:410-427).                *)
THEOREM SessionQuietAfterStop == Spec => []QuietAfterStop
<1>1. Init => Silenced
  BY DEF Init, Silenced
<1>2. TypeOK /\ Silenced /\ [Next]_vars => Silenced'
  <2> SUFFICES ASSUME TypeOK, Silenced, [Next]_vars
               PROVE  Silenced'
    BY Zenon
  <2>1. CASE AttemptCheck
    BY <2>1, Zenon DEF TypeOK, FlagsOK, StateOK, Silenced, AttemptCheck, Cancelled, Interrupted, Return, others
  <2>2. CASE Send
    BY <2>2 DEF TypeOK, FlagsOK, StateOK, Silenced, Send, others
  <2>3. CASE ~AttemptCheck /\ ~Send
    <3>1. UNCHANGED after_stop
      BY <2>3, Zenon DEF Next, Thread, vars, thread, Connect, ConnectUnverified,
         ConnectFails, Call, CallTooLong, IoFails, Cancelled, Expire, Poll, Wait,
         Drain, SleepExpire, SleepBegin, Sleep, Flush, NextPoll, Cancel, RequestStop,
         DeadlinePasses, LidarChanges, LidarAnswers, Deliver, Stray
    <3>2. stop => stop'
      BY <2>3, Zenon DEF Next, Thread, vars, thread, others, Connect, ConnectUnverified,
         ConnectFails, Call, CallTooLong, IoFails, Cancelled, Expire, Poll, Wait,
         Drain, SleepExpire, SleepBegin, Sleep, Flush, NextPoll, Cancel, RequestStop,
         DeadlinePasses, LidarChanges, LidarAnswers, Deliver, Stray
    <3>3. pc' = "send" => pc = "send"
      <4>1. CASE Connect \/ ConnectUnverified \/ ConnectFails \/ Call \/ CallTooLong
        BY <4>1, Zenon DEF Connect, ConnectUnverified, ConnectFails, Call, CallTooLong, Begin, Return
      <4>2. CASE IoFails \/ Expire \/ Poll \/ SleepExpire \/ SleepBegin \/ Drain
        BY <4>2, Zenon DEF IoFails, Expire, Poll, SleepExpire, SleepBegin, Drain, Accept, Return
      <4>3. CASE Wait \/ Sleep \/ Flush
        BY <4>3, Zenon DEF Wait, Sleep, Flush, NextPoll, Cancelled, Begin, Return, thread
      <4>4. CASE Cancel \/ RequestStop \/ DeadlinePasses \/ LidarChanges \/ LidarAnswers
                 \/ Deliver \/ Stray \/ UNCHANGED vars
        BY <4>4, Zenon DEF Cancel, RequestStop, DeadlinePasses, LidarChanges, LidarAnswers, Deliver, Stray, vars,
           thread
      <4> QED BY <2>3, <4>1, <4>2, <4>3, <4>4, Zenon DEF Next, Thread
    <3> QED BY <3>1, <3>2, <3>3, Zenon DEF Silenced
  <2> QED BY <2>1, <2>2, <2>3, Zenon
<1>3. Silenced => QuietAfterStop
  BY Zenon DEF Silenced, QuietAfterStop
<1> QED BY <1>1, <1>2, <1>3, SessionTypeOK, PTL DEF Spec

(* CancelEndsOne: whoever ends with kCancelled has consumed the flag of one cancel().   *)
THEOREM SessionCancelEndsOne == Spec => []CancelEndsOne
<1>1. Init => CancelEndsOne
  BY DEF Init, CancelEndsOne
<1>2. TypeOK /\ CancelEndsOne /\ [Next]_vars => CancelEndsOne'
  <2> SUFFICES ASSUME TypeOK, CancelEndsOne, [Next]_vars
               PROVE  CancelEndsOne'
    OBVIOUS
  <2>1. ASSUME NEW n, Cancelled(n)
        PROVE  CancelEndsOne'
    BY <2>1 DEF TypeOK, FlagsOK, StateOK, CancelEndsOne, Cancelled, Interrupted, ConsumeCancel, others
  <2>2. CASE Cancel
    BY <2>2 DEF TypeOK, FlagsOK, StateOK, CancelEndsOne, Cancel, thread
  <2>3. CASE /\ ~Cancel
             /\ \A n \in {0, attempt - 1, attempt} : ~Cancelled(n)
    <3>1. UNCHANGED <<cancelled, cancels>> /\ cancel' \in {cancel, FALSE}
      BY <2>3, Zenon DEF Next, Thread, vars, thread, others, network, Connect, ConnectUnverified,
         ConnectFails, Begin, Return, Call, CallTooLong, IoFails, AttemptCheck, Send, Expire,
         Poll, Wait, Drain, SleepExpire, SleepBegin, Sleep, Flush, NextPoll, RequestStop,
         ConsumeCancel, DeadlinePasses, LidarChanges, LidarAnswers, Deliver, Stray
    <3>2. CASE cancel' = cancel
      BY <3>1, <3>2, Zenon DEF CancelEndsOne
    <3>3. CASE cancel' = FALSE
      BY <3>1, <3>3 DEF TypeOK, FlagsOK, StateOK, CancelEndsOne
    <3> QED BY <3>1, <3>2, <3>3, Zenon
  <2> QED BY <2>1, <2>2, <2>3, Zenon
<1> QED BY <1>1, <1>2, SessionTypeOK, PTL DEF Spec

-----------------------------------------------------------------------------
(* Within one Session a request, and whatever answers it, carries its own number. *)
Numbered ==
  /\ sessions <= 1 /\ id <= MaxRequests
  /\ sessions = 0 => id = 0 /\ pc = "idle" /\ ~open
  /\ id < MaxRequests => next_seq = id + 1
  /\ pc # "idle" => seq = id /\ result = None
  /\ \A r \in reqs \cup acks : r.seq = r.id /\ r.id <= id
  /\ \A i \in DOMAIN rx : rx[i].type = "ack" => rx[i].seq = rx[i].id /\ rx[i].id <= id

(* While a request is in progress its answers hold states it has seen. *)
Witnessed ==
  pc # "idle" =>
    /\ lidar \in seen
    /\ \A a \in acks : a.id = id => a.state \in seen
    /\ \A i \in DOMAIN rx : rx[i].type = "ack" /\ rx[i].id = id => rx[i].state \in seen

FreshInv == Numbered /\ Witnessed /\ AckFresh

(* An ACK taken from the buffer is one of the request in progress. *)
LEMMA MatchedIsOwn ==
  ASSUME TypeOK, FreshInv, pc = "drain", rx # <<>>, MatchAck(Head(rx))
  PROVE  Head(rx).id = id /\ Head(rx).state \in seen
<1>1. 1 \in DOMAIN rx /\ Head(rx) = rx[1]
  BY DEF TypeOK, FlagsOK, StateOK
<1> QED BY <1>1, Zenon DEF FreshInv, Numbered, Witnessed, MatchAck

(* What a new request leaves of the datagrams of earlier ones. *)
LEMMA BeginFresh ==
  ASSUME TypeOK, Numbered, NEW c, NEW n \in 1..SeqMod - 1, Begin(c, n), OneSession,
         n = id + 1, sessions' = 1, UNCHANGED <<reqs, acks, lidar>>,
         rx' \in {rx, <<>>}
  PROVE  FreshInv'
<1> USE SessionAssumption
<1>1. id' = id + 1 /\ id' <= MaxRequests /\ seq' = id' /\ result' = None /\ pc' = "attempt"
  BY DEF Begin, TypeOK, StateOK
<1>2. id' < MaxRequests => next_seq' = id' + 1
  BY <1>1 DEF Begin, AfterSeq, OneSession, TypeOK, StateOK
<1>3. \A r \in reqs' \cup acks' : r.seq = r.id /\ r.id <= id' /\ r.id # id'
  BY <1>1 DEF Numbered, TypeOK, StateOK, Request, Ack
<1>4. \A i \in DOMAIN rx : rx[i] \in Datagram
  BY DEF TypeOK, FlagsOK, StateOK
<1>5. \A i \in DOMAIN rx : rx[i].type = "ack" => rx[i].id \in Nat
  BY <1>4, Zenon DEF Datagram, Ack
<1>6. \A i \in DOMAIN rx' : rx'[i].type = "ack" =>
          rx'[i].seq = rx'[i].id /\ rx'[i].id <= id' /\ rx'[i].id # id'
  <2>1. CASE rx' = rx
    BY <1>1, <1>5, <2>1 DEF Numbered, TypeOK, StateOK
  <2>2. CASE rx' = <<>>
    BY <2>2
  <2> QED BY <2>1, <2>2, Zenon
<1>7. lidar' \in seen'
  BY Zenon DEF Begin
<1> QED BY <1>1, <1>2, <1>3, <1>6, <1>7 DEF FreshInv, Numbered, Witnessed, AckFresh

(* A step that begins no request, and ends one at most with an error. *)
LEMMA KeptFresh ==
  ASSUME FreshInv,
         UNCHANGED <<id, sessions, next_seq, seq, reqs, acks, rx, lidar, seen>>,
         pc' # "idle" => pc # "idle" /\ result' = result,
         sessions = 0 => pc' = "idle" /\ ~open',
         result' = result \/ result'.kind # "ok"
  PROVE  FreshInv'
<1>1. Numbered'
  BY Zenon DEF FreshInv, Numbered
<1>2. Witnessed'
  BY Zenon DEF FreshInv, Witnessed
<1>3. AckFresh'
  BY Zenon DEF FreshInv, AckFresh
<1> QED BY <1>1, <1>2, <1>3, Zenon DEF FreshInv

(* AckFresh, within one Session and before the sequence numbers come round: the ACK a    *)
(* call returns answers one of its own datagrams, and the state in it is one the LiDAR   *)
(* had during the call (match_ack() and request(), session.cpp:399-459).                 *)
THEOREM SessionAckFresh == Spec => [](OneSession => AckFresh)
<1> USE SessionAssumption
<1>1. Init => FreshInv
  BY DEF Init, FreshInv, Numbered, Witnessed, AckFresh
<1>2. TypeOK /\ OneSession /\ FreshInv /\ [Next]_vars => FreshInv'
  <2> SUFFICES ASSUME TypeOK, OneSession, FreshInv, [Next]_vars
               PROVE  FreshInv'
    BY Zenon
  <2>1. CASE Connect
    <3>1. sessions = 0 /\ sessions' = 1 /\ id = 0
      BY <2>1 DEF Connect, OneSession, TypeOK, StateOK, FreshInv, Numbered
    <3>2. /\ Begin("kParamInquire", 1) /\ UNCHANGED <<reqs, acks, lidar>> /\ rx' = <<>>
      BY <2>1, Zenon DEF Connect, others
    <3>3. 1 \in 1..SeqMod - 1 /\ 1 = id + 1
      BY <3>1
    <3> QED BY <3>1, <3>2, <3>3, BeginFresh, Zenon DEF FreshInv
  <2>2. CASE ConnectUnverified
    <3>1. sessions = 0 /\ sessions' = 1 /\ id = 0 /\ pc = "idle" /\ result' = None
      BY <2>2 DEF ConnectUnverified, OneSession, TypeOK, StateOK, FreshInv, Numbered
    <3>2. next_seq' = 1 /\ UNCHANGED <<pc, id, reqs, acks>> /\ rx' = <<>>
      BY <2>2, Zenon DEF ConnectUnverified
    <3> QED BY <3>1, <3>2 DEF FreshInv, Numbered, Witnessed, AckFresh
  <2>3. CASE ConnectFails
    <3>1. sessions = 0 /\ sessions' = 1 /\ id = 0 /\ pc' = "idle" /\ result'.kind # "ok"
      BY <2>3 DEF ConnectFails, Return, Error, OneSession, TypeOK, StateOK, FreshInv, Numbered
    <3>2. UNCHANGED <<next_seq, id, reqs, acks>> /\ rx' = <<>>
      BY <2>3, Zenon DEF ConnectFails
    <3> QED BY <3>1, <3>2 DEF FreshInv, Numbered, Witnessed, AckFresh
  <2>4. CASE Call
    <3>1. PICK c : Begin(c, next_seq)
      BY <2>4, Zenon DEF Call
    <3>2. sessions = 1 /\ next_seq = id + 1
      BY <2>4, <3>1 DEF Call, Begin, TypeOK, StateOK, FreshInv, Numbered
    <3>3. sessions' = 1 /\ UNCHANGED <<reqs, acks, lidar, rx>>
      BY <2>4, <3>2, Zenon DEF Call, others, network
    <3> QED BY <3>1, <3>2, <3>3, BeginFresh, Zenon DEF FreshInv, TypeOK, StateOK
  <2>5. CASE CallTooLong
    <3>1. /\ id < MaxRequests /\ id' = id + 1 /\ next_seq' = AfterSeq(next_seq)
          /\ pc' = "idle" /\ result'.kind # "ok" /\ open
          /\ UNCHANGED <<sessions, reqs, acks, rx>>
      BY <2>5, Zenon DEF CallTooLong, Return, Error, network
    <3>2. id' <= MaxRequests /\ sessions' = 1 /\ (id' < MaxRequests => next_seq' = id' + 1)
      BY <3>1 DEF AfterSeq, OneSession, TypeOK, StateOK, FreshInv, Numbered
    <3>3. \A r \in reqs' \cup acks' : r.seq = r.id /\ r.id <= id'
      BY <3>1 DEF FreshInv, Numbered, TypeOK, StateOK, Request, Ack
    <3>4. \A i \in DOMAIN rx : rx[i].type = "ack" => rx[i].id \in Nat
      BY DEF TypeOK, Datagram, Ack
    <3>5. \A i \in DOMAIN rx' : rx'[i].type = "ack" => rx'[i].seq = rx'[i].id /\ rx'[i].id <= id'
      BY <3>1, <3>4 DEF FreshInv, Numbered, TypeOK, StateOK
    <3> QED BY <3>1, <3>2, <3>3, <3>5, Zenon DEF FreshInv, Numbered, Witnessed, AckFresh
  <2>6. CASE AttemptCheck
    <3>1. /\ UNCHANGED <<id, sessions, next_seq, seq, reqs, acks, rx, lidar, seen, open>>
          /\ pc # "idle"
      BY <2>6, Zenon DEF AttemptCheck, Cancelled, others, network
    <3>2. \/ pc' # "idle" /\ result' = result
          \/ pc' = "idle" /\ result'.kind # "ok"
      BY <2>6 DEF AttemptCheck, Cancelled, Return, Error
    <3>3. sessions # 0
      BY <3>1, Zenon DEF FreshInv, Numbered
    <3> QED BY <3>1, <3>2, <3>3, KeptFresh, Zenon
  <2>7. CASE Send
    <3>1. /\ UNCHANGED <<id, sessions, next_seq, seq, acks, rx, lidar, seen, result>>
          /\ pc # "idle" /\ pc' # "idle"
          /\ reqs' = reqs \cup {[seq |-> seq, cmd |-> cmd, id |-> id]}
      BY <2>7, Zenon DEF Send, others
    <3>2. \A r \in reqs' \cup acks' : r.seq = r.id /\ r.id <= id'
      BY <3>1 DEF FreshInv, Numbered, TypeOK, StateOK
    <3> QED BY <3>1, <3>2, Zenon DEF FreshInv, Numbered, Witnessed, AckFresh
  <2>8. CASE Expire \/ SleepExpire \/ IoFails \/ Poll \/ SleepBegin
    <3>1. /\ UNCHANGED <<id, sessions, next_seq, seq, reqs, acks, rx, lidar, seen, open>>
          /\ pc # "idle"
      BY <2>8, Zenon DEF Expire, SleepExpire, IoFails, Poll, SleepBegin, others, network
    <3>2. \/ pc' # "idle" /\ result' = result
          \/ pc' = "idle" /\ result'.kind # "ok"
      <4>1. CASE Expire
        BY <4>1 DEF Expire, Return, Error
      <4>2. CASE SleepExpire
        BY <4>2, Zenon DEF SleepExpire, Return, Error
      <4>3. CASE IoFails
        BY <4>3, Zenon DEF IoFails, Return, Error
      <4>4. CASE Poll \/ SleepBegin
        BY <4>4, Zenon DEF Poll, SleepBegin
      <4> QED BY <2>8, <4>1, <4>2, <4>3, <4>4, Zenon
    <3>3. sessions # 0
      BY <3>1 DEF FreshInv, Numbered
    <3> QED BY <3>1, <3>2, <3>3, KeptFresh
  <2>9. CASE Wait
    <3>1. /\ UNCHANGED <<id, sessions, next_seq, seq, reqs, acks, rx, lidar, seen, open>>
          /\ pc # "idle"
      BY <2>9, Zenon DEF Wait, Cancelled, others, network
    <3>2. \/ pc' # "idle" /\ result' = result
          \/ pc' = "idle" /\ result'.kind # "ok"
      BY <2>9 DEF Wait, Cancelled, Return, Error
    <3>3. sessions # 0
      BY <3>1 DEF FreshInv, Numbered
    <3> QED BY <3>1, <3>2, <3>3, KeptFresh
  <2>10. CASE Drain
    <3>1. UNCHANGED <<id, sessions, next_seq, seq, reqs, acks, lidar, seen>> /\ pc = "drain"
      BY <2>10, Zenon DEF Drain, others
    <3>2. CASE rx = <<>>
      BY <2>10, <3>1, <3>2, KeptFresh, Zenon DEF Drain, FreshInv, Numbered
    <3>3. CASE rx # <<>>
      <4>1. rx' = Tail(rx)
        BY <2>10, <3>3, Zenon DEF Drain
      <4>2. \A i \in DOMAIN rx' : i + 1 \in DOMAIN rx /\ rx'[i] = rx[i + 1]
        BY <3>3, <4>1 DEF TypeOK
      <4>3. pc' # "idle" => result' = result
        BY <2>10, <3>3, Zenon DEF Drain, Accept, Return
      <4>4. sessions # 0
        BY <3>1, Zenon DEF FreshInv, Numbered
      <4>5. Numbered'
        BY <3>1, <4>2, <4>3, <4>4 DEF FreshInv, Numbered
      <4>6. Witnessed'
        BY <3>1, <4>2, Zenon DEF FreshInv, Witnessed
      <4>7. AckFresh'
        <5>1. CASE MatchAck(Head(rx))
          <6>1. Head(rx).id = id /\ Head(rx).state \in seen
            BY <3>1, <3>3, <5>1, MatchedIsOwn, Zenon
          <6>2. Head(rx).ret # "ok"
            BY <3>3, <5>1 DEF TypeOK, Datagram, Ack, MatchAck
          <6>3. \/ result' = result
                \/ result' = [kind |-> "ok", attempts |-> sent, ack |-> Head(rx)]
                \/ result'.kind # "ok"
            BY <2>10, <3>3, <5>1, <6>2 DEF Drain, Accept, Return, Outcome, Error
          <6> QED BY <3>1, <6>1, <6>3 DEF FreshInv, AckFresh
        <5>2. CASE ~MatchAck(Head(rx))
          BY <2>10, <3>1, <3>3, <5>2, Zenon DEF Drain, FreshInv, AckFresh
        <5> QED BY <5>1, <5>2, Zenon
      <4> QED BY <4>5, <4>6, <4>7, Zenon DEF FreshInv
    <3> QED BY <3>2, <3>3, Zenon
  <2>a. ASSUME NextPoll, pc # "idle" PROVE FreshInv'
    <3>1. Begin("kParamInquire", next_seq) /\ UNCHANGED <<sessions, reqs, acks, lidar, rx>>
      BY <2>a, Zenon DEF NextPoll, others, network
    <3>2. sessions = 1 /\ next_seq = id + 1
      BY <2>a, <3>1 DEF Begin, TypeOK, StateOK, FreshInv, Numbered
    <3> QED BY <3>1, <3>2, BeginFresh, Zenon DEF FreshInv, TypeOK, StateOK
  <2>11. CASE Sleep
    <3>1. CASE Cancelled(0) /\ UNCHANGED network
      BY <2>11, <3>1, KeptFresh, Zenon DEF Cancelled, Return, Error, others, network, FreshInv, Numbered
    <3>2. CASE NextPoll
      BY <2>11, <3>2, <2>a, Zenon DEF Sleep
    <3>3. CASE ~(Cancelled(0) /\ UNCHANGED network) /\ ~NextPoll
      <4>1. /\ pc # "idle" /\ pc' # "idle"
            /\ UNCHANGED <<id, sessions, next_seq, seq, reqs, acks, rx, lidar, seen, open, result>>
        BY <2>11, <3>3, Zenon DEF Sleep, others, network
      <4>2. sessions # 0
        BY <4>1, Zenon DEF FreshInv, Numbered
      <4> QED BY <4>1, <4>2, KeptFresh, Zenon
    <3> QED BY <3>1, <3>2, <3>3, Zenon
  <2>b. CASE Flush
    <3>1. CASE NextPoll
      BY <2>b, <3>1, <2>a, Zenon DEF Flush
    <3>2. CASE ~NextPoll
      <4>1. /\ rx # <<>> /\ rx' = Tail(rx)
            /\ UNCHANGED <<id, sessions, next_seq, seq, reqs, acks, lidar, seen, pc, open, result>>
        BY <2>b, <3>2, Zenon DEF Flush, thread, others
      <4>2. \A i \in DOMAIN rx' : i + 1 \in DOMAIN rx /\ rx'[i] = rx[i + 1]
        BY <4>1 DEF TypeOK
      <4>3. Numbered'
        BY <4>1, <4>2 DEF FreshInv, Numbered
      <4>4. Witnessed'
        BY <4>1, <4>2, Zenon DEF FreshInv, Witnessed
      <4> QED BY <4>1, <4>3, <4>4, Zenon DEF FreshInv, AckFresh
    <3> QED BY <3>1, <3>2, Zenon
  <2>12. CASE Cancel \/ RequestStop \/ DeadlinePasses \/ UNCHANGED vars
    <3>1. UNCHANGED <<id, sessions, next_seq, seq, reqs, acks, rx, lidar, seen, pc, open, result>>
      BY <2>12, Zenon DEF Cancel, RequestStop, DeadlinePasses, vars, thread, network, others
    <3> QED BY <3>1, KeptFresh, Zenon DEF FreshInv, Numbered
  <2>13. CASE LidarChanges
    BY <2>13, Zenon DEF LidarChanges, thread, network, FreshInv, Numbered, Witnessed, AckFresh
  <2>14. CASE LidarAnswers
    <3>1. PICK r \in reqs, ret \in Rets :
            /\ reqs' = reqs \ {r}
            /\ acks' = acks \cup {[type |-> "ack", seq |-> r.seq, cmd |-> r.cmd, id |-> r.id,
                                   ret |-> ret, state |-> lidar]}
            /\ UNCHANGED <<thread, due, rx, others, cancel, seen>>
      BY <2>14, Zenon DEF LidarAnswers
    <3>2. \A a \in acks' : a \in acks \/ (a.seq = r.seq /\ a.id = r.id /\ a.state = lidar)
      BY <3>1
    <3>3. UNCHANGED <<id, sessions, next_seq, seq, rx, lidar, seen, pc, open, result>>
      BY <3>1, Zenon DEF thread, others
    <3>4. Numbered'
      BY <3>1, <3>2, <3>3, Zenon DEF FreshInv, Numbered
    <3>5. Witnessed'
      BY <3>1, <3>2, <3>3, Zenon DEF FreshInv, Witnessed
    <3> QED BY <3>3, <3>4, <3>5, Zenon DEF FreshInv, AckFresh
  <2>15. ASSUME NEW d, rx' = Append(rx, d), acks' \subseteq acks,
                d \in acks \/ d.type = "other",
                UNCHANGED <<thread, reqs, lidar, seen>>
         PROVE  FreshInv'
    <3>1. \A i \in DOMAIN rx' : rx'[i] = d \/ (i \in DOMAIN rx /\ rx'[i] = rx[i])
      BY <2>15 DEF TypeOK
    <3>2. UNCHANGED <<id, sessions, next_seq, seq, lidar, seen, pc, open, result, reqs>>
      BY <2>15, Zenon DEF thread
    <3>3. Numbered'
      BY <2>15, <3>1, <3>2, Zenon DEF FreshInv, Numbered
    <3>4. Witnessed'
      BY <2>15, <3>1, <3>2, Zenon DEF FreshInv, Witnessed
    <3> QED BY <3>2, <3>3, <3>4, Zenon DEF FreshInv, AckFresh
  <2>16. CASE Deliver
    <3>1. PICK a \in acks : rx' = Append(rx, a) /\ acks' \subseteq acks
      BY <2>16, Zenon DEF Deliver
    <3>2. UNCHANGED <<thread, reqs, lidar, seen>>
      BY <2>16, Zenon DEF Deliver
    <3> QED BY <3>1, <3>2, <2>15, Zenon
  <2>17. CASE Stray
    <3>1. /\ rx' = Append(rx, [type |-> "other"]) /\ acks' \subseteq acks
          /\ UNCHANGED <<thread, reqs, lidar, seen>>
      BY <2>17, Zenon DEF Stray, others
    <3>2. [type |-> "other"].type = "other"
      BY Zenon
    <3> QED BY <3>1, <3>2, <2>15, Zenon
  <2> QED BY <2>1, <2>2, <2>3, <2>4, <2>5, <2>6, <2>7, <2>8, <2>9, <2>10, <2>11, <2>12,
             <2>13, <2>14, <2>16, <2>17, <2>b, Zenon DEF Next, Thread
<1>3. FreshInv => AckFresh
  BY Zenon DEF FreshInv
<1>4. Init => (OneSession => FreshInv)
  BY <1>1, Zenon
<1>5. TypeOK /\ (OneSession => FreshInv) /\ [Next]_vars => (OneSession => FreshInv)'
  BY <1>2, Zenon DEF OneSession
<1> QED BY <1>3, <1>4, <1>5, SessionTypeOK, PTL DEF Spec

-----------------------------------------------------------------------------
(* BoundedQueue *)
INSTANCE FiniteSetTheorems

\* take() keeps the order of the queue and hands out the element before it.
LEMMA TakeStep ==
  ASSUME items \in Seq(Nat), accepted \in Nat, taken \subseteq 1..accepted,
         NewestKept, Take, items # <<>>
  PROVE  /\ items' \in Seq(Nat)
         /\ Len(items') = Len(items) - 1
         /\ \A i \in 1..Len(items') : items'[i] = accepted - Len(items') + i
         /\ Head(items) = accepted - Len(items')
         /\ taken' = taken \cup {accepted - Len(items')}
         /\ Len(items) \in Nat \ {0}
<1>1. items' = Tail(items) /\ taken' = taken \cup {Head(items)}
  BY Zenon DEF Take
<1>2. /\ Len(items) \in Nat \ {0}
      /\ items' \in Seq(Nat)
      /\ Len(items') = Len(items) - 1
      /\ \A i \in 1..Len(items') : items'[i] = items[i + 1]
  BY <1>1
<1>3. Head(items) = items[1]
  OBVIOUS
<1>4. \A i \in 1..Len(items) : items[i] = accepted - Len(items) + i
  BY Zenon DEF NewestKept
<1>5. Head(items) = accepted - Len(items')
  BY <1>2, <1>3, <1>4
<1>6. ASSUME NEW i \in 1..Len(items') PROVE items'[i] = accepted - Len(items') + i
  <2>1. i + 1 \in 1..Len(items)
    BY <1>2
  <2> QED BY <1>2, <1>4, <2>1
<1> QED BY <1>1, <1>2, <1>5, <1>6, Zenon

\* push() keeps the order: the oldest element goes when the queue is full.
LEMMA PushStep ==
  ASSUME items \in Seq(Nat), accepted \in Nat, NewestKept, Push
  PROVE  /\ items' \in Seq(Nat)
         /\ accepted' = accepted + 1
         /\ Len(items') = IF Full THEN Len(items) ELSE Len(items) + 1
         /\ Len(items') <= Capacity
         /\ \A i \in 1..Len(items') : items'[i] = accepted' - Len(items') + i
         /\ Len(items) \in Nat
         /\ Full => Len(items) = Capacity /\ Head(items) = accepted - Len(items) + 1
<1>1. Capacity \in Nat \ {0}
  BY BoundedQueueAssumption, Zenon
<1>2. /\ accepted' = accepted + 1
      /\ items' = Append(Kept, accepted + 1)
  BY Zenon DEF Push
<1>3. /\ Len(items) \in Nat /\ Len(items) <= Capacity
      /\ \A i \in 1..Len(items) : items[i] = accepted - Len(items) + i
  BY DEF NewestKept
<1>4. CASE Full
  <2>1. Len(items) = Capacity /\ items # <<>>
    BY <1>1, <1>3, <1>4 DEF Full
  <2>2. /\ Kept \in Seq(Nat) /\ Len(Kept) = Len(items) - 1
        /\ \A i \in 1..Len(Kept) : Kept[i] = items[i + 1]
        /\ Head(items) = items[1]
    BY <2>1, <1>4 DEF Kept
  <2>3. /\ items' \in Seq(Nat) /\ Len(items') = Len(items)
        /\ \A i \in 1..Len(Kept) : items'[i] = Kept[i]
        /\ items'[Len(items)] = accepted + 1
    BY <1>2, <1>3, <2>2
  <2>4. ASSUME NEW i \in 1..Len(items') PROVE items'[i] = accepted' - Len(items') + i
    <3>1. CASE i = Len(items)
      BY <3>1, <2>3, <1>2, <1>3
    <3>2. CASE i # Len(items)
      <4>1. i \in 1..Len(Kept) /\ i + 1 \in 1..Len(items)
        BY <3>2, <2>2, <2>3, <1>3
      <4>2. items'[i] = accepted - Len(items) + (i + 1)
        BY <4>1, <2>2, <2>3, <1>3, Zenon
      <4> QED BY <4>2, <2>3, <1>2, <1>3
    <3> QED BY <3>1, <3>2, Zenon
  <2>5. Head(items) = accepted - Len(items) + 1
    BY <2>1, <2>2, <1>1, <1>3
  <2>6. items' \in Seq(Nat) /\ Len(items') = IF Full THEN Len(items) ELSE Len(items) + 1
    BY <1>4, <2>3, Zenon
  <2>7. Len(items') <= Capacity
    BY <1>3, <2>3, Zenon
  <2>8. \A i \in 1..Len(items') : items'[i] = accepted' - Len(items') + i
    BY <2>4, Zenon
  <2> QED BY <1>2, <1>3, <2>1, <2>5, <2>6, <2>7, <2>8, Zenon
<1>5. CASE ~Full
  <2>1. Len(items) < Capacity
    BY <1>1, <1>3, <1>5 DEF Full
  <2>2. /\ items' \in Seq(Nat) /\ Len(items') = Len(items) + 1
        /\ \A i \in 1..Len(items) : items'[i] = items[i]
        /\ items'[Len(items) + 1] = accepted + 1
    BY <1>2, <1>5 DEF Kept
  <2>3. ASSUME NEW i \in 1..Len(items') PROVE items'[i] = accepted' - Len(items') + i
    <3>1. CASE i = Len(items) + 1
      BY <3>1, <2>2, <1>2, <1>3
    <3>2. CASE i # Len(items) + 1
      <4>1. i \in 1..Len(items)
        BY <3>2, <2>2, <1>3
      <4> QED BY <4>1, <2>2, <1>2, <1>3
    <3> QED BY <3>1, <3>2, Zenon
  <2>4. items' \in Seq(Nat) /\ Len(items') = IF Full THEN Len(items) ELSE Len(items) + 1
    BY <1>5, <2>2, Zenon
  <2>5. Len(items') <= Capacity
    BY <1>1, <1>3, <2>1, <2>2
  <2>6. \A i \in 1..Len(items') : items'[i] = accepted' - Len(items') + i
    BY <2>3
  <2> QED BY <1>2, <1>3, <1>5, <2>4, <2>5, <2>6, Zenon
<1> QED BY <1>4, <1>5, Zenon

-----------------------------------------------------------------------------

\* take() extends the set of elements handed out by the next one, or is a stutter.
LEMMA TakeFate ==
  ASSUME QueueTypeOK, NewestKept, OneFate, Take, UNCHANGED <<accepted, lost, dropped>>
  PROVE  items' \in Seq(Nat) /\ taken' \subseteq 1..accepted' /\ NewestKept' /\ OneFate'
         /\ Len(items') <= Len(items)
         /\ (items # <<>> => Len(items') = Len(items) - 1)
<1>1. /\ items \in Seq(Nat) /\ Len(items) \in Nat /\ accepted \in Nat
      /\ taken \subseteq 1..accepted /\ lost \subseteq 1..accepted
      /\ Len(items) <= accepted /\ Len(items) <= Capacity /\ Capacity \in Nat
  BY BoundedQueueAssumption DEF QueueTypeOK, NewestKept
<1>2. CASE items = <<>>
  BY <1>1, <1>2 DEF Take, NewestKept, OneFate
<1>3. CASE items # <<>>
  <2>1. /\ items' \in Seq(Nat) /\ Len(items') = Len(items) - 1
        /\ \A i \in 1..Len(items') : items'[i] = accepted - Len(items') + i
        /\ taken' = taken \cup {accepted - Len(items')}
        /\ Len(items) \in Nat \ {0}
    BY <1>1, <1>3, TakeStep, Zenon
  <2>2. NewestKept'
    BY <1>1, <2>1 DEF NewestKept
  <2>3. OneFate'
    <3>1. taken \cup lost = 1..(accepted - Len(items)) /\ taken \cap lost = {}
          /\ dropped = Cardinality(lost)
      BY Zenon DEF OneFate
    <3>2. accepted - Len(items') \notin lost
      BY <1>1, <2>1, <3>1
    <3>3. taken' \cup lost = 1..(accepted - Len(items'))
      BY <1>1, <2>1, <3>1
    <3> QED BY <2>1, <3>1, <3>2, <3>3, Zenon DEF OneFate
  <2>4. taken' \subseteq 1..accepted'
    <3>1. accepted - Len(items') \in 1..accepted
      BY <1>1, <2>1
    <3> QED BY <1>1, <2>1, <3>1, Zenon
  <2> QED BY <1>1, <1>3, <2>1, <2>2, <2>3, <2>4
<1> QED BY <1>2, <1>3, Zenon

\* push() adds the next element; on overflow the oldest becomes lost and is counted.
LEMMA PushFate ==
  ASSUME QueueTypeOK, NewestKept, OneFate, Push
  PROVE  QueueTypeOK' /\ NewestKept' /\ OneFate' /\ Len(items') <= Len(items) + 1
<1>1. /\ items \in Seq(Nat) /\ Len(items) \in Nat /\ accepted \in Nat
      /\ taken \subseteq 1..accepted /\ lost \subseteq 1..accepted /\ dropped \in Nat
      /\ Len(items) <= accepted /\ Len(items) <= Capacity /\ Capacity \in Nat \ {0}
  BY BoundedQueueAssumption DEF QueueTypeOK, NewestKept
<1>2. /\ items' \in Seq(Nat) /\ accepted' = accepted + 1
      /\ Len(items') = (IF Full THEN Len(items) ELSE Len(items) + 1)
      /\ Len(items') <= Capacity
      /\ \A i \in 1..Len(items') : items'[i] = accepted' - Len(items') + i
      /\ Full => Len(items) = Capacity /\ Head(items) = accepted - Len(items) + 1
  BY <1>1, PushStep, Zenon
<1>3. taken' = taken /\ CountDrop
  BY Zenon DEF Push
<1>4. NewestKept'
  <2>1. Len(items') <= accepted'
    BY <1>1, <1>2
  <2> QED BY <1>2, <2>1, Zenon DEF NewestKept
<1>5. taken \cup lost = 1..(accepted - Len(items)) /\ taken \cap lost = {}
      /\ dropped = Cardinality(lost)
  BY Zenon DEF OneFate
<1>6. OneFate' /\ dropped' \in Nat /\ lost' \subseteq 1..accepted'
  <2>1. CASE Full
    <3> DEFINE h == accepted - Len(items) + 1
    <3>1. lost' = lost \cup {h} /\ dropped' = dropped + 1
      BY <1>2, <1>3, <2>1, Zenon DEF CountDrop
    <3>2. h \notin lost /\ h \notin taken /\ h \in 1..accepted
      BY <1>1, <1>2, <1>5, <2>1
    <3>3. IsFiniteSet(lost)
      <4>1. IsFiniteSet(1..accepted)
        BY <1>1, FS_Interval
      <4> QED BY <1>1, <4>1, FS_Subset, Zenon
    <3>4. Cardinality(lost') = Cardinality(lost) + 1
      BY <3>1, <3>2, <3>3, FS_AddElement, Zenon
    <3>5. taken' \cup lost' = 1..(accepted' - Len(items'))
      <4>1. accepted' - Len(items') = h /\ h \in Nat \ {0} /\ accepted - Len(items) = h - 1
        BY <1>1, <1>2, <2>1
      <4>2. 1..h = (1..(h - 1)) \cup {h}
        BY <4>1
      <4> HIDE DEF h
      <4> QED BY <1>3, <1>5, <3>1, <4>1, <4>2, Zenon
    <3>6. OneFate'
      <4>1. taken' \cap lost' = {}
        BY <1>3, <1>5, <3>1, <3>2, Zenon
      <4> QED BY <1>5, <3>1, <3>4, <3>5, <4>1, Zenon DEF OneFate
    <3>7. lost' \subseteq 1..accepted'
      <4>1. 1..accepted \subseteq 1..accepted'
        BY <1>1, <1>2
      <4> QED BY <1>1, <3>1, <3>2, <4>1, Zenon
    <3> QED BY <1>1, <3>1, <3>6, <3>7
  <2>2. CASE ~Full
    <3>1. lost' = lost /\ dropped' = dropped
      BY <1>3, <2>2, Zenon DEF CountDrop
    <3>2. accepted' - Len(items') = accepted - Len(items)
      BY <1>1, <1>2, <2>2
    <3>3. OneFate'
      BY <1>3, <1>5, <3>1, <3>2, Zenon DEF OneFate
    <3>4. lost' \subseteq 1..accepted'
      <4>1. 1..accepted \subseteq 1..accepted'
        BY <1>1, <1>2
      <4> QED BY <1>1, <3>1, <4>1, Zenon
    <3> QED BY <1>1, <3>1, <3>3, <3>4, Zenon
  <2> QED BY <2>1, <2>2, Zenon
<1>7. QueueTypeOK'
  BY <1>1, <1>2, <1>6 DEF QueueTypeOK, Push
<1> QED BY <1>1, <1>2, <1>4, <1>6, <1>7

\* Every step keeps the types, the order and the fates.
LEMMA FateStep ==
  ASSUME QueueTypeOK, NewestKept, OneFate, [QueueNext]_queueVars
  PROVE  QueueTypeOK' /\ NewestKept' /\ OneFate'
<1> DEFINE Same == UNCHANGED <<items, dropped, accepted, taken, lost>>
<1>1. ASSUME Same PROVE NewestKept' /\ OneFate'
  BY <1>1, Zenon DEF NewestKept, OneFate
<1>2. CASE Push
  BY <1>2, PushFate, Zenon
<1>3. CASE PushNotify
  <2>1. Same
    BY <1>3, Zenon DEF PushNotify
  <2> HIDE DEF Same
  <2>2. QueueTypeOK'
    BY <1>3, Zenon DEF PushNotify, QueueTypeOK
  <2> QED BY <1>1, <2>1, <2>2, Zenon
<1>4. CASE PushClosed
  BY <1>4, Zenon DEF PushClosed, queueVars, QueueTypeOK, NewestKept, OneFate
<1>5. CASE Close
  <2>1. QueueTypeOK'
    BY <1>5, Zenon DEF Close, QueueTypeOK
  <2> QED BY <1>1, <1>5, <2>1, Zenon DEF Close
<1>6. CASE CloseNotify
  <2>1. QueueTypeOK'
    BY <1>6, Zenon DEF CloseNotify, QueueTypeOK
  <2> QED BY <1>1, <1>6, <2>1, Zenon DEF CloseNotify
<1>7. ASSUME NEW c \in Consumers, Spurious(c) PROVE QueueTypeOK' /\ NewestKept' /\ OneFate'
  <2>1. QueueTypeOK'
    BY <1>7, Zenon DEF Spurious, QueueTypeOK
  <2> QED BY <1>1, <1>7, <2>1, Zenon DEF Spurious
<1>8. ASSUME NEW c \in Consumers, Pop(c) \/ PopWake(c) \/ PopTimeout(c) \/ TryPop(c)
      PROVE  QueueTypeOK' /\ NewestKept' /\ OneFate'
  <2>1. UNCHANGED <<accepted, lost, dropped>> /\ (Take \/ UNCHANGED <<items, taken>>)
    BY <1>8, Zenon DEF Pop, PopWake, PopTimeout, TryPop
  <2>2. items' \in Seq(Nat) /\ taken' \subseteq 1..accepted' /\ NewestKept' /\ OneFate'
    <3>1. CASE Take
      BY <2>1, <3>1, TakeFate, Zenon
    <3>2. CASE UNCHANGED <<items, taken>>
      BY <2>1, <3>2, <1>1, Zenon DEF QueueTypeOK
    <3> QED BY <2>1, <3>1, <3>2, Zenon
  <2>3. /\ closed' = closed /\ producer' = producer /\ closer' = closer
        /\ waiting' \subseteq Consumers /\ woken' \subseteq Consumers \ waiting'
    BY <1>8, Zenon DEF Pop, PopWake, PopTimeout, TryPop, QueueTypeOK
  <2> QED BY <2>1, <2>2, <2>3, Zenon DEF QueueTypeOK
<1>9. CASE UNCHANGED queueVars
  BY <1>9, Zenon DEF queueVars, QueueTypeOK, NewestKept, OneFate
<1> QED BY <1>2, <1>3, <1>4, <1>5, <1>6, <1>7, <1>8, <1>9, Zenon DEF QueueNext, Consume

-----------------------------------------------------------------------------

\* A subset of the consumers is finite, and adding or removing one counts one.
LEMMA ConsumerSets ==
  ASSUME NEW S \in SUBSET Consumers, NEW c \in Consumers
  PROVE  /\ IsFiniteSet(S) /\ Cardinality(S) \in Nat
         /\ Cardinality(S \cup {c}) = IF c \in S THEN Cardinality(S) ELSE Cardinality(S) + 1
         /\ Cardinality(S \ {c}) = IF c \in S THEN Cardinality(S) - 1 ELSE Cardinality(S)
<1>1. IsFiniteSet(S)
  BY BoundedQueueAssumption, FS_Subset, Zenon
<1> QED BY <1>1, FS_CardinalityType, FS_AddElement, FS_RemoveElement, Zenon

\* Every step keeps a notification, or a woken consumer, for every queued element
\* that a sleeping consumer could take.
LEMMA WakeupStep ==
  ASSUME QueueTypeOK, NewestKept, OneFate, NoLostWakeup, [QueueNext]_queueVars
  PROVE  NoLostWakeup'
<1> DEFINE p == IF producer = "notify" THEN 1 ELSE 0
<1>0. /\ Len(items) \in Nat /\ items \in Seq(Nat)
      /\ waiting \subseteq Consumers /\ woken \in SUBSET Consumers
      /\ woken \cap waiting = {}
      /\ IsFiniteSet(woken) /\ Cardinality(woken) \in Nat
  <2>1. IsFiniteSet(woken)
    BY BoundedQueueAssumption, FS_Subset, Zenon DEF QueueTypeOK
  <2> QED BY <2>1, FS_CardinalityType DEF QueueTypeOK
<1>1. waiting # {} => Len(items) <= Cardinality(woken) + p /\ (closed => closer = "notify")
  BY Zenon DEF NoLostWakeup
<1>2. CASE Push
  <2>1. producer = "idle" /\ producer' = "notify"
        /\ waiting' = waiting /\ woken' = woken /\ closed' = closed /\ closer' = closer
    BY <1>2, Zenon DEF Push
  <2>2. Len(items') <= Len(items) + 1 /\ Len(items') \in Nat
    BY <1>2, PushFate DEF QueueTypeOK
  <2> QED BY <1>0, <1>1, <2>1, <2>2 DEF NoLostWakeup
<1>3. CASE PushNotify
  <2>1. /\ producer = "notify" /\ producer' = "idle"
        /\ items' = items /\ closed' = closed /\ closer' = closer
    BY <1>3, Zenon DEF PushNotify
  <2>2. CASE waiting = {}
    BY <1>3, <2>2, Zenon DEF PushNotify, NoLostWakeup
  <2>3. CASE waiting # {}
    <3>1. PICK c \in waiting : waiting' = waiting \ {c} /\ woken' = woken \cup {c}
      BY <1>3, <2>3, Zenon DEF PushNotify
    <3>2. Cardinality(woken') = Cardinality(woken) + 1
      BY <1>0, <3>1, ConsumerSets, Zenon
    <3> QED BY <1>0, <1>1, <2>1, <2>3, <3>2 DEF NoLostWakeup
  <2> QED BY <2>2, <2>3, Zenon
<1>4. CASE Close
  BY <1>4, <1>1, Zenon DEF Close, NoLostWakeup
<1>5. CASE CloseNotify
  BY <1>5, Zenon DEF CloseNotify, NoLostWakeup
<1>6. ASSUME NEW c \in Consumers, Spurious(c) PROVE NoLostWakeup'
  <2>1. /\ c \in waiting /\ woken' = woken \cup {c}
        /\ items' = items /\ closed' = closed /\ closer' = closer /\ producer' = producer
    BY <1>6, Zenon DEF Spurious
  <2>2. Cardinality(woken') = Cardinality(woken) + 1
    BY <1>0, <2>1, ConsumerSets, Zenon
  <2> QED BY <1>0, <1>1, <2>1, <2>2 DEF NoLostWakeup
<1>7. ASSUME NEW c \in Consumers, Take,
             waiting' \subseteq waiting,
             woken' = woken \ {c} \/ woken' = woken,
             UNCHANGED <<closed, producer, closer, accepted, lost, dropped>>
      PROVE  NoLostWakeup'
  <2>1. /\ Len(items') \in Nat
        /\ (items # <<>> => Len(items') = Len(items) - 1)
        /\ (items = <<>> => Len(items') = 0)
    BY <1>0, <1>7, TakeFate DEF Take
  <2>2. Cardinality(woken') \in Nat /\ Cardinality(woken') >= Cardinality(woken) - 1
    <3>1. CASE woken' = woken \ {c}
      <4>1. Cardinality(woken \ {c})
              = IF c \in woken THEN Cardinality(woken) - 1 ELSE Cardinality(woken)
        BY <1>0, ConsumerSets, Zenon
      <4>2. woken \ {c} \in SUBSET Consumers
        BY <1>0, Zenon
      <4>3. Cardinality(woken \ {c}) \in Nat
        BY <4>2, ConsumerSets, Zenon
      <4> QED BY <1>0, <3>1, <4>1, <4>3
    <3>2. CASE woken' = woken
      BY <1>0, <3>2
    <3> QED BY <1>7, <3>1, <3>2, Zenon
  <2>3. Len(items') <= Cardinality(woken') + p \/ waiting = {}
    BY <1>0, <1>1, <2>1, <2>2
  <2> QED BY <1>1, <1>7, <2>3, Zenon DEF NoLostWakeup
<1>8. ASSUME ~Ready, UNCHANGED <<items, closed>> PROVE NoLostWakeup'
  <2>1. items' = <<>> /\ closed' = FALSE
    BY <1>8, Zenon DEF Ready, QueueTypeOK
  <2>2. woken' \in SUBSET Consumers
    BY FateStep, Zenon DEF QueueTypeOK
  <2>3. Cardinality(woken') \in Nat
    <3>1. IsFiniteSet(woken')
      BY <2>2, BoundedQueueAssumption, FS_Subset, Zenon
    <3> QED BY <3>1, FS_CardinalityType, Zenon
  <2>4. Len(items') <= Cardinality(woken') + (IF producer' = "notify" THEN 1 ELSE 0)
    BY <2>1, <2>3
  <2> QED BY <2>1, <2>4, Zenon DEF NoLostWakeup
<1>9. ASSUME NEW c \in Consumers, Pop(c) PROVE NoLostWakeup'
  BY <1>7, <1>8, <1>9, Zenon DEF Pop
<1>10. ASSUME NEW c \in Consumers, PopWake(c) PROVE NoLostWakeup'
  BY <1>7, <1>8, <1>10, Zenon DEF PopWake
<1>11. ASSUME NEW c \in Consumers, PopTimeout(c) PROVE NoLostWakeup'
  BY <1>7, <1>11, Zenon DEF PopTimeout
<1>12. ASSUME NEW c \in Consumers, TryPop(c) PROVE NoLostWakeup'
  BY <1>7, <1>12, Zenon DEF TryPop
<1>13. CASE UNCHANGED queueVars
  BY <1>13, Zenon DEF queueVars, NoLostWakeup
<1>14. CASE PushClosed
  BY <1>13, <1>14, Zenon DEF PushClosed
<1> QED
  BY <1>2, <1>3, <1>4, <1>5, <1>6, <1>9, <1>10, <1>11, <1>12, <1>13, <1>14, Zenon
  DEF QueueNext, Consume

-----------------------------------------------------------------------------

\* The invariant of the queue holds in every reachable state, whatever the capacity.
THEOREM QueueInvariant == QueueSpec => []QueueInv
<1>1. QueueInit => QueueInv
  <2> SUFFICES ASSUME QueueInit PROVE QueueInv
    BY Zenon
  <2>1. items = <<>> /\ items \in Seq(Nat) /\ Len(items) = 0 /\ Capacity \in Nat
    BY BoundedQueueAssumption DEF QueueInit
  <2>2. QueueTypeOK
    BY <2>1, Zenon DEF QueueInit, QueueTypeOK
  <2>3. NewestKept
    BY <2>1 DEF QueueInit, NewestKept
  <2>4. OneFate
    BY <2>1, FS_EmptySet DEF QueueInit, OneFate
  <2> QED BY <2>2, <2>3, <2>4, Zenon DEF QueueInv, QueueInit, NoLostWakeup
<1>2. QueueInv /\ [QueueNext]_queueVars => QueueInv'
  BY FateStep, WakeupStep, Zenon DEF QueueInv
<1> QED BY <1>1, <1>2, PTL DEF QueueSpec

\* The queue holds the newest elements accepted, in order and without a hole.
THEOREM QueueNewestKept == QueueSpec => []NewestKept
<1>1. QueueInv => NewestKept
  BY Zenon DEF QueueInv
<1> QED BY <1>1, QueueInvariant, PTL

\* Every element is handed out once, or dropped and counted once.
THEOREM QueueOneFate == QueueSpec => []OneFate
<1>1. QueueInv => OneFate
  BY Zenon DEF QueueInv
<1> QED BY <1>1, QueueInvariant, PTL

\* No element waits for a consumer that sleeps without a notification to come.
THEOREM QueueNoLostWakeup == QueueSpec => []NoLostWakeup
<1>1. QueueInv => NoLostWakeup
  BY Zenon DEF QueueInv
<1> QED BY <1>1, QueueInvariant, PTL

-----------------------------------------------------------------------------

\* The elements still waiting, for NewestWins, are those in the queue.
LEMMA WaitingElements ==
  ASSUME QueueInv
  PROVE  /\ Promise!Waiting = (accepted - Len(items) + 1)..accepted
         /\ items # <<>> => Head(items) = accepted - Len(items) + 1
         /\ items # <<>> => Promise!Oldest(Head(items))
<1>1. /\ items \in Seq(Nat) /\ Len(items) \in Nat /\ accepted \in Nat
      /\ Len(items) <= accepted
      /\ taken \cup lost = 1..(accepted - Len(items))
      /\ \A i \in 1..Len(items) : items[i] = accepted - Len(items) + i
  BY DEF QueueInv, QueueTypeOK, NewestKept, OneFate
<1>2. Promise!Waiting = (accepted - Len(items) + 1)..accepted
  BY <1>1 DEF Promise!Waiting
<1>3. ASSUME items # <<>>
      PROVE  Promise!Oldest(Head(items)) /\ Head(items) = accepted - Len(items) + 1
  <2>1. Len(items) \in Nat \ {0} /\ Head(items) = items[1]
    BY <1>1, <1>3
  <2>2. Head(items) = accepted - Len(items) + 1
    BY <1>1, <2>1
  <2> QED BY <1>1, <1>2, <2>1, <2>2 DEF Promise!Oldest
<1> QED BY <1>2, <1>3, Zenon

\* Taking an element hands out the oldest one waiting.
LEMMA TakeImplements ==
  ASSUME QueueInv, Take, UNCHANGED <<accepted, lost, closed>>
  PROVE  [Promise!NNext]_(Promise!nvars)
<1>1. CASE items = <<>>
  BY <1>1, Zenon DEF Take, Promise!nvars
<1>2. CASE items # <<>>
  <2>1. Promise!Oldest(Head(items)) /\ taken' = taken \cup {Head(items)}
    BY <1>2, WaitingElements, Zenon DEF Take
  <2>2. Promise!HandOut
    BY <2>1, Zenon DEF Promise!HandOut, Promise!Oldest
  <2> QED BY <2>2, Zenon DEF Promise!NNext
<1> QED BY <1>1, <1>2, Zenon

\* The queue implements "newest data wins".
THEOREM QueueImplementsNewestWins == QueueSpec => NewestWinsSpec
<1>1. QueueInit => Promise!NInit
  BY Zenon DEF QueueInit, Promise!NInit
<1>2. ASSUME QueueInv, [QueueNext]_queueVars PROVE [Promise!NNext]_(Promise!nvars)
  <2>1. CASE Push
    <3>1. ~closed /\ accepted' = accepted + 1 /\ CountDrop
          /\ UNCHANGED <<taken, closed>>
      BY <2>1, Zenon DEF Push, Accepts
    <3>2. Len(items) \in Nat /\ Len(items) <= Capacity /\ Capacity \in Nat \ {0}
          /\ items \in Seq(Nat) /\ accepted \in Nat
      BY <1>2, BoundedQueueAssumption DEF QueueInv, QueueTypeOK, NewestKept
    <3>3. Promise!Waiting = (accepted - Len(items) + 1)..accepted
      BY <1>2, WaitingElements, Zenon
    <3> DEFINE out == {e \in Promise!Waiting : e + Capacity <= accepted + 1}
    <3>4. lost' = lost \cup out
      <4>1. CASE Full
        <5>1. items # <<>> /\ Len(items) = Capacity
          BY <3>2, <4>1 DEF Full
        <5>2. Head(items) = accepted - Len(items) + 1
          BY <1>2, <5>1, WaitingElements, Zenon
        <5>3. out = {Head(items)}
          BY <3>2, <3>3, <5>1, <5>2
        <5> QED BY <3>1, <4>1, <5>3, Zenon DEF CountDrop
      <4>2. CASE ~Full
        <5>1. out = {}
          BY <3>2, <3>3, <4>2 DEF Full
        <5> QED BY <3>1, <4>2, <5>1, Zenon DEF CountDrop
      <4> QED BY <4>1, <4>2, Zenon
    <3> HIDE DEF out
    <3>5. Promise!Accept
      BY <3>1, <3>4, Zenon DEF Promise!Accept, out
    <3> QED BY <3>5, Zenon DEF Promise!NNext
  <2>2. CASE Close
    BY <2>2, Zenon DEF Close, Promise!Close, Promise!NNext
  <2>3. CASE PushNotify \/ PushClosed \/ CloseNotify
    BY <2>3, Zenon DEF PushNotify, PushClosed, CloseNotify, queueVars, Promise!nvars
  <2>4. ASSUME NEW c \in Consumers, Consume(c) PROVE [Promise!NNext]_(Promise!nvars)
    <3>1. UNCHANGED <<accepted, lost, closed>> /\ (Take \/ UNCHANGED <<items, taken>>)
      BY <2>4, Zenon DEF Consume, Pop, PopWake, PopTimeout, Spurious, TryPop
    <3>2. CASE Take
      BY <1>2, <3>1, <3>2, TakeImplements, Zenon
    <3>3. CASE UNCHANGED <<items, taken>>
      BY <3>1, <3>3, Zenon DEF Promise!nvars
    <3> QED BY <3>1, <3>2, <3>3, Zenon
  <2>5. CASE UNCHANGED queueVars
    BY <2>5, Zenon DEF queueVars, Promise!nvars
  <2> QED BY <1>2, <2>1, <2>2, <2>3, <2>4, <2>5, Zenon DEF QueueNext
<1> QED BY <1>1, <1>2, QueueInvariant, PTL DEF QueueSpec, NewestWinsSpec, Promise!NSpec

=============================================================================
