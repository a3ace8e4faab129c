------------------------------ MODULE Session ------------------------------
(***************************************************************************)
(* The command channel to one LiDAR: src/src/session.cpp (Session::connect,*)
(* request, wait_for_state, cancel and match_ack), over a network that     *)
(* loses, delays, repeats and reorders datagrams.                          *)
(*                                                                         *)
(* One thread calls the Session (the class is not thread safe); cancel()   *)
(* and the stop token come from other threads.  The LiDAR and the network  *)
(* are external.  Payloads are reduced to the work state the LiDAR had     *)
(* when it answered and to whether it accepted the command; the counters   *)
(* of SessionStats are left out.                                           *)
(***************************************************************************)
EXTENDS Naturals, Sequences, FiniteSets

CONSTANTS
  Cmds,         \* command ids; "kParamInquire" is one of them
  States,       \* work states; "kError" may be one of them
  Target,       \* the state wait_for_state() waits for
  Rets,         \* what an ACK says: "success", or the error the typed commands make
                \* of it: "kLidarRejected" (ret_code), "kBadResponse" (payload)
  Attempts,     \* RequestOptions::attempts
  SeqMod,       \* number of values of seq_num (2^32)
  RxCapacity,   \* datagrams the socket buffer holds
  MaxRequests,  \* bound on request() calls, the polls of wait_for_state() included
  MaxSessions,  \* bound on connect() calls
  MaxCancels,   \* bound on cancel() calls
  MaxExtra,     \* bound on state changes and on repeated ACKs
  IoErrors,     \* subset of {TRUE}: whether send_to(), wait() and open() may fail
  MayStop,      \* whether the stop token may be set
  None

ASSUME SessionAssumption ==
  /\ "kParamInquire" \in Cmds
  /\ Target \in States
  /\ Attempts \in Nat \ {0}
  /\ SeqMod \in Nat /\ SeqMod > 2
  /\ MaxRequests \in Nat
  /\ "ok" \notin Rets

VARIABLES
  pc,        \* where the calling thread is
  op,        \* the call in progress: "none", "connect", "request" or "wait_for_state"
  open,      \* a Session is connected
  cmd, seq,  \* request(): cmd_id and seq
  attempt,   \* request(): attempt
  due,       \* request(): the deadline of the attempt has passed
  next_seq,  \* next_seq_
  cancel,    \* cancel_
  stop,      \* options_.stop
  rx,        \* the socket buffer
  reqs,      \* requests in the network
  acks,      \* datagrams in the network to the host
  lidar,     \* work state of the LiDAR
  result,    \* the outcome of the last call, None while one is in progress
  id,        \* number of the request (history)
  sent,      \* datagrams sent by the request (history)
  seen,      \* states of the LiDAR since the request began (history)
  sessions, cancels, extra,  \* connect(), cancel(), and what MaxExtra counts
  cancelled,   \* calls ended by cancel() (history)
  after_stop   \* datagrams sent after the stop (history)

thread == <<pc, op, open, cmd, seq, attempt, next_seq, result, id, sent, sessions,
            cancelled, after_stop>>
network == <<rx, reqs, acks>>
others == <<stop, lidar, cancels, extra>>
vars == <<thread, due, network, others, cancel, seen>>

Init ==
  /\ pc = "idle" /\ op = "none" /\ open = FALSE
  /\ cmd = None /\ seq = 0 /\ attempt = 0 /\ next_seq = 1
  /\ cancel = FALSE /\ stop = FALSE
  /\ rx = <<>> /\ reqs = {} /\ acks = {}
  /\ lidar \in States /\ result = None
  /\ id = 0 /\ sent = 0 /\ seen = {}
  /\ sessions = 0 /\ cancels = 0 /\ extra = 0
  /\ cancelled = 0 /\ after_stop = 0
  /\ due = FALSE

-----------------------------------------------------------------------------
(* The calling thread *)

\* Mutant: 0 is a sequence number like any other.
AfterSeqPlain(n) == (n + 1) % SeqMod

\* next_seq_ after `n`: 0 is skipped.
AfterSeq(n) == IF n + 1 = SeqMod THEN 1 ELSE n + 1

\* request(), up to the loop over the attempts.
Begin(c, n) ==
  /\ id < MaxRequests
  /\ cmd' = c
  /\ seq' = n
  /\ next_seq' = AfterSeq(n)
  /\ attempt' = 1
  /\ pc' = "attempt"
  /\ result' = None
  /\ id' = id + 1
  /\ sent' = 0
  /\ seen' = {lidar}

\* The call returns, and the deadline is gone.
Return(outcome) ==
  /\ pc' = "idle"
  /\ op' = "none"
  /\ result' = outcome
  /\ due' = FALSE

Error(kind, n) == [kind |-> kind, attempts |-> n, ack |-> None]

\* Session::connect(): a new socket and a new Session, then read_serial().
Connect ==
  /\ pc = "idle" /\ sessions < MaxSessions
  /\ sessions' = sessions + 1
  /\ open' = FALSE
  /\ rx' = <<>>
  /\ cancel' = FALSE
  /\ Begin("kParamInquire", 1)
  /\ op' = "connect"
  /\ UNCHANGED <<due, reqs, acks, others, cancelled, after_stop>>

\* Session::connect() of a discovered device without verify_serial: no request.
ConnectUnverified ==
  /\ pc = "idle" /\ sessions < MaxSessions
  /\ sessions' = sessions + 1
  /\ open' = TRUE
  /\ rx' = <<>>
  /\ cancel' = FALSE
  /\ next_seq' = 1
  /\ result' = None
  /\ UNCHANGED <<pc, op, cmd, seq, attempt, due, id, sent, cancelled, after_stop,
                 reqs, acks, others, seen>>

\* Session::open() fails.
ConnectFails ==
  /\ TRUE \in IoErrors
  /\ pc = "idle" /\ sessions < MaxSessions
  /\ sessions' = sessions + 1
  /\ open' = FALSE
  /\ rx' = <<>>
  /\ Return(Error("kTransport", 0))
  /\ UNCHANGED <<cmd, seq, attempt, next_seq, id, sent, cancelled, after_stop,
                 reqs, acks, others, cancel, seen>>

\* A typed command, or one turn of wait_for_state(), begins its request.
Call ==
  /\ pc = "idle" /\ open
  /\ \/ op' = "request" /\ \E c \in Cmds : Begin(c, next_seq)
     \/ op' = "wait_for_state" /\ Begin("kParamInquire", next_seq)
  /\ UNCHANGED <<open, due, sessions, cancelled, after_stop, network, others, cancel>>

\* request() of a command too long for a frame: the sequence number is used up.
CallTooLong ==
  /\ TRUE \in IoErrors
  /\ pc = "idle" /\ open
  /\ id < MaxRequests
  /\ id' = id + 1
  /\ next_seq' = AfterSeq(next_seq)
  /\ sent' = 0
  /\ seen' = {}
  /\ Return(Error("kTransport", 0))
  /\ UNCHANGED <<open, cmd, seq, attempt, sessions, cancelled, after_stop, network,
                 others, cancel>>

\* Mutant: the flag is read and not consumed.
ConsumeCancelKeeps == cancel' = cancel

\* cancel_.exchange(false)
ConsumeCancel == cancel' = FALSE

\* Mutant: only the cancel flag is looked at.
InterruptedByFlag == cancel

\* The condition that ends a call with kCancelled.
Interrupted == cancel \/ stop

\* A call ends with kCancelled after `n` datagrams.
Cancelled(n) ==
  /\ Interrupted
  /\ ConsumeCancel
  /\ Return(Error("kCancelled", n))
  /\ cancelled' = cancelled + (IF stop THEN 0 ELSE 1)
  /\ UNCHANGED <<open, cmd, seq, attempt, next_seq, id, sent, sessions, after_stop,
                 others, seen>>

\* The check at the top of an attempt.
AttemptCheck ==
  /\ pc = "attempt"
  /\ \/ Cancelled(attempt - 1) /\ UNCHANGED network
     \/ /\ ~Interrupted
        /\ ConsumeCancel
        /\ pc' = "send"
        /\ UNCHANGED <<op, open, cmd, seq, attempt, due, next_seq, result, id, sent,
                       sessions, cancelled, after_stop, network, others, seen>>

\* send_to(), the same bytes in every attempt; the deadline is computed after it.
Send ==
  /\ pc = "send"
  /\ pc' = "top"
  /\ reqs' = reqs \cup {[seq |-> seq, cmd |-> cmd, id |-> id]}
  /\ sent' = sent + 1
  /\ after_stop' = after_stop + (IF stop THEN 1 ELSE 0)
  /\ UNCHANGED <<op, open, cmd, seq, attempt, due, next_seq, result, id, sessions,
                 cancelled, rx, acks, others, cancel, seen>>

\* send_to() or Poller::wait() fails.
IoFails ==
  /\ TRUE \in IoErrors
  /\ pc \in {"send", "wait", "sleep"}
  /\ Return(Error("kTransport", IF pc = "sleep" THEN 0 ELSE attempt))
  /\ UNCHANGED <<open, cmd, seq, attempt, next_seq, id, sent, sessions, cancelled,
                 after_stop, network, others, cancel, seen>>

\* The top of the loop of an attempt, once its deadline has passed: the next one, or kTimeout.
Expire ==
  /\ pc = "top" /\ due
  /\ \/ /\ attempt < Attempts
        /\ attempt' = attempt + 1
        /\ pc' = "attempt"
        /\ due' = FALSE
        /\ UNCHANGED <<op, result>>
     \/ /\ attempt = Attempts
        /\ Return(Error("kTimeout", Attempts))
        /\ UNCHANGED attempt
  /\ UNCHANGED <<open, cmd, seq, next_seq, id, sent, sessions, cancelled, after_stop,
                 network, others, cancel, seen>>

\* The top of the loop before the deadline: Poller::wait().
Poll ==
  /\ pc = "top" /\ ~due
  /\ pc' = "wait"
  /\ UNCHANGED <<op, open, cmd, seq, attempt, due, next_seq, result, id, sent,
                 sessions, cancelled, after_stop, network, others, cancel, seen>>

\* Mutant: the deadline is computed again at every turn of the loop.
DeadlineRestarted == due' = FALSE

\* The deadline stays what it was when the attempt began.
DeadlineKept == due' = due

\* Poller::wait() returns, early after a wake(), a slice of time or a datagram: the flag
\* first, then the datagrams.
Wait ==
  /\ pc = "wait"
  /\ \/ Cancelled(attempt) /\ UNCHANGED network
     \/ /\ ~Interrupted
        /\ ConsumeCancel
        /\ \/ rx # <<>> /\ pc' = "drain" /\ UNCHANGED due
           \/ rx = <<>> /\ pc' = "top" /\ DeadlineKept
        /\ UNCHANGED <<op, open, cmd, seq, attempt, next_seq, result, id, sent,
                       sessions, cancelled, after_stop, network, others, seen>>

\* Mutant: any ACK of the command will do.
MatchAckAnySeq(d) == d.type = "ack" /\ d.cmd = cmd

\* match_ack(); the source address is the LiDAR's for every ACK here.
MatchAck(d) == d.type = "ack" /\ d.seq = seq /\ d.cmd = cmd

\* The typed commands turn the ACK into a result.
Outcome(d) == IF d.ret = "success"
                THEN [kind |-> "ok", attempts |-> sent, ack |-> d]
                ELSE Error(d.ret, 0)

\* What an accepted ACK means for the call in progress.
Accept(d) ==
  \/ /\ op \in {"request", "connect"}
     /\ Return(Outcome(d))
     /\ open' = (open \/ d.ret = "success")
  \/ /\ op = "wait_for_state"
     /\ UNCHANGED open
     /\ IF d.ret # "success" \/ d.state = Target
          THEN Return(Outcome(d))
          ELSE IF d.state = "kError"
                 THEN Return(Error("kUnexpectedState", 0))
                 ELSE pc' = "judge" /\ due' = FALSE /\ UNCHANGED <<op, result>>

\* recv_one() until the socket is empty or an ACK matches: neither the deadline nor the
\* flag is looked at before.
Drain ==
  /\ pc = "drain"
  /\ IF rx = <<>>
       THEN pc' = "top" /\ DeadlineKept /\ UNCHANGED <<op, open, result, rx>>
       ELSE /\ rx' = Tail(rx)
            /\ IF MatchAck(Head(rx))
                 THEN Accept(Head(rx))
                 ELSE UNCHANGED <<pc, op, open, result, due>>
  /\ UNCHANGED <<cmd, seq, attempt, next_seq, id, sent, sessions, cancelled,
                 after_stop, reqs, acks, others, cancel, seen>>

\* wait_for_state() between two polls: its deadline, which may pass during any of them, has
\* passed.
SleepExpire ==
  /\ pc = "judge"
  /\ Return(Error("kTimeout", 0))
  /\ UNCHANGED <<open, cmd, seq, attempt, next_seq, id, sent, sessions, cancelled,
                 after_stop, network, others, cancel, seen>>

\* wait_for_state() between two polls: its deadline has not passed and it sleeps on the Poller.
SleepBegin ==
  /\ pc = "judge" /\ id < MaxRequests
  /\ pc' = "sleep"
  /\ UNCHANGED <<op, open, cmd, seq, attempt, due, next_seq, result, id, sent,
                 sessions, cancelled, after_stop, network, others, cancel, seen>>

\* wait_for_state() begins its next poll.
NextPoll ==
  /\ Begin("kParamInquire", next_seq)
  /\ UNCHANGED <<op, open, due, sessions, cancelled, after_stop, network, others>>

\* The sleep ends: the flag, then the stray datagrams or the next poll.
Sleep ==
  /\ pc = "sleep"
  /\ \/ Cancelled(0) /\ UNCHANGED network
     \/ ~Interrupted /\ ConsumeCancel /\ rx = <<>> /\ NextPoll
     \/ /\ ~Interrupted /\ ConsumeCancel /\ rx # <<>>
        /\ pc' = "flush"
        /\ UNCHANGED <<op, open, cmd, seq, attempt, due, next_seq, result, id, sent,
                       sessions, cancelled, after_stop, network, others, seen>>

\* recv_one() until the socket is empty, then the next poll.
Flush ==
  /\ pc = "flush"
  /\ UNCHANGED cancel
  /\ \/ rx = <<>> /\ NextPoll
     \/ /\ rx # <<>>
        /\ rx' = Tail(rx)
        /\ UNCHANGED <<thread, due, reqs, acks, others, seen>>

Thread ==
  \/ AttemptCheck \/ Send \/ Expire \/ Poll \/ Wait \/ Drain
  \/ SleepExpire \/ SleepBegin \/ Sleep \/ Flush

-----------------------------------------------------------------------------
(* Other threads *)

\* Session::cancel(); wake() only makes Poller::wait() return.
Cancel ==
  /\ cancels < MaxCancels
  /\ open
  /\ cancel' = TRUE
  /\ cancels' = cancels + 1
  /\ UNCHANGED <<thread, due, network, stop, lidar, extra, seen>>

RequestStop ==
  /\ MayStop
  /\ ~stop
  /\ stop' = TRUE
  /\ UNCHANGED <<thread, due, network, lidar, cancels, extra, cancel, seen>>

-----------------------------------------------------------------------------
(* Time (external) *)

\* The deadline of the attempt passes.
DeadlinePasses ==
  /\ pc \in {"top", "wait", "drain"} /\ ~due
  /\ due' = TRUE
  /\ UNCHANGED <<thread, network, others, cancel, seen>>

-----------------------------------------------------------------------------
(* The LiDAR and the network (external).  A datagram that is never taken from *)
(* `reqs` or `acks` is lost; one taken late or out of turn is delayed.         *)

\* The LiDAR changes its state on its own.
LidarChanges ==
  /\ extra < MaxExtra /\ extra' = extra + 1
  /\ lidar' \in States \ {lidar}
  /\ seen' = IF pc = "idle" THEN seen ELSE seen \cup {lidar'}
  /\ UNCHANGED <<thread, due, network, stop, cancels, cancel>>

\* The LiDAR answers a request with its present state.
LidarAnswers ==
  \E r \in reqs, ret \in Rets :
    /\ reqs' = reqs \ {r}
    /\ acks' = acks \cup {[type |-> "ack", seq |-> r.seq, cmd |-> r.cmd, id |-> r.id,
                           ret |-> ret, state |-> lidar]}
    /\ UNCHANGED <<thread, due, rx, others, cancel, seen>>

\* An ACK reaches the socket, and may be repeated; without a Session it is refused.
Deliver ==
  \E a \in acks :
    /\ sessions > 0
    /\ Len(rx) < RxCapacity
    /\ rx' = Append(rx, a)
    /\ \/ acks' = acks \ {a} /\ UNCHANGED extra
       \/ extra < MaxExtra /\ extra' = extra + 1 /\ UNCHANGED acks
    /\ UNCHANGED <<thread, due, reqs, stop, lidar, cancels, cancel, seen>>

\* A datagram that is no ACK, or no frame at all, reaches the socket: as many as the socket
\* takes, without end.
Stray ==
  /\ sessions > 0
  /\ Len(rx) < RxCapacity
  /\ rx' = Append(rx, [type |-> "other"])
  /\ UNCHANGED <<thread, due, reqs, acks, others, cancel, seen>>

Next ==
  \/ Connect \/ ConnectUnverified \/ ConnectFails
  \/ Call \/ CallTooLong \/ Thread \/ IoFails
  \/ Cancel \/ RequestStop \/ DeadlinePasses
  \/ LidarChanges \/ LidarAnswers \/ Deliver \/ Stray

Spec == Init /\ [][Next]_vars

\* The calling thread runs, and time passes.  Nothing is assumed of the LiDAR, of I/O errors
\* or of the network; CallReturns names what it needs of the latter.
Fairness ==
  /\ WF_vars(Thread)
  /\ WF_vars(DeadlinePasses)

FairSpec == Spec /\ Fairness

-----------------------------------------------------------------------------
(* Properties *)

Request == [seq : Nat, cmd : Cmds, id : Nat]
Ack == [type : {"ack"}, seq : Nat, cmd : Cmds, id : Nat, ret : Rets, state : States]
Datagram == Ack \cup [type : {"other"}]

FlagsOK ==
  /\ open \in BOOLEAN /\ cancel \in BOOLEAN /\ stop \in BOOLEAN
  /\ due \in BOOLEAN

StateOK ==
  /\ pc \in {"idle", "attempt", "send", "top", "wait", "drain", "judge", "sleep", "flush"}
  /\ op \in {"none", "connect", "request", "wait_for_state"}
  /\ cmd \in Cmds \cup {None} /\ (pc # "idle" => cmd \in Cmds)
  /\ seq \in Nat /\ next_seq \in 1..SeqMod - 1
  /\ attempt \in 0..Attempts /\ sent \in 0..Attempts
  /\ pc \in {"attempt", "send"} => sent + 1 = attempt
  /\ pc \in {"top", "wait", "drain", "judge", "sleep", "flush"} => sent = attempt
  /\ reqs \in SUBSET Request /\ acks \in SUBSET Ack
  /\ lidar \in States /\ seen \in SUBSET States
  /\ id \in Nat /\ sessions \in Nat /\ cancels \in Nat
  /\ cancelled \in Nat /\ after_stop \in Nat

\* Every variable has its type; a sequence number is never 0, and a request counts the
\* datagrams it has sent.
TypeOK == FlagsOK /\ StateOK /\ rx \in Seq(Datagram)

\* The ACK a call returns is the LiDAR's answer to one of the datagrams of this very
\* request, never to an earlier one, and the work state in it is one the LiDAR had
\* while the request was in progress: whatever was lost, late, repeated or retried.
AckFresh ==
  (result # None /\ result.kind = "ok") =>
    result.ack.id = id /\ result.ack.state \in seen

\* A cancel() ends at most one call: request() and wait_for_state() consume the flag.
CancelEndsOne == cancelled + (IF cancel THEN 1 ELSE 0) <= cancels

\* After a stop was requested at most one more datagram is sent, in this and all later
\* calls together: the one whose check came before the stop.
QuietAfterStop == after_stop <= 1

\* One Session, and fewer requests than sequence numbers: the case in which a sequence
\* number names a request (SeqRestart.cfg shows that it does not across Sessions).
OneSession == MaxSessions = 1 /\ MaxRequests < SeqMod

\* SessionError::attempts is the number of "datagrams sent for this request".
AttemptsReported ==
  (result # None /\ result.kind # "ok" /\ id > 0) => result.attempts = sent

\* Every call returns, cancelled or not.
CallReturnsEver == (pc # "idle") ~> (pc = "idle")

\* The datagrams do not come for ever as fast as the thread takes them from the socket.
DrainsEnd == []<>(pc \notin {"drain", "flush"})

\* Every call returns: whatever is lost, and although datagrams that answer nothing keep
\* coming, the deadline of an attempt is seen, if only the socket is found empty now and
\* then.  The loops that empty it look at no deadline (session.cpp:445-465 and 601-606), so
\* that nothing less will do (EndlessDrain.cfg).
CallReturns == DrainsEnd => CallReturnsEver

=============================================================================
