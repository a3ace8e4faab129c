---------------------------- MODULE BoundedQueue ----------------------------
(***************************************************************************)
(* BoundedQueue of include/livox/mid360/frame.hpp: one producer (the       *)
(* receive thread), several consumers, a mutex and a condition variable.   *)
(*                                                                         *)
(* A critical section is one action.  notify_one() and notify_all() come   *)
(* after the unlock and are actions of their own.  A consumer that waits   *)
(* is in `waiting`; a notification, or a spurious wake-up, moves it to     *)
(* `woken`, and it evaluates the predicate of wait_for() again when it has *)
(* the mutex.  The elements are numbered in the order they are accepted.   *)
(***************************************************************************)
EXTENDS Naturals, Sequences, FiniteSets

CONSTANTS
  Consumers,  \* threads that call pop() and try_pop()
  Capacity,   \* capacity_
  MaxPushes   \* bound on the elements accepted

\* A queue of capacity 0 would pop_front() an empty deque.
ASSUME BoundedQueueAssumption ==
  /\ Capacity \in Nat \ {0}
  /\ MaxPushes \in Nat
  /\ IsFiniteSet(Consumers)

VARIABLES
  items,     \* items_
  dropped,   \* dropped_
  closed,    \* closed_
  waiting,   \* consumers blocked in wait_for()
  woken,     \* consumers leaving wait_for() that do not have the mutex yet
  producer,  \* "idle", or "notify" between the unlock and notify_one()
  closer,    \* "idle", "notify" between the unlock and notify_all(), or "done"
  accepted,  \* elements accepted so far (history)
  taken,     \* elements handed out (history)
  lost       \* elements dropped (history)

queueVars == <<items, dropped, closed, waiting, woken, producer, closer, accepted,
               taken, lost>>

QueueInit ==
  /\ items = <<>>
  /\ dropped = 0
  /\ closed = FALSE
  /\ waiting = {}
  /\ woken = {}
  /\ producer = "idle"
  /\ closer = "idle"
  /\ accepted = 0
  /\ taken = {}
  /\ lost = {}

-----------------------------------------------------------------------------

\* Mutant: the closed flag is not looked at.
AcceptsAlways == TRUE

\* push() looks at the flag first.
Accepts == ~closed

Full == Len(items) >= Capacity

\* Mutant: overflow drops the newest element.
KeptOldest == IF Full THEN SubSeq(items, 1, Capacity - 1) ELSE items

\* What stays in the queue when an element is pushed: overflow drops the oldest.
Kept == IF Full THEN Tail(items) ELSE items

\* Mutant: the element dropped is not counted.
CountDropUncounted == lost' = (IF Full THEN lost \cup {Head(items)} ELSE lost)
                      /\ UNCHANGED dropped

CountDrop ==
  IF Full
    THEN dropped' = dropped + 1 /\ lost' = lost \cup {Head(items)}
    ELSE UNCHANGED <<dropped, lost>>

\* push() on a closed queue returns without a notification.
PushClosed ==
  /\ producer = "idle"
  /\ ~Accepts
  /\ UNCHANGED queueVars

\* push(), up to the unlock.
Push ==
  /\ producer = "idle"
  /\ accepted < MaxPushes
  /\ Accepts
  /\ items' = Append(Kept, accepted + 1)
  /\ CountDrop
  /\ accepted' = accepted + 1
  /\ producer' = "notify"
  /\ UNCHANGED <<closed, waiting, woken, closer, taken>>

\* Mutant: the notification is forgotten.
PushNoNotify ==
  /\ producer = "notify"
  /\ producer' = "idle"
  /\ UNCHANGED <<items, dropped, closed, waiting, woken, closer, accepted, taken, lost>>

\* notify_one()
PushNotify ==
  /\ producer = "notify"
  /\ producer' = "idle"
  /\ IF waiting = {}
       THEN UNCHANGED <<waiting, woken>>
       ELSE \E c \in waiting : waiting' = waiting \ {c} /\ woken' = woken \cup {c}
  /\ UNCHANGED <<items, dropped, closed, closer, accepted, taken, lost>>

\* take()
Take ==
  IF items = <<>>
    THEN UNCHANGED <<items, taken>>
    ELSE items' = Tail(items) /\ taken' = taken \cup {Head(items)}

\* The predicate of wait_for().
Ready == closed \/ items # <<>>

\* pop(): the predicate decides between take() and waiting.
Pop(c) ==
  /\ c \notin waiting \cup woken
  /\ \/ Ready /\ Take /\ UNCHANGED waiting
     \/ ~Ready /\ waiting' = waiting \cup {c} /\ UNCHANGED <<items, taken>>
  /\ UNCHANGED <<dropped, closed, woken, producer, closer, accepted, lost>>

\* Mutant: the sleeper is entered in the woken set and in the waiting set.
PopWakeStays(c) ==
  /\ c \in woken
  /\ \/ Ready /\ Take /\ UNCHANGED waiting
     \/ ~Ready /\ waiting' = waiting \cup {c} /\ UNCHANGED <<items, taken>>
  /\ UNCHANGED <<dropped, closed, woken, producer, closer, accepted, lost>>

\* pop(), woken: the predicate is evaluated again.
PopWake(c) ==
  /\ c \in woken
  /\ woken' = woken \ {c}
  /\ \/ Ready /\ Take /\ UNCHANGED waiting
     \/ ~Ready /\ waiting' = waiting \cup {c} /\ UNCHANGED <<items, taken>>
  /\ UNCHANGED <<dropped, closed, producer, closer, accepted, lost>>

\* pop(), after the timeout: take() whatever the predicate.
PopTimeout(c) ==
  /\ c \in waiting \cup woken
  /\ waiting' = waiting \ {c}
  /\ woken' = woken \ {c}
  /\ Take
  /\ UNCHANGED <<dropped, closed, producer, closer, accepted, lost>>

Spurious(c) ==
  /\ c \in waiting
  /\ waiting' = waiting \ {c}
  /\ woken' = woken \cup {c}
  /\ UNCHANGED <<items, dropped, closed, producer, closer, accepted, taken, lost>>

TryPop(c) ==
  /\ c \notin waiting \cup woken
  /\ Take
  /\ UNCHANGED <<dropped, closed, waiting, woken, producer, closer, accepted, lost>>

\* close(), up to the unlock.
Close ==
  /\ closer = "idle"
  /\ closed' = TRUE
  /\ closer' = "notify"
  /\ UNCHANGED <<items, dropped, waiting, woken, producer, accepted, taken, lost>>

\* Mutant: notify_one() instead of notify_all().
CloseNotifyOne ==
  /\ closer = "notify"
  /\ closer' = "done"
  /\ IF waiting = {}
       THEN UNCHANGED <<waiting, woken>>
       ELSE \E c \in waiting : waiting' = waiting \ {c} /\ woken' = woken \cup {c}
  /\ UNCHANGED <<items, dropped, closed, producer, accepted, taken, lost>>

\* notify_all()
CloseNotify ==
  /\ closer = "notify"
  /\ closer' = "done"
  /\ woken' = woken \cup waiting
  /\ waiting' = {}
  /\ UNCHANGED <<items, dropped, closed, producer, accepted, taken, lost>>

Consume(c) == Pop(c) \/ PopWake(c) \/ PopTimeout(c) \/ Spurious(c) \/ TryPop(c)

QueueNext ==
  \/ Push \/ PushClosed \/ PushNotify \/ Close \/ CloseNotify
  \/ \E c \in Consumers : Consume(c)

QueueSpec == QueueInit /\ [][QueueNext]_queueVars

\* A thread inside push(), close() or a woken pop() gets to run.  Nothing is assumed
\* of timeouts, of the callers, or of spurious wake-ups.
QueueFairness ==
  /\ WF_queueVars(PushNotify)
  /\ WF_queueVars(CloseNotify)
  /\ \A c \in Consumers : WF_queueVars(PopWake(c))

FairQueueSpec == QueueSpec /\ QueueFairness

-----------------------------------------------------------------------------
(* Properties *)

\* Every member has its type; no thread is both asleep and awake.
QueueTypeOK ==
  /\ items \in Seq(Nat)
  /\ dropped \in Nat
  /\ closed \in BOOLEAN
  /\ waiting \subseteq Consumers
  /\ woken \subseteq Consumers \ waiting
  /\ producer \in {"idle", "notify"}
  /\ closer \in {"idle", "notify", "done"}
  /\ accepted \in Nat
  /\ taken \subseteq 1..accepted
  /\ lost \subseteq 1..accepted

\* The queue holds the newest elements, in order and without a hole: overflow in
\* push() and take() both remove at the old end only.
NewestKept ==
  /\ Len(items) <= Capacity
  /\ Len(items) <= accepted
  /\ \A i \in 1..Len(items) : items[i] = accepted - Len(items) + i

\* Every accepted element older than the queue has exactly one fate: handed out to
\* one consumer, or dropped by an overflow of push() and counted once.
OneFate ==
  /\ taken \cup lost = 1..(accepted - Len(items))
  /\ taken \cap lost = {}
  /\ dropped = Cardinality(lost)

\* No wake-up is lost: while a consumer sleeps in wait_for(), every queued element has
\* a woken consumer, or the notification of push() still to come, to see to it, and
\* on a closed queue notify_all() is still to come.
NoLostWakeup ==
  waiting # {} =>
    /\ Len(items) <= Cardinality(woken) + (IF producer = "notify" THEN 1 ELSE 0)
    /\ closed => closer = "notify"

\* The inductive invariant.
QueueInv == QueueTypeOK /\ NewestKept /\ OneFate /\ NoLostWakeup

\* What the queue promises, with its history as the state of NewestWins.
Promise == INSTANCE NewestWins WITH Capacity <- Capacity, accepted <- accepted,
                                    taken <- taken, lost <- lost, closed <- closed

\* Every step of the queue is a step NewestWins allows, or changes nothing of it.
NewestWinsSpec == Promise!NSpec

\* A sleeping consumer and a queued element find each other without the timeout.
HandedOver ==
  (items # <<>> /\ waiting # {}) ~> (items = <<>> \/ waiting = {})

\* close() ends every pop() that sleeps.
CloseWakes == closed ~> (waiting = {})

\* No pop() sleeps on while there is something to return.
PopsReturn == HandedOver /\ CloseWakes

=============================================================================
