----------------------------- MODULE NewestWins -----------------------------
(***************************************************************************)
(* What BoundedQueue promises its users (include/livox/mid360/frame.hpp):  *)
(* "Overflow drops the OLDEST element (newest data wins) and counts it".   *)
(*                                                                         *)
(* Elements are numbered in the order they are accepted.  Each one has one *)
(* fate: it is waiting, it was handed out once, or it was dropped.  There  *)
(* is no queue here, no lock and no waiting.                               *)
(***************************************************************************)
EXTENDS Naturals

CONSTANT Capacity

VARIABLES
  accepted,  \* number of elements accepted so far
  taken,     \* the elements handed out
  lost,      \* the elements dropped
  closed     \* no element is accepted any more

nvars == <<accepted, taken, lost, closed>>

Waiting == (1..accepted) \ (taken \cup lost)

Oldest(e) == e \in Waiting /\ \A f \in Waiting : e <= f

NInit == accepted = 0 /\ taken = {} /\ lost = {} /\ closed = FALSE

\* An element still waiting is lost when it is no longer among the Capacity newest.
Accept ==
  /\ ~closed
  /\ accepted' = accepted + 1
  /\ lost' = lost \cup {e \in Waiting : e + Capacity <= accepted + 1}
  /\ UNCHANGED <<taken, closed>>

\* The oldest element waiting is handed out.
HandOut ==
  /\ \E e \in Waiting : Oldest(e) /\ taken' = taken \cup {e}
  /\ UNCHANGED <<accepted, lost, closed>>

Close == closed' = TRUE /\ UNCHANGED <<accepted, taken, lost>>

NNext == Accept \/ HandOut \/ Close

NSpec == NInit /\ [][NNext]_nvars
=============================================================================
