--------------------------- MODULE ContextProofs ---------------------------
(***************************************************************************)
(* Proofs about Context for every number of receivers, addresses and       *)
(* sockets and every batch size: the inductive invariant IInv, and from it *)
(* NoCallbackAfterRemove and DispatchSound, that is UniqueKeys and         *)
(* RegisteredSourceFound.                                                  *)
(***************************************************************************)
EXTENDS Context, TLAPS

(* Splitting a socket buffer as RecvBatch does keeps every datagram. *)
LEMMA SplitSeq ==
  ASSUME NEW S, NEW s \in Seq(S), NEW n \in 0..Len(s)
  PROVE  /\ SubSeq(s, 1, n) \in Seq(S)
         /\ \A i \in DOMAIN SubSeq(s, 1, n) : i \in DOMAIN s /\ SubSeq(s, 1, n)[i] = s[i]
         /\ SubSeq(s, n + 1, Len(s)) \in Seq(S)
         /\ \A i \in DOMAIN SubSeq(s, n + 1, Len(s)) :
              n + i \in DOMAIN s /\ SubSeq(s, n + 1, Len(s))[i] = s[n + i]
  OBVIOUS

(* bind() and rekey() write one field of an entry. *)
LEMMA BoundEntry ==
  ASSUME NEW e \in Entry
  PROVE  LET b == [e EXCEPT !.device = TRUE] IN
         b \in Entry /\ b.ip = e.ip /\ b.receiver = e.receiver /\ b.serial = e.serial
  BY Zenon DEF Entry

(* rekey() replaces the IP of an entry and keeps its other fields. *)
LEMMA RekeyedEntry ==
  ASSUME NEW ip \in Ips, NEW e \in Entry
  PROVE  LET k == [e EXCEPT !.ip = ip] IN
         k \in Entry /\ k.ip = ip /\ k.receiver = e.receiver /\ k.serial = e.serial
  BY Zenon DEF Entry

(* After bind() every entry is an old one with, at most, another handle. *)
LEMMA BindEntries ==
  ASSUME TypeOK, NEW r \in Receivers, Bind(r)
  PROVE  \A g \in entries' : \E e \in entries : g.receiver = e.receiver /\ g.ip = e.ip
<1> DEFINE b(e) == IF e.receiver = r THEN [e EXCEPT !.device = TRUE] ELSE e
<1>1. entries' = {b(e) : e \in entries}
  BY Zenon DEF Bind
<1>2. \A e \in entries : b(e).ip = e.ip /\ b(e).receiver = e.receiver
  BY BoundEntry, Zenon DEF TypeOK
<1> HIDE DEF b
<1> QED BY <1>1, <1>2, Zenon

(* After rekey() every entry is an old one, with another IP if it is r's. *)
LEMMA RekeyEntries ==
  ASSUME TypeOK, NEW r \in Receivers, NEW ip \in Ips, Rekey(r, ip)
  PROVE  \A g \in entries' : \E e \in entries :
           g.receiver = e.receiver /\ (e.receiver # r => g.ip = e.ip)
<1> DEFINE k(e) == IF e.receiver = r THEN [e EXCEPT !.ip = ip] ELSE e
<1>1. entries' = {k(e) : e \in entries}
  BY Zenon DEF Rekey
<1>2. \A e \in entries : k(e).receiver = e.receiver /\ (e.receiver # r => k(e).ip = e.ip)
  BY RekeyedEntry, Zenon DEF TypeOK
<1> HIDE DEF k
<1> QED BY <1>1, <1>2, Zenon

(* The receivers of a set of entries are receivers. *)
LEMMA ReceiversOfType ==
  ASSUME NEW S \in SUBSET Entry
  PROVE  ReceiversOf(S) \in SUBSET Receivers
  BY Zenon DEF ReceiversOf, Entry

(* Every registry call, receive step and arrival keeps the types. *)
LEMMA TypeStep == IInv /\ [Next]_vars => TypeOK'
<1> SUFFICES ASSUME IInv, [Next]_vars PROVE TypeOK'
  BY Zenon
<1> USE DEF TypeOK
<1>0. TypeOK /\ LoopLocals
  BY Zenon DEF IInv
<1>1. ASSUME NEW r \in Receivers, Bind(r) PROVE TypeOK'
  <2>1. entries' \in SUBSET Entry
    BY <1>0, <1>1, BoundEntry DEF Bind
  <2> QED BY <1>0, <1>1, <2>1, Zenon DEF Bind, loopVars, snapVars
<1>2. ASSUME NEW r \in Receivers, Remove(r) PROVE TypeOK'
  <2>1. entries' \in SUBSET Entry
    BY <1>0, <1>2, Zenon DEF Remove
  <2> QED BY <1>0, <1>2, <2>1 DEF Remove, loopVars, snapVars
<1>3. ASSUME NEW r \in Receivers, RemoveWake(r) \/ SpuriousWake(r) PROVE TypeOK'
  <2>1. CASE RemoveWake(r)
    BY <1>0, <2>1 DEF RemoveWake, userVars, loopVars, snapVars
  <2>2. CASE SpuriousWake(r)
    BY <1>0, <2>2, Zenon DEF SpuriousWake, userVars, loopVars, snapVars
  <2> QED BY <1>3, <2>1, <2>2, Zenon
<1>4. ASSUME NEW r \in Receivers, NEW ip \in Ips, Add(r, ip) PROVE TypeOK'
  <2>1. [ip |-> ip, receiver |-> r, serial |-> SerialOf[r], device |-> FALSE] \in Entry
    BY ContextAssumption, Zenon DEF Entry
  <2>2. entries' \in SUBSET Entry
    BY <1>0, <1>4, <2>1, Zenon DEF Add
  <2> QED BY <1>0, <1>4, <2>2 DEF Add, loopVars, snapVars
<1>5. ASSUME NEW r \in Receivers, NEW ip \in Ips, Rekey(r, ip) PROVE TypeOK'
  <2>1. entries' \in SUBSET Entry
    BY <1>0, <1>5, RekeyedEntry DEF Rekey
  <2> QED BY <1>0, <1>5, <2>1 DEF Rekey, loopVars, snapVars
<1>6. CASE Shutdown
  BY <1>0, <1>6, Zenon DEF Shutdown, loopVars, snapVars
<1>7. CASE \/ Loop \/ EndTick \/ Poll \/ PollFails \/ RecvFails
           \/ NoMoreSockets \/ EndDatagram \/ BatchDone \/ Exit
  <2>1. CASE Loop
    BY <1>0, <2>1, Zenon DEF Loop, userVars, snapVars
  <2>2. CASE EndTick
    BY <1>0, <2>2, Zenon DEF EndTick, userVars, snapVars
  <2>3. CASE Poll
    BY <1>0, <2>3, Zenon DEF Poll, userVars, snapVars
  <2>8. CASE PollFails \/ RecvFails
    BY <1>0, <2>8, Zenon DEF PollFails, RecvFails, userVars, snapVars
  <2>4. CASE NoMoreSockets
    BY <1>0, <2>4, Zenon DEF NoMoreSockets, userVars, snapVars
  <2>5. CASE EndDatagram
    BY <1>0, <2>5, Zenon DEF EndDatagram, userVars, snapVars
  <2>6. CASE BatchDone
    BY <1>0, <2>6, Zenon DEF BatchDone, userVars, snapVars
  <2>7. CASE Exit
    BY <1>0, <2>7, Zenon DEF Exit, userVars, snapVars
  <2> QED BY <1>7, <2>1, <2>2, <2>3, <2>4, <2>5, <2>6, <2>7, <2>8, Zenon
<1>8. CASE RefreshCheck \/ RefreshCopy
  <2>1. ReceiversOf(snapshot) \in SUBSET Receivers /\ ReceiversOf(entries) \in SUBSET Receivers
    BY <1>0, ReceiversOfType, Zenon
  <2> QED BY <1>0, <1>8, <2>1, Zenon DEF RefreshCheck, RefreshCopy, userVars, snapVars
<1>9. ASSUME NEW r \in Receivers, BeginTick(r) PROVE TypeOK'
  BY <1>0, <1>9, Zenon DEF BeginTick, userVars, snapVars
<1>10. ASSUME NEW p \in Ports, NextSocket(p) PROVE TypeOK'
  BY <1>0, <1>10, Zenon DEF NextSocket, userVars, snapVars
<1>11. CASE RecvBatch
  <2> DEFINE n == IF Len(rx[cur]) < BatchSize THEN Len(rx[cur]) ELSE BatchSize
  <2>1. cur \in Ports /\ rx[cur] \in Seq(Datagram)
    BY <1>0, <1>11, Zenon DEF RecvBatch, AfterReceive, LoopLocals
  <2>2. n \in 0..Len(rx[cur])
    BY <2>1, ContextAssumption
  <2>3. /\ SubSeq(rx[cur], 1, n) \in Seq(Datagram)
        /\ SubSeq(rx[cur], n + 1, Len(rx[cur])) \in Seq(Datagram)
    BY <2>1, <2>2, SplitSeq, Zenon
  <2>4. batch' \in Seq(Datagram) /\ rx' \in [Ports -> Seq(Datagram)]
    BY <1>0, <1>11, <2>1, <2>3, Zenon DEF RecvBatch, AfterReceive
  <2>5. pc' \in {"next", "check"} /\ ret' \in {"tick", "dispatch"} /\ round' \in Nat
    BY <1>0, <1>11 DEF RecvBatch, AfterReceive
  <2>6. full' \in BOOLEAN
    BY <1>0, <1>11, Zenon DEF RecvBatch, AfterReceive
  <2> QED BY <1>0, <1>11, <2>4, <2>5, <2>6, Zenon DEF RecvBatch, AfterReceive, userVars, snapVars
<1>12. CASE Dispatch
  <2>1. active' \in Receivers
    BY <1>0, <1>12, Zenon DEF Dispatch, Entry
  <2>2. batch' \in Seq(Datagram)
    BY <1>0, <1>12 DEF Dispatch
  <2> QED BY <1>0, <1>12, <2>1, <2>2, Zenon DEF Dispatch, userVars, snapVars
<1>13. CASE UnknownSource
  <2>1. batch' \in Seq(Datagram)
    BY <1>0, <1>13 DEF UnknownSource
  <2> QED BY <1>0, <1>13, <2>1, Zenon DEF UnknownSource, userVars, snapVars
<1>14. ASSUME NEW p \in Ports, NEW ip \in Ips, Arrive(p, ip) PROVE TypeOK'
  <2>1. [ip |-> ip, gen |-> generation] \in Datagram
    BY <1>0, Zenon DEF Datagram
  <2>2. rx' \in [Ports -> Seq(Datagram)]
    BY <1>0, <1>14, <2>1 DEF Arrive
  <2> QED BY <1>0, <1>14, <2>2, Zenon DEF Arrive, userVars, loopVars, snapVars
<1>15. CASE UNCHANGED vars
  BY <1>0, <1>15, Zenon DEF vars, userVars, loopVars, snapVars
<1> QED
  BY <1>1, <1>2, <1>3, <1>4, <1>5, <1>6, <1>7, <1>8, <1>9, <1>10, <1>11, <1>12, <1>13, <1>14,
     <1>15, Zenon DEF Next, User, Receive, Network, Terminated

(* add() and rekey() refuse duplicates and the refresh copies a registry
   without any, so keys stay unique in both. *)
LEMMA UniqueKeysStep == IInv /\ [Next]_vars => UniqueKeys'
<1> SUFFICES ASSUME IInv, [Next]_vars PROVE UniqueKeys'
  OBVIOUS
<1> USE DEF UniqueKeys
<1>0. /\ UniqueKeys /\ entries \in SUBSET Entry
      /\ \A e \in entries : life[e.receiver] = "open"
  BY Zenon DEF IInv, TypeOK, EntriesOpen
<1>1. ASSUME NEW r \in Receivers, Bind(r) PROVE UniqueKeys'
  <2> DEFINE b(e) == IF e.receiver = r THEN [e EXCEPT !.device = TRUE] ELSE e
  <2>1. entries' = {b(e) : e \in entries} /\ snapshot' = snapshot
    BY <1>1, Zenon DEF Bind, snapVars
  <2>2. \A e \in entries : b(e).ip = e.ip /\ b(e).serial = e.serial /\ b(e).receiver = e.receiver
    BY <1>0, BoundEntry, Zenon
  <2> HIDE DEF b
  <2>3. ASSUME NEW e \in entries, NEW f \in entries,
               b(e).ip = b(f).ip \/ b(e).serial = b(f).serial \/ b(e).receiver = b(f).receiver
        PROVE  b(e) = b(f)
    BY <1>0, <2>2, <2>3
  <2> QED BY <1>0, <2>1, <2>3
<1>2. ASSUME NEW r \in Receivers, Remove(r) PROVE UniqueKeys'
  BY <1>0, <1>2, Zenon DEF Remove, snapVars
<1>3. ASSUME NEW r \in Receivers, NEW ip \in Ips, Add(r, ip) PROVE UniqueKeys'
  <2>1. \A e \in entries : e.ip # ip /\ e.serial # SerialOf[r] /\ e.receiver # r
    BY <1>0, <1>3, Zenon DEF Add
  <2> DEFINE n == [ip |-> ip, receiver |-> r, serial |-> SerialOf[r], device |-> FALSE]
  <2>2. n.ip = ip /\ n.receiver = r /\ n.serial = SerialOf[r]
    BY Zenon
  <2>3. entries' = entries \cup {n} /\ snapshot' = snapshot
    BY <1>3, Zenon DEF Add, snapVars
  <2> HIDE DEF n
  <2> QED BY <1>0, <2>1, <2>2, <2>3
<1>4. ASSUME NEW r \in Receivers, NEW ip \in Ips, Rekey(r, ip) PROVE UniqueKeys'
  <2> DEFINE k(e) == IF e.receiver = r THEN [e EXCEPT !.ip = ip] ELSE e
  <2>1. entries' = {k(e) : e \in entries} /\ snapshot' = snapshot /\ \A e \in entries : e.ip # ip
    BY <1>4, Zenon DEF Rekey, snapVars
  <2>2. \A e \in entries : /\ k(e).ip = IF e.receiver = r THEN ip ELSE e.ip
                           /\ k(e).serial = e.serial /\ k(e).receiver = e.receiver
    BY <1>0, RekeyedEntry
  <2> HIDE DEF k
  <2>3. ASSUME NEW e \in entries, NEW f \in entries,
               k(e).ip = k(f).ip \/ k(e).serial = k(f).serial \/ k(e).receiver = k(f).receiver
        PROVE  k(e) = k(f)
    BY <1>0, <2>1, <2>2, <2>3
  <2> QED BY <1>0, <2>1, <2>3
<1>5. CASE RefreshCopy
  BY <1>0, <1>5, Zenon DEF RefreshCopy, userVars
<1>6. CASE UNCHANGED <<entries, snapshot>>
  BY <1>0, <1>6, Zenon
<1> QED
  BY <1>1, <1>2, <1>3, <1>4, <1>5, <1>6, Zenon
  DEF Next, User, Receive, Network, Terminated, RemoveWake, SpuriousWake, Shutdown, Loop,
      RefreshCheck, BeginTick, EndTick, Poll, PollFails, RecvFails, NoMoreSockets,
      RecvBatch, AfterReceive, NextSocket, Dispatch,
      UnknownSource, EndDatagram, BatchDone, Exit, Arrive, vars, userVars, snapVars

(* Only add() makes entries, for the Device it opens; remove() takes them out
   before the Device leaves "open". *)
LEMMA EntriesOpenStep == IInv /\ [Next]_vars => EntriesOpen'
<1> SUFFICES ASSUME IInv, [Next]_vars PROVE EntriesOpen'
  OBVIOUS
<1> USE DEF EntriesOpen
<1>0. TypeOK /\ EntriesOpen
  BY Zenon DEF IInv
<1>e. \A e \in entries : e.receiver \in Receivers
  BY <1>0, Zenon DEF TypeOK, Entry
<1>1. ASSUME NEW r \in Receivers, Bind(r) PROVE EntriesOpen'
  <2>1. \A g \in entries' : \E e \in entries : g.receiver = e.receiver
    BY <1>0, <1>1, BindEntries, Zenon
  <2> QED BY <1>0, <1>1, <2>1 DEF Bind
<1>2. ASSUME NEW r \in Receivers, Remove(r) PROVE EntriesOpen'
  BY <1>0, <1>e, <1>2 DEF Remove, TypeOK
<1>3. ASSUME NEW r \in Receivers, RemoveWake(r) PROVE EntriesOpen'
  BY <1>0, <1>e, <1>3, Zenon DEF RemoveWake, TypeOK
<1>4. ASSUME NEW r \in Receivers, NEW ip \in Ips, Add(r, ip) PROVE EntriesOpen'
  BY <1>0, <1>e, <1>4 DEF Add, TypeOK
<1>5. ASSUME NEW r \in Receivers, NEW ip \in Ips, Rekey(r, ip) PROVE EntriesOpen'
  <2>1. \A g \in entries' : \E e \in entries : g.receiver = e.receiver
    BY <1>0, <1>5, RekeyEntries, Zenon
  <2>2. \A q \in Receivers : since'[q] = IF q = r THEN generation + 1 ELSE since[q]
    BY <1>0, <1>5, Zenon DEF Rekey, TypeOK
  <2>3. life' = life /\ generation' = generation + 1
    BY <1>5, Zenon DEF Rekey
  <2>4. \A q \in Receivers : since[q] <= generation => since'[q] <= generation'
    <3>1. generation \in Nat /\ \A q \in Receivers : since[q] \in Nat
      BY <1>0, Zenon DEF TypeOK
    <3> QED BY <2>2, <2>3, <3>1
  <2> QED BY <1>0, <1>e, <2>1, <2>3, <2>4, Zenon
<1>6. CASE UNCHANGED <<entries, life, since, generation>>
  BY <1>0, <1>6, Zenon
<1> QED
  BY <1>1, <1>2, <1>3, <1>4, <1>5, <1>6, Zenon
  DEF Next, User, Receive, Network, Terminated, SpuriousWake, Shutdown, Loop,
      RefreshCheck, RefreshCopy, BeginTick, EndTick, Poll, PollFails, RecvFails, NoMoreSockets,
      RecvBatch, AfterReceive, NextSocket,
      Dispatch, UnknownSource, EndDatagram, BatchDone, Exit, Arrive, vars, userVars

(* An entry that the snapshot lacks was added or rekeyed after the refresh that
   took the snapshot. *)
LEMMA SnapshotCurrentStep == IInv /\ [Next]_vars => SnapshotCurrent'
<1> SUFFICES ASSUME IInv, [Next]_vars PROVE SnapshotCurrent'
  OBVIOUS
<1> USE DEF SnapshotCurrent
<1>0. TypeOK /\ SnapshotCurrent /\ EntriesOpen
  BY Zenon DEF IInv
<1>e. \A e \in entries : e.receiver \in Receivers
  BY <1>0, Zenon DEF TypeOK, Entry
<1>1. ASSUME NEW r \in Receivers, Bind(r) PROVE SnapshotCurrent'
  <2>1. \A g \in entries' : \E e \in entries : g.receiver = e.receiver /\ g.ip = e.ip
    BY <1>0, <1>1, BindEntries, Zenon
  <2> QED BY <1>0, <1>1, <2>1 DEF Bind, snapVars
<1>2. ASSUME NEW r \in Receivers, Remove(r) PROVE SnapshotCurrent'
  BY <1>0, <1>e, <1>2 DEF Remove, TypeOK, snapVars
<1>3. ASSUME NEW r \in Receivers, NEW ip \in Ips, Add(r, ip) PROVE SnapshotCurrent'
  BY <1>0, <1>e, <1>3 DEF Add, TypeOK, snapVars, EntriesOpen
<1>4. ASSUME NEW r \in Receivers, NEW ip \in Ips, Rekey(r, ip) PROVE SnapshotCurrent'
  <2>1. \A g \in entries' : \E e \in entries :
          g.receiver = e.receiver /\ (e.receiver # r => g.ip = e.ip)
    BY <1>0, <1>4, RekeyEntries, Zenon
  <2>2. \A q \in Receivers : since'[q] = IF q = r THEN generation + 1 ELSE since[q]
    BY <1>0, <1>4, Zenon DEF Rekey, TypeOK
  <2>3. UNCHANGED snapVars /\ generation' = generation + 1
    BY <1>4, Zenon DEF Rekey
  <2>4. generation \in Nat /\ seen \in Nat /\ ~(generation + 1 <= seen)
    BY <1>0 DEF TypeOK
  <2> QED BY <1>0, <1>e, <2>1, <2>2, <2>3, <2>4 DEF snapVars
<1>5. CASE RefreshCopy
  BY <1>0, <1>5 DEF RefreshCopy, userVars, TypeOK
<1>6. CASE UNCHANGED <<entries, since, generation, snapshot, seen, observed>>
  BY <1>0, <1>6, Zenon
<1> QED
  BY <1>1, <1>2, <1>3, <1>4, <1>5, <1>6, Zenon
  DEF Next, User, Receive, Network, Terminated, RemoveWake, SpuriousWake, Shutdown, Loop,
      RefreshCheck, BeginTick, EndTick, Poll, PollFails, RecvFails, NoMoreSockets,
      RecvBatch, AfterReceive, NextSocket,
      Dispatch, UnknownSource, EndDatagram, BatchDone, Exit, Arrive, vars, userVars, snapVars

(* The locals of run() are empty outside the part of the loop that uses them. *)
LEMMA LoopLocalsStep == IInv /\ [Next]_vars => LoopLocals'
<1> SUFFICES ASSUME IInv, [Next]_vars PROVE LoopLocals'
  OBVIOUS
<1> USE DEF LoopLocals
<1>0. TypeOK /\ LoopLocals
  BY Zenon DEF IInv
<1>1. CASE Loop \/ EndTick \/ Poll \/ PollFails \/ RecvFails \/ NoMoreSockets
  BY <1>0, <1>1, Zenon DEF Loop, EndTick, Poll, PollFails, RecvFails, NoMoreSockets
<1>2. CASE RefreshCheck \/ RefreshCopy
  BY <1>0, <1>2, Zenon DEF RefreshCheck, RefreshCopy, TypeOK
<1>3. ASSUME NEW r \in Receivers, BeginTick(r) PROVE LoopLocals'
  BY <1>0, <1>3, Zenon DEF BeginTick
<1>4. ASSUME NEW p \in Ports, NextSocket(p) PROVE LoopLocals'
  BY <1>0, <1>4, Zenon DEF NextSocket
<1>5. CASE RecvBatch
  BY <1>0, <1>5, Zenon DEF RecvBatch, AfterReceive
<1>6. CASE Dispatch \/ UnknownSource \/ EndDatagram \/ BatchDone \/ Exit
  BY <1>0, <1>6, Zenon DEF Dispatch, UnknownSource, EndDatagram, BatchDone, Exit
<1>7. CASE UNCHANGED loopVars
  BY <1>0, <1>7, Zenon DEF loopVars
<1> QED
  BY <1>1, <1>2, <1>3, <1>4, <1>5, <1>6, <1>7, Zenon
  DEF Next, User, Receive, Network, Terminated, Add, Bind, Rekey, Remove, RemoveWake,
      SpuriousWake, Shutdown, Arrive, vars

(* The refresh between recv_batch() and the dispatch makes the snapshot as new
   as every datagram of the batch. *)
LEMMA DatagramsSeenStep == IInv /\ [Next]_vars => DatagramsSeen'
<1> SUFFICES ASSUME IInv, [Next]_vars PROVE DatagramsSeen'
  OBVIOUS
<1> USE DEF DatagramsSeen
<1>0. /\ DatagramsSeen /\ LoopLocals /\ seen <= generation
      /\ generation \in Nat /\ seen \in Nat
      /\ batch \in Seq(Datagram) /\ rx \in [Ports -> Seq(Datagram)]
  BY Zenon DEF IInv, TypeOK, SnapshotCurrent
<1>g. /\ \A p \in Ports : \A i \in DOMAIN rx[p] : rx[p][i].gen \in Nat
      /\ \A i \in DOMAIN batch : batch[i].gen \in Nat
  <2>1. \A d \in Datagram : d.gen \in Nat
    BY Zenon DEF Datagram
  <2>2. \A s \in Seq(Datagram) : \A i \in DOMAIN s : s[i] \in Datagram
    OBVIOUS
  <2>3. \A p \in Ports : rx[p] \in Seq(Datagram)
    BY <1>0, Zenon
  <2> QED BY <1>0, <2>1, <2>2, <2>3, Zenon
<1>1. ASSUME generation' = generation + 1, UNCHANGED <<loopVars, snapVars, rx>>
      PROVE  DatagramsSeen'
  <2>1. UNCHANGED <<batch, pc, seen, rx>>
    BY <1>1, Zenon DEF loopVars, snapVars
  <2>2. \A x \in Nat : x <= generation => x <= generation'
    BY <1>0, <1>1
  <2> QED BY <1>0, <1>g, <2>1, <2>2, Zenon
<1>2. CASE RefreshCheck \/ RefreshCopy
  BY <1>0, <1>g, <1>2, Zenon DEF RefreshCheck, RefreshCopy, userVars, snapVars
<1>3. CASE RecvBatch
  <2> DEFINE n == IF Len(rx[cur]) < BatchSize THEN Len(rx[cur]) ELSE BatchSize
  <2>1. cur \in Ports /\ rx[cur] \in Seq(Datagram) /\ n \in 0..Len(rx[cur])
    BY SMTT(30), <1>0, <1>3, ContextAssumption DEF RecvBatch, AfterReceive, LoopLocals
  <2>2. CASE n = 0
    BY <1>0, <1>3, <2>2, Zenon DEF RecvBatch, AfterReceive, userVars, snapVars
  <2>3. CASE n # 0
    <3>1. /\ batch' = SubSeq(rx[cur], 1, n)
          /\ rx' = [rx EXCEPT ![cur] = SubSeq(rx[cur], n + 1, Len(rx[cur]))]
          /\ pc' = "check" /\ generation' = generation
      BY <1>3, <2>3, Zenon DEF RecvBatch, AfterReceive, userVars
    <3>2. \A i \in DOMAIN batch' : batch'[i].gen <= generation
      BY SMTT(30), <1>0, <2>1, <3>1, SplitSeq
    <3>3. \A i \in DOMAIN rx'[cur] : rx'[cur][i].gen <= generation
      <4> HIDE DEF n
      <4> DEFINE t == SubSeq(rx[cur], n + 1, Len(rx[cur]))
      <4>1. \A i \in DOMAIN t : n + i \in DOMAIN rx[cur] /\ t[i] = rx[cur][n + i]
        BY <2>1, SplitSeq, Zenon
      <4>2. rx'[cur] = t
        BY <1>0, <2>1, <3>1, Zenon
      <4> HIDE DEF t
      <4> QED BY <1>0, <2>1, <4>1, <4>2, Zenon
    <3>4. \A p \in Ports : p # cur => rx'[p] = rx[p]
      BY <1>0, <3>1, Zenon
    <3> QED BY <1>0, <2>1, <3>1, <3>2, <3>3, <3>4, Zenon
  <2> QED BY <2>2, <2>3, Zenon
<1>4. CASE Dispatch \/ UnknownSource
  <2>1. /\ batch # <<>> /\ batch' = Tail(batch) /\ pc = "dispatch"
        /\ UNCHANGED <<rx, generation, seen>>
    BY <1>4, Zenon DEF Dispatch, UnknownSource, userVars, snapVars
  <2>2. \A i \in DOMAIN batch' : i + 1 \in DOMAIN batch /\ batch'[i] = batch[i + 1]
    BY <1>0, <2>1
  <2> QED BY <1>0, <2>1, <2>2, Zenon
<1>5. ASSUME NEW p \in Ports, NEW ip \in Ips, Arrive(p, ip) PROVE DatagramsSeen'
  <2>1. \A q \in Ports : \A i \in DOMAIN rx'[q] : rx'[q][i].gen <= generation
    BY <1>0, <1>5 DEF Arrive
  <2> QED BY <1>0, <1>5, <2>1, Zenon DEF Arrive, userVars, loopVars, snapVars
<1>6. CASE EndDatagram
  BY <1>0, <1>6, Zenon DEF EndDatagram, userVars, snapVars
<1>7. CASE UNCHANGED <<batch, rx, generation, seen>> /\ pc' \notin {"dispatch", "calling"}
  BY <1>0, <1>7, Zenon
<1>8. CASE UNCHANGED <<batch, rx, generation, seen, pc>>
  BY <1>0, <1>8, Zenon
<1> QED
  BY <1>1, <1>2, <1>3, <1>4, <1>5, <1>6, <1>7, <1>8, Zenon
  DEF Next, User, Receive, Network, Terminated, Add, Bind, Rekey, Remove, RemoveWake,
      SpuriousWake, Shutdown, Loop, BeginTick, EndTick, Poll, PollFails, RecvFails, NoMoreSockets, NextSocket,
      BatchDone, Exit, vars, userVars, loopVars, snapVars

(* The receive thread lets go of a receiver when it copies a registry that    *)
(* does not hold it, and takes up only receivers of its snapshot.             *)
LEMMA DroppedStep ==
  ASSUME IInv, [Next]_vars, NEW r \in Receivers,
         \/ Dropped(r) /\ r \notin ReceiversOf(entries)
         \/ RefreshCopy /\ r \notin ReceiversOf(entries)
  PROVE  Dropped(r)'
<1> USE DEF Dropped
<1>0. TypeOK /\ LoopLocals
  BY Zenon DEF IInv
<1>1. CASE RefreshCopy
  <2>1. todo = {} /\ active = None
    BY <1>0, <1>1, Zenon DEF RefreshCopy, LoopLocals
  <2>2. ReceiversOf(snapshot)' = ReceiversOf(entries)
    BY <1>1, Zenon DEF RefreshCopy, ReceiversOf
  <2>3. todo' \subseteq ReceiversOf(entries) /\ active' = None
    BY <1>1, <2>1, Zenon DEF RefreshCopy
  <2> QED BY <2>2, <2>3, ContextAssumption, Zenon
<1>2. CASE RefreshCheck
  BY <1>2, Zenon DEF RefreshCheck, RefreshCopy, snapVars, ReceiversOf
<1>3. CASE Dispatch
  BY <1>3, Zenon DEF Dispatch, RefreshCopy, snapVars, ReceiversOf
<1>4. ASSUME NEW q \in Receivers, BeginTick(q) PROVE Dropped(r)'
  BY <1>4, Zenon DEF BeginTick, RefreshCopy, snapVars, ReceiversOf
<1>5. CASE EndTick \/ EndDatagram
  BY <1>5, ContextAssumption, Zenon DEF EndTick, EndDatagram, RefreshCopy, snapVars, ReceiversOf
<1>6. CASE ~RefreshCopy /\ UNCHANGED <<snapshot, todo, active>>
  BY <1>6, Zenon DEF ReceiversOf
<1> QED
  BY <1>1, <1>2, <1>3, <1>4, <1>5, <1>6, Zenon
  DEF Next, User, Receive, Network, Terminated, Add, Bind, Rekey, Remove, RemoveWake,
      SpuriousWake, Shutdown, Loop, Poll, PollFails, RecvFails, NoMoreSockets,
      RecvBatch, AfterReceive, NextSocket, UnknownSource,
      BatchDone, Exit, Arrive, vars, loopVars, snapVars, userVars, RefreshCopy

(* remove() returns only when the receive thread has refreshed past the removal,
   and from then on the thread has let go of the receiver. *)
LEMMA RemovalStep == IInv /\ [Next]_vars => NoCallbackAfterRemove' /\ RemovalObserved'
<1> SUFFICES ASSUME IInv, [Next]_vars PROVE NoCallbackAfterRemove' /\ RemovalObserved'
  BY Zenon
<1> USE DEF NoCallbackAfterRemove, RemovalObserved
<1>0. /\ NoCallbackAfterRemove /\ RemovalObserved /\ observed <= generation
      /\ generation \in Nat /\ observed \in Nat
      /\ target \in [Receivers -> Nat] /\ life \in [Receivers -> {"none", "open", "removing"}]
  BY Zenon DEF IInv, TypeOK, SnapshotCurrent
<1>n. \A r \in Receivers : life[r] # "open" => r \notin ReceiversOf(entries)
  BY Zenon DEF IInv, EntriesOpen, ReceiversOf
<1>d. \A r \in Receivers : Dropped(r) /\ life[r] # "open" => Dropped(r)'
  BY <1>n, DroppedStep, Zenon
<1>1. ASSUME NEW r \in Receivers, Remove(r) PROVE NoCallbackAfterRemove' /\ RemovalObserved'
  <2>1. /\ generation' = generation + 1 /\ observed' = observed /\ stop' = stop
        /\ life[r] = "open"
        /\ \A q \in Receivers : life'[q] = IF q = r THEN "removing" ELSE life[q]
        /\ \A q \in Receivers : target'[q] = IF q = r THEN generation + 1 ELSE target[q]
    BY <1>0, <1>1, Zenon DEF Remove, snapVars
  <2>2. ~(generation + 1 <= observed) /\ \A x \in Nat : x <= generation => x <= generation'
    BY <1>0, <2>1
  <2> QED BY SMTT(30), <1>0, <1>d, <2>1, <2>2
<1>2. ASSUME NEW r \in Receivers, RemoveWake(r) PROVE NoCallbackAfterRemove' /\ RemovalObserved'
  <2>1. /\ UNCHANGED <<generation, observed, stop, target>> /\ life[r] = "removing"
        /\ \A q \in Receivers : q # r => life'[q] = life[q]
        /\ life'[r] = IF observed >= target[r] \/ stop THEN "none" ELSE "removing"
    BY <1>0, <1>2, Zenon DEF RemoveWake, snapVars
  <2>2. ~stop /\ (observed >= target[r] => target[r] <= observed)
    BY <1>0, <2>1, Zenon
  <2> QED BY <1>0, <1>d, <2>1, <2>2, Zenon
<1>3. ASSUME NEW r \in Receivers, NEW ip \in Ips, Add(r, ip)
      PROVE  NoCallbackAfterRemove' /\ RemovalObserved'
  <2>1. /\ generation' = generation + 1 /\ observed' = observed /\ stop' = stop /\ ~stop
        /\ \A q \in Receivers : life'[q] = IF q = r THEN "open" ELSE life[q]
        /\ \A q \in Receivers : q # r => target'[q] = target[q]
    BY <1>0, <1>3, Zenon DEF Add, snapVars
  <2>2. \A x \in Nat : x <= generation => x <= generation'
    BY <1>0, <2>1
  <2> QED BY <1>0, <1>d, <2>1, <2>2, Zenon
<1>4. ASSUME NEW r \in Receivers, NEW ip \in Ips, Rekey(r, ip)
      PROVE  NoCallbackAfterRemove' /\ RemovalObserved'
  <2>1. UNCHANGED <<life, target, observed, stop>> /\ generation' = generation + 1
    BY <1>4, Zenon DEF Rekey, snapVars
  <2>2. \A x \in Nat : x <= generation => x <= generation'
    BY <1>0, <2>1
  <2> QED BY <1>0, <1>d, <2>1, <2>2, Zenon
<1>5. CASE RefreshCopy
  <2>1. UNCHANGED <<life, target, generation, stop>>
    BY <1>5, Zenon DEF RefreshCopy, userVars
  <2>2. \A r \in Receivers : life[r] # "open" => Dropped(r)'
    BY <1>5, <1>n, DroppedStep, Zenon
  <2> QED BY <1>0, <2>1, <2>2, Zenon
<1>6. CASE Shutdown
  <2>1. UNCHANGED <<life, target, generation, observed>> /\ \A r \in Receivers : life[r] = "none"
    BY <1>6, Zenon DEF Shutdown, snapVars
  <2> QED BY <1>0, <1>d, <2>1, Zenon
<1>7. CASE UNCHANGED <<life, target, generation, observed, stop>>
  BY <1>0, <1>d, <1>7, Zenon
<1> QED
  BY <1>1, <1>2, <1>3, <1>4, <1>5, <1>6, <1>7, Zenon
  DEF Next, User, Receive, Network, Terminated, Bind, SpuriousWake, Loop, RefreshCheck,
      BeginTick, EndTick, Poll, PollFails, RecvFails, NoMoreSockets,
      RecvBatch, AfterReceive, NextSocket, Dispatch, UnknownSource,
      EndDatagram, BatchDone, Exit, Arrive, vars, userVars, snapVars

(* A new Context, without entries, satisfies the invariant. *)
LEMMA InitIInv == Init => IInv
<1> SUFFICES ASSUME Init PROVE IInv
  BY Zenon
<1>1. TypeOK
  <2>1. batch \in Seq(Datagram) /\ rx \in [Ports -> Seq(Datagram)]
    BY DEF Init
  <2>2. /\ life \in [Receivers -> {"none", "open", "removing"}]
        /\ target \in [Receivers -> Nat] /\ since \in [Receivers -> Nat]
    BY Zenon DEF Init
  <2> QED BY <2>1, <2>2, Zenon DEF Init, TypeOK
<1>2. UniqueKeys /\ NoCallbackAfterRemove /\ EntriesOpen /\ SnapshotCurrent /\ RemovalObserved
  BY SMTT(30), ContextAssumption
  DEF Init, UniqueKeys, NoCallbackAfterRemove, Dropped, ReceiversOf, EntriesOpen,
      SnapshotCurrent, RemovalObserved
<1>3. LoopLocals /\ DatagramsSeen
  <2>1. LoopLocals
    BY Zenon DEF Init, LoopLocals
  <2>2. DOMAIN batch = {} /\ \A p \in Ports : DOMAIN rx[p] = {}
    BY DEF Init
  <2> QED BY <2>1, <2>2, Zenon DEF DatagramsSeen
<1> QED BY <1>1, <1>2, <1>3, Zenon DEF IInv

(* The registry and the receive thread's view of it stay consistent: IInv is  *)
(* an invariant of Context.                                                   *)
THEOREM ContextInvariant == Spec => []IInv
<1>1. IInv /\ [Next]_vars => IInv'
  BY TypeStep, UniqueKeysStep, EntriesOpenStep, SnapshotCurrentStep, LoopLocalsStep,
     DatagramsSeenStep, RemovalStep, Zenon DEF IInv
<1> QED BY InitIInv, <1>1, PTL DEF Spec

(* Every variable keeps its type. *)
THEOREM ContextTypeOK == Spec => []TypeOK
<1>1. IInv => TypeOK
  BY Zenon DEF IInv
<1> QED BY ContextInvariant, <1>1, PTL

(* add() and rekey() keep IPs and serial numbers unique, so that dispatch by  *)
(* source address is unambiguous.                                             *)
THEOREM ContextUniqueKeys == Spec => []UniqueKeys
<1>1. IInv => UniqueKeys
  BY Zenon DEF IInv
<1> QED BY ContextInvariant, <1>1, PTL

(* After remove() returned, the receive thread holds no reference to the      *)
(* removed Device::Impl, for any number of Devices opened and destroyed       *)
(* concurrently.                                                              *)
THEOREM ContextNoCallbackAfterRemove == Spec => []NoCallbackAfterRemove
<1>1. IInv => NoCallbackAfterRemove
  BY Zenon DEF IInv
<1> QED BY ContextInvariant, <1>1, PTL

(* A datagram that arrived after its source was registered meets a snapshot   *)
(* with that source (#124).                                                   *)
THEOREM ContextRegisteredSourceFound == Spec => []RegisteredSourceFound
<1>1. IInv => RegisteredSourceFound
  <2> SUFFICES ASSUME IInv, pc = "dispatch", NEW i \in DOMAIN batch, NEW e \in entries,
                      e.ip = batch[i].ip, since[e.receiver] <= batch[i].gen
               PROVE  \E f \in snapshot : f.ip = e.ip /\ f.receiver = e.receiver
    BY Zenon DEF RegisteredSourceFound
  <2>1. batch[i].gen <= seen
    BY Zenon DEF IInv, DatagramsSeen
  <2>2. since[e.receiver] \in Nat /\ batch[i].gen \in Nat /\ seen \in Nat
    <3>1. e.receiver \in Receivers
      BY Zenon DEF IInv, TypeOK, Entry
    <3>2. batch[i] \in Datagram
      BY DEF IInv, TypeOK
    <3> QED BY <3>1, <3>2, Zenon DEF IInv, TypeOK, Datagram
  <2>3. since[e.receiver] <= seen
    BY <2>1, <2>2
  <2> QED BY <2>3, Zenon DEF IInv, SnapshotCurrent
<1> QED BY ContextInvariant, <1>1, PTL

(* One source has one receiver, and a datagram of a registered source reaches it,   *)
(* however the registry changes while run() polls, reads and dispatches.             *)
THEOREM ContextDispatchSound == Spec => []DispatchSound
<1>1. UniqueKeys /\ RegisteredSourceFound => DispatchSound
  BY Zenon DEF DispatchSound
<1> QED BY ContextUniqueKeys, ContextRegisteredSourceFound, <1>1, PTL
=============================================================================
