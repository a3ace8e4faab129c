------------------------------ MODULE Discovery ------------------------------
(***************************************************************************)
(* discover() (src/src/session.cpp) over UdpSocket and Poller              *)
(* (src/src/transport.cpp): one request per target, then ACKs from two     *)
(* sockets until the deadline, a stop, or an answer of every target.       *)
(*                                                                         *)
(* The LiDARs and the network are external.  A LiDAR reached by a request  *)
(* answers to the broadcast address or to the host (#217); an answer may   *)
(* be lost, late or repeated.  LiDARs may share an address (the factory    *)
(* setting).  A datagram is the LiDAR that sent it and whether it parses   *)
(* as a successful discovery ACK.                                          *)
(***************************************************************************)
EXTENDS Naturals, Sequences, Functions

CONSTANTS
  Lidars,         \* records [serial, ip, type]
  MaxDatagrams    \* bound on the datagrams that reach the host

(* A serial number belongs to one LiDAR; an address may not. *)
ASSUME DiscoveryAssumption ==
  /\ \A l, m \in Lidars : l.serial = m.serial => l = m
  /\ MaxDatagrams \in Nat

Ips == {l.ip : l \in Lidars}
Sockets == {"sock", "broadcast_sock"}

VARIABLES
  options,     \* [targets, bind_address, device_type]
  at,          \* where discover() is
  socks,       \* the sockets the Poller watches
  unsent,      \* targets not yet sent to
  rx,          \* per socket: the kernel's buffer
  ready,       \* sockets poll() reported and not yet drained
  found, answered,
  expired,     \* the deadline has passed
  stop,        \* options.stop
  outcome,     \* what discover() returned
  arrived,     \* datagrams that reached a socket (bound)
  polled       \* what the sockets held at the last poll() (history)

discoveryVars == <<options, at, socks, unsent, rx, ready, found, answered, expired, stop, outcome,
                   arrived, polled>>

unicast == options.targets # {}

DiscoveryInit ==
  /\ options \in [targets : SUBSET Ips, bind_address : {"any", "host"},
                  device_type : {"any", "kMid360"}]
  /\ at = "open" /\ socks = {} /\ unsent = {}
  /\ rx = [s \in Sockets |-> <<>>] /\ ready = <<>>
  /\ found = <<>> /\ answered = {} /\ expired = FALSE /\ stop = FALSE
  /\ outcome = "none" /\ arrived = 0 /\ polled = {}

(* The sockets and the Poller are destroyed with the call. *)
DiscoverReturns(o) ==
  /\ at' = "returned" /\ outcome' = o
  /\ socks' = {} /\ ready' = <<>> /\ rx' = [s \in DOMAIN rx |-> <<>>]

-----------------------------------------------------------------------------
(* UdpSocket::open(), Poller::create() and Poller::add(); each may fail. *)
OpenSocket ==
  /\ at = "open"
  /\ \/ DiscoverReturns("kTransport") /\ UNCHANGED unsent
     \/ /\ at' = "listen" /\ socks' = {"sock"}
        /\ unsent' = IF unicast THEN options.targets ELSE {"255.255.255.255"}
        /\ UNCHANGED <<rx, ready, outcome>>
  /\ UNCHANGED <<options, found, answered, expired, stop, arrived, polled>>

(* The listener on the broadcast address: not needed without a bind address, and best effort. *)
OpenBroadcast ==
  /\ at = "listen"
  /\ at' = "send"
  /\ \/ socks' = socks
     \/ options.bind_address # "any" /\ socks' = socks \cup {"broadcast_sock"}
  /\ UNCHANGED <<options, unsent, rx, ready, found, answered, expired, stop, outcome, arrived,
                 polled>>

(* send_to() one target after the other; the clock of the deadline starts after the last. *)
SendRequest ==
  /\ at = "send"
  /\ \/ /\ unsent = {} /\ at' = "loop"
        /\ UNCHANGED <<unsent, socks, ready, rx, outcome>>
     \/ \E t \in unsent :
          \/ unsent' = unsent \ {t} /\ UNCHANGED <<at, socks, ready, rx, outcome>>
          \/ DiscoverReturns("kTransport") /\ UNCHANGED unsent
  /\ UNCHANGED <<options, found, answered, expired, stop, arrived, polled>>

(* Mutant: the deadline is set again at every turn of the loop. *)
CheckDeadlineRenewed ==
  /\ at = "loop"
  /\ \/ stop /\ DiscoverReturns("kCancelled") /\ UNCHANGED expired
     \/ ~stop /\ at' = "wait" /\ expired' = FALSE /\ UNCHANGED <<socks, ready, rx, outcome>>
  /\ UNCHANGED <<options, unsent, found, answered, stop, arrived, polled>>

(* The top of the loop: the stop token, then the deadline. *)
CheckDeadline ==
  /\ at = "loop"
  /\ \/ stop /\ DiscoverReturns("kCancelled")
     \/ ~stop /\ expired /\ DiscoverReturns("found")
     \/ ~stop /\ ~expired /\ at' = "wait" /\ UNCHANGED <<socks, ready, rx, outcome>>
  /\ UNCHANGED <<options, unsent, found, answered, expired, stop, arrived, polled>>

(* poll() reports a socket that is watched and holds a datagram. *)
Reported(s) == IF s \in socks /\ rx[s] # <<>> THEN <<s>> ELSE <<>>

(* Mutant: only the socket the request was sent from is reported. *)
ReadableMain == Reported("sock")

(* What poll() reports, in the order the sockets were added. *)
Readable == Reported("sock") \o Reported("broadcast_sock")

(* Poller::wait(): readable sockets, nothing (a slice or the deadline), or an error. *)
PollerWait ==
  /\ at = "wait"
  /\ \/ DiscoverReturns("kTransport") /\ UNCHANGED polled
     \/ /\ at' = IF Readable = <<>> THEN "loop" ELSE "drain"
        /\ ready' = Readable
        /\ polled' = UNION {Range(rx[s]) : s \in DOMAIN rx}
        /\ UNCHANGED <<socks, rx, outcome>>
  /\ UNCHANGED <<options, unsent, found, answered, expired, stop, arrived>>

wanted(d) == options.device_type \in {"any", d.lidar.type}

Dup(d) == \E i \in DOMAIN found : found[i].serial = d.lidar.serial

(* Mutant: the first answer will do for all targets. *)
AnsweredByAny(d) == options.targets

(* The targets a datagram answers. *)
AnsweredBy(d) == {t \in options.targets : t = d.lidar.ip}

(* recv_one() and what is made of the datagram; with nothing left, the next socket or, after the *)
(* last one, the check whether every target has answered.                                        *)
Drain ==
  /\ at = "drain"
  /\ \/ /\ ready = <<>>
        /\ IF unicast /\ answered = options.targets
             THEN DiscoverReturns("found")
             ELSE at' = "loop" /\ UNCHANGED <<socks, ready, rx, outcome>>
        /\ UNCHANGED <<found, answered>>
     \/ /\ ready # <<>> /\ rx[Head(ready)] = <<>>
        /\ ready' = Tail(ready)
        /\ UNCHANGED <<at, socks, rx, outcome, found, answered>>
     \/ /\ ready # <<>> /\ rx[Head(ready)] # <<>>
        /\ LET d == Head(rx[Head(ready)]) IN
           /\ rx' = [rx EXCEPT ![Head(ready)] = Tail(@)]
           /\ found' = IF d.ack /\ wanted(d) /\ ~Dup(d) THEN Append(found, d.lidar) ELSE found
           /\ answered' = answered \cup IF d.ack THEN AnsweredBy(d) ELSE {}
        /\ UNCHANGED <<at, socks, ready, outcome>>
  /\ UNCHANGED <<options, unsent, expired, stop, arrived, polled>>

-----------------------------------------------------------------------------
(* The LiDARs, the network and the clock (external). *)

(* A LiDAR that a request reached answers, to the host or to the broadcast address, with an ACK   *)
(* or with something else; it is heard when a socket is bound to that address.                    *)
Answer(l) ==
  /\ socks # {} /\ at # "listen" /\ arrived < MaxDatagrams
  /\ IF unicast THEN l.ip \in options.targets \ unsent ELSE unsent = {}
  /\ \E to \in {"host", "255.255.255.255"}, ack \in BOOLEAN :
       LET s == IF to = "host" \/ options.bind_address = "any" THEN "sock" ELSE "broadcast_sock"
       IN s \in socks /\ rx' = [rx EXCEPT ![s] = Append(@, [lidar |-> l, ack |-> ack])]
  /\ arrived' = arrived + 1
  /\ UNCHANGED <<options, at, socks, unsent, ready, found, answered, expired, stop, outcome,
                 polled>>

Expire ==
  /\ at \in {"loop", "wait", "drain"} /\ ~expired
  /\ expired' = TRUE
  /\ UNCHANGED <<options, at, socks, unsent, rx, ready, found, answered, stop, outcome, arrived,
                 polled>>

RequestStop ==
  /\ at # "returned" /\ ~stop
  /\ stop' = TRUE
  /\ UNCHANGED <<options, at, socks, unsent, rx, ready, found, answered, expired, outcome, arrived,
                 polled>>

Discover ==
  \/ OpenSocket \/ OpenBroadcast \/ SendRequest \/ CheckDeadline \/ PollerWait \/ Drain

DiscoveryNext == Discover \/ (\E l \in Lidars : Answer(l)) \/ Expire \/ RequestStop

DiscoverySpec == DiscoveryInit /\ [][DiscoveryNext]_discoveryVars

(* The thread runs and the deadline passes.  Nothing is assumed of the LiDARs; the datagrams are   *)
(* finitely many, since the drain of a socket has no bound of its own (session.cpp:241).           *)
DiscoveryFairness == WF_discoveryVars(Discover) /\ WF_discoveryVars(Expire)

-----------------------------------------------------------------------------
(* Every wanted LiDAR whose answer was in either socket when discover() last polled is returned,   *)
(* once, and no unwanted one: the sockets are drained, and the answers to the broadcast address    *)
(* and to the host are not taken for two LiDARs (session.cpp:237-256).                             *)
HeardIsFound ==
  outcome = "found" =>
    /\ \A d \in polled : d.ack /\ wanted(d) => d.lidar \in Range(found)
    /\ \A i, j \in DOMAIN found : found[i].serial = found[j].serial => i = j
    /\ \A l \in Range(found) : options.device_type \in {"any", l.type}

(* session.hpp: "With targets, returns as soon as all have answered": before the deadline only     *)
(* then, so that of every target a LiDAR is found, or one of another type answered.                *)
EarlyOnlyWhenAllAnswered ==
  outcome = "found" /\ ~expired =>
    /\ options.targets # {}
    /\ options.device_type = "any" => options.targets \subseteq {l.ip : l \in Range(found)}

(* What discover() returns is complete: all that was heard, and early only with all the targets.   *)
DiscoverComplete == HeardIsFound /\ EarlyOnlyWhenAllAnswered

(* discover() returns: at the deadline, on a stop or before. *)
DiscoverEnds == <>(at = "returned")
==============================================================================
