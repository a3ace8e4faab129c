# Formal model of livox-mid360-core

TLA+ specifications of the Livox Mid-360 SDK in `src/`, model-checked with TLC
and proved with TLAPS. The code is the reference: comments in the modules name
the functions and lines they stand for, and `PROJECT.json` maps every
definition to its lines, lists the parts of the system, the hazards, the runs
and the theorems.

## 1. The system and how its parts interact

An application creates one `Context` and opens one `Device` per LiDAR.

- The **Context** owns the sockets and the receive thread. The thread looks the
  source of a datagram up in its private snapshot of the registry and calls the
  Device; it also calls `tick()` of every Device.
- The **Device** feeds point packets to its **FrameAssembler** and calls the
  user's callbacks, which often push frames into a **BoundedQueue**. Pushes of
  the LiDAR's state are merged into a status and raise events. A missing push
  declares an outage.
- Commands run on the caller's thread, under `cmd_mutex`, through the Device's
  **Session**: request, retries, ACK. The firmware log has its own request over
  the Context's log socket.
- After an outage a **worker** connects a new Session, moves the registry entry
  to the LiDAR's new address and replays the recorded setup. After `reboot()`
  it first waits for the LiDAR to power down.
- The destructor stops the worker and removes the entry, which waits for the
  receive thread.
- **Discovery** finds LiDARs; the **codecs** turn keys, requests and ACKs into
  bytes and back; **LVX2** files are written, read and played.

## 2. Modules

| Module | Models | State and actions |
| --- | --- | --- |
| `Context` | `context.cpp`, `context_impl.hpp` | `entries`, `generation`, the thread's `snapshot`, `seen`, `pc`. One action per critical section (`Add`, `Bind`, `Rekey`, `Remove`, `RemoveWake`) and per step of `run()` (refresh check and copy, tick, poll, batch, dispatch, errors, exit). A callback is two steps, so that a removal can fall inside it. |
| `Connection` | outage, worker, attempt, tick, open and destructor of `device.cpp` | one `pc` per thread (owner, receive thread, worker, users), `cmd` and `conn` for the two mutexes, the flags, the event queue. One action per atomic access or critical section; the worker's predicate and its block are two steps, as a notification without the mutex can fall between them. |
| `Timing` | `tick()`, `reboot()`, `wait_for_power_down()`, backoff, poll timeout | ages and times left, in ticks; a thread that has something to do does it before time passes (`Pass`). |
| `Commands` | the commands, `absorb()`, the replay, `cancel()` | `host_setup`, `requested`, `cancel_`, `log_cancel` against the LiDAR's `keys`, `running`, `stored_ip`. A call is lock, request, answer, settle; an attempt runs through the stages of the replay. |
| `Receive` | handlers of the receive thread, callback slots, hand-off of requests | a handler is a program, the sequence of its stages; one step is one access to an atomic or one critical section. |
| `FrameAssembler` | `frame_assembler.cpp` | `push()` as three actions by outcome (`PushEmpty`, `PushLate`, `PushAccept`), `Flush`, `Discard`, `Rebase`, `SetPolicy`; `Observe` is the drop counter, `Map` the time mapper. |
| `BoundedQueue`, `NewestWins` | `BoundedQueue` of `frame.hpp` | the deque, the lock as atomicity, notifications as steps of their own, waiting and woken consumers; `NewestWins` is the promise without threads. |
| `Session` | `session.cpp`, requests | `request()`, `wait_for_state()`, `connect()`, `cancel()`, stop token, matching of ACKs, over a network that loses, delays and repeats. The check of the deadline, the wait and each datagram taken from the socket are steps of their own; `due` says whether the deadline of the attempt has passed. |
| `Discovery` | `discover()`, `UdpSocket::open()`, `Poller::wait()` | sockets, requests, drain, deadline, stop. |
| `FirmwareLog` | log control, `on_log()`, `LogWriter` | sequence numbers and retries of the request; chunks, gaps and their ACKs; the files on disk. |
| `Wire`, `Keys`, `Settings` | `protocol.cpp`, `firmware_log.cpp`, `debug_data.cpp`, `keys.cpp`, `lidar_info.cpp`, typed API of `device.cpp` | bytes: frames, lists of keys, layouts and ranges of every key; one command from the typed call to the decoded answer. |
| `Tools` | `tools/cli/info.cpp`, `examples/collect_firmware_log.cpp`, a user program | composes `Discovery`, `FirmwareLog` and `Settings`: a program discovers, opens and works. |
| `Recording` | `lvx2.cpp`, the packet callback of `record.cpp`, the loop of `replay.cpp` | a file as cells; the writer with its time line, failing writes, a kill; the reader; the passes of the player, whose assemblers discard late packages. |
| `MC*` | | values of the constants for TLC. |
| `*Proofs` | | theorems and proofs (section 5). |

How the modules fit together. `Connection`, `Commands`, `Timing` and `Receive`
model the same Device, each with the part of its state that its properties are
about; what one of them leaves out is nondeterministic there (an attempt of
`Connection` succeeds or fails; a request of `Commands` is processed or not;
`Session` has its retries). `remove()` in `Connection` returns as `Context`
establishes it. `Tools` extends three modules and interleaves their steps as
the programs call them; `BoundedQueue` implements `NewestWins` through
`INSTANCE NewestWins` (`NewestWinsSpec`).

LiDAR, network, clock and file system are external: they do anything that the
code in `src/` must be prepared for (loss, repetition, delay, power cycles,
clocks that step, writes that stop short), within named bounds.

Variables called `hist`, `truth`, `owed`, `sure`, `told`, `misled`, `shown`, `slots` and the like
are history: no guard of the code's actions reads them. Operators whose comment
begins with "Mutant" are altered versions of the definition below them; they
show that a property notices such an error and belong to no specification.

## 3. Runs

`tlc -config X.cfg M` with the module of `PROJECT.json`:

| Run | Module | Properties | Shows |
| --- | --- | --- | --- |
| `Context` | `MCContext` | `NoCallbackAfterRemove`, `DispatchSound`, `RemoveReturns`, `LoopLives` | a removed Device is never called again; a registered source has one receiver and is never unknown; `remove()` and the destructor return; the loop comes round however busy a socket is |
| `ConnectionSafety` | `MCConnection` | `OutagesExact`, `SessionExclusive`, `WorkerQuietAfterRemove`, `NoStaleFrame` | each outage is declared and told once; the Session has one user; the worker leaves a removed Device alone; no frame holds points from before an outage the callback was told of |
| `ConnectionLiveness` | `MCConnection` | `OutageEnds`, `EventsDelivered` | an outage ends when the LiDAR answers; queued events are delivered |
| `Frames` | `MCFrameAssembler` | `CountsExact`, `HeaderTrue`, `DiscardedIsOlder`, `NoDrift`, `WindowHolds` | counters against the numbers of the packets, headers, discarded packets and the time grid, for both policies, with loss, lateness, repetition, changes of format and clock steps |
| `Queue` | `MCBoundedQueue` | `NoLostWakeup`, `NewestWinsSpec`, `PopsReturn` | the queue implements `NewestWins`; no wake-up is lost; no `pop()` sleeps on an element or on `close()` |
| `Session` | `Session` | `AckFresh`, `CancelEndsOne`, `QuietAfterStop`, `CallReturns` | an ACK answers the request it is taken for; one `cancel()` ends one call; after a stop at most the datagram already checked is sent; every call returns, if the socket is found empty now and then |
| `Commands` | `MCCommands` | `PendingCancel`, `Restored` | no `cancel()` is lost when the Session is replaced; after a reconnect the LiDAR is set up as the host recorded |
| `Timing` | `Timing` | `TicksInTime`, `PowerDownWait`, `NoEarlyReconnect` | one poll timeout serves both deadlines; the wait for the power-down ends in time and on a change into ERROR; no early reconnect to a LiDAR about to power down |
| `Receive` | `MCReceive` | `RequestsReach`, `StatusTold`, `TimeBaseCurrent` | callbacks and policies reach the thread; the events add up to the status; no packet is mapped with the time base of an earlier instance |
| `Tools` | `MCTools` | `DiscoverComplete`, `CollectionKnown`, `GapsReported`, `ReadsTrue`, `CallTakesEffect`, `SettingsComplete`, `DiscoverEnds` | every LiDAR heard is found; the host knows whether a collection runs; gaps in a log are reported; what is read or set, byte by byte, is what the LiDAR holds |
| `Recording` | `MCRecording` | `ReadBack`, `AllPlayed`, `TimeLineSteady` | a file, complete or cut, none of whose writes failed, is read back as written; every pass plays everything but the late packages, which it counts; the time line follows the clocks |
| `WorkerJoined` | `MCConnection` | `WorkerJoined` | violation, see section 4 |

### Bounds, and why they are enough

- `Context`: three Devices, two of them with the same serial number, two
  addresses, one socket with batches of one, three changes of the registry: an
  add, a rekey and a removal fit beside a round of the loop. Longer histories,
  such as a third Device at an address that was left twice, are covered by the
  proofs, for safety only.
- `Connection`: one user beside the owner, the receive thread and the worker, so
  four threads race; one outage in the safety run (two pass as well, in six
  times the states), two in the liveness run, so that the worker goes back to
  sleep and must be woken again.
- `FrameAssembler`: widths are scaled (`UdpMod` 4 for 2^16, `FrameMod` 4 for 2^8,
  `MaxOffset` 9 for 2^32 - 1) and the stream starts below the wrap. Three packets,
  two in flight, give loss, repetition and one late packet; two formats, two
  time bases, a clock that steps back by up to two windows and one other call between
  the packets. The environment delivers no packet half a cycle of `udp_cnt` or
  more away from the newest (`WithinHalfCycle`): beyond that a 16-bit counter
  cannot tell late from lost.
- `BoundedQueue`: five pushes overflow a capacity of two; with three consumers a
  notified one can lose the race.
- `Session`: two requests of two attempts, an ACK late for either; `SeqMod` 3
  makes the number wrap and skip 0; one cancel, one stop, I/O errors. Stray
  datagrams come without end; a socket buffer of one is enough, as it can be
  filled again before the thread looks.
- `Commands`: two users with two calls between them, one key with two values, two
  addresses, an outage, a power cycle and a cancel: a command before and a command
  during an attempt.
- `Timing`: `PushTimeout` 4 with `MaxPoll` 2, a window longer than the push timeout
  and a LiDAR that runs on for less and for more than the wait: each deadline
  comes first in some behaviour. The LiDAR enters and leaves ERROR at any time, so
  that a reboot may find it in ERROR.
- `Receive`: two users and policies, three datagrams, all combinations of missing
  keys that matter, one restart of the LiDAR.
- `Tools`: two LiDARs that share the factory address and one of another type;
  three firmwares; calls of every kind and values at the ends of their ranges;
  one fault of the network per call.
- `Recording`: two devices, four packages, times with jumps in both directions and
  over the wrap (`TimeMod` 32, `Jump` 3), late packages, a kill at every cell, two passes.

Symmetry is used for interchangeable users (`Commands`, `Receive`), in runs
without liveness. `CHECK_DEADLOCK FALSE` is set where the objects are passive
and rest when the bounded number of calls is used up: `FrameAssembler`,
`Session`, `Commands`, `Receive`, `Tools`, `Recording`.

### Fairness

- `Context`: the receive thread runs, callbacks return (the documented threading
  rule), a poll tried again and again succeeds, a woken `remove()` runs.
- `Connection`: threads inside a call run, a mutex released again and again is
  acquired, `tick()` runs in every round of the loop (`Context` shows it does),
  and an attempt made again and again succeeds: only `OutageEnds` needs that.
- `BoundedQueue`: threads inside a call run. Time-outs are not assumed.
- `Session`: the calling thread runs, and the deadline of an attempt passes. An
  I/O error is never assumed to end a call. `CallReturns` itself names what it
  needs of the network (`DrainsEnd`): datagrams do not come for ever as fast as the
  thread takes them. The loops that empty the socket look at no deadline, and
  without the condition a call need not return (`EndlessDrain.cfg`).
- `Discovery`: the thread runs and the deadline passes. The datagrams are finitely
  many, as the drain of a socket has no bound of its own (session.cpp:241).

Beyond the two conditions on the drains, nothing is assumed of the network, and
nothing of user calls, of pushes or of spurious wake-ups. The other modules state safety only.

## 4. Disagreements between the code and its documents

**`WorkerJoined`** (the one run that expects a violation). `~Device()` moves the
worker out under `conn_mutex` and joins what it got (device.cpp:1310). The Device
is still registered, so the receive thread can declare the first outage after
that and start a worker nobody joins; `~Impl` then destroys a joinable
`std::thread`. docs/api.md:723 says the worker is "joined by the destructor".
With `SlowSetup = TRUE` the same happens when `open()` fails after an outage
during its host setup (docs/architecture.md:180).

Further configurations end in a counterexample of the same kind. `EventOrder.cfg`
and `FramesAsTold.cfg` check several properties: run them with `-continue`.

| Configuration | Module | What happens, and what it contradicts |
| --- | --- | --- |
| `DestructorReturns.cfg` | `MCConnection` | stop and notification without `conn_mutex` (device.cpp:1305) fall between the worker's predicate and its block; `join()` never returns (docs/api.md:729) |
| `EventOrder.cfg` | `MCConnection` | `EventsAlternate`: kReconnected is queued before the kDisconnected it ends (device.cpp:875, device.hpp:464); `ReconnectedMeansConnected`: the event is delivered while `connected()` is still false (event.hpp:98); `AttemptsCounted`: the attempt counter is reset after the flag, beside a running attempt (event.hpp:106) |
| `SamplingFrozen.cfg` | `MCCommands` | `stop_sampling()` clears `sampling_requested` outside `cmd_mutex`: it overwrites a `start_sampling()` that came between (device.cpp:1212) |
| `StopDelivers.cfg` | `MCReceive` | a frame from before `stop_sampling()` is delivered after it returned (docs/api.md:227) |
| `EarlyReconnect.cfg` | `Timing` | when the push timeout declares the outage before the ACK of `reboot()`, the worker has passed the wait for the power-down and reconnects to the LiDAR that is about to go (device.cpp:1061) |
| `FramesAsTold.cfg` | `MCFrameAssembler` | `LateNeverSplits`: a late packet with `udp_cnt` 0 looks like the reset at a frame boundary (docs/api.md:234-236), although here `udp_cnt` never restarts; `DropsCountedEver`: such a packet, late or after a loss, is counted as neither (docs/api.md:229-232, event.hpp:32-33); `PointsMonotonic`: `discard()` lowers a counter documented as monotonic (event.hpp:24) |
| `LostFrameStart.cfg` | `MCFrameAssembler` | where `udp_cnt` restarts with the frame, losing packet 0 discards packets of the new frame (frame_assembler.cpp:174) |
| `SeqRestart.cfg` | `Session` | every Session starts at sequence number 1 on the same port: a delayed ACK of the previous one is accepted (docs/protocol_notes.md:67) |
| `EndlessDrain.cfg` | `Session` | datagrams that answer nothing, taken from the socket one by one, keep `request()` from looking at its deadline (session.cpp:445-465): the timeout of an attempt does not bound it |
| `AttemptsReported.cfg` | `Session` | `SessionError::attempts` is not the number of datagrams sent after a failed send or a rejection (session.hpp:62) |
| `LogSeqRestart.cfg` | `FirmwareLog` | the same restart on the log port: a late ACK answers a later log command |
| `LogEndResent.cfg` | `FirmwareLog` | a "file end" that is sent again is written again: the track has been closed, no gap or repetition is seen |
| `LogFilesWrap.cfg` | `FirmwareLog` | the 8-bit file index names a second file, which replaces the first on disk (docs/api.md:809) |
| `WriteRetried.cfg` | `MCRecording` | after a failed write `close()` writes the frame once more behind the part that was written (lvx2.cpp:192) |

Noticed while modelling, without a configuration: two users in
`set_lidar_ip_config()` can leave `configured_ip` different from the address the
LiDAR stored; a lost first chunk of a log file is not reported as a gap;
`cancel()` notifies `log_cv` without `log_mutex` (device.cpp:1781), so that the
waiting call may see it only at its timeout; a second `Lvx2Player::run()`
without `open()` plays nothing; the early return 2 of record.cpp:182 destroys the
locals its packet callback captures before the Device.

## 5. Proofs

TLC checks small instances; the theorems hold for every value of the constants
that satisfies the module's named assumption (`ContextAssumption`,
`ConnectionAssumption`, ...: numbers are naturals, special values differ from
ordinary ones, sets of threads are finite where they are counted). Bounds such as
`MaxCalls` are arbitrary naturals. Every safety property of the runs is proved,
except the three of `Settings`.

Each proof has the same shape: an invariant that the initial states satisfy and
every action preserves, one step per action, and the property from it. What
the property needs to become inductive is the interesting part:

**`ContextProofs`** (`IInv`). `remove()` waits for a number. That the number
implies the absence of the receiver from a private copy is `SnapshotCurrent` (a
snapshot with the current generation equals the entries) with `RemovalObserved`
(a removal not yet observed is newer than the snapshot); `LoopLocals` and
`DatagramsSeen` tie the loop's locals to the snapshot. From it
`NoCallbackAfterRemove` and `DispatchSound`.

**`ConnectionProofs`.** `LockInv`: every thread is in its own code, and who is in an
attempt or a request holds `cmd_mutex`. `LifeInv` follows the life of the
object: nobody declares an outage before `open()` has returned, users are out of
their calls when `~Device()` runs, and a worker started after it was looked for
is started with the stop requested. From both
`SessionExclusive` and `WorkerQuietAfterRemove`, when the host setup of `open()`
is shorter than the push timeout (`~SlowSetup`; TLC refutes both otherwise). `StaleInv`: an outage that may be
told already has a discard pending, or no older point in the partial frame; hence
`NoStaleFrame`. `DownInv` and `ToldInv`: an attempt runs only while disconnected, and
the numbers of outages in the four places (being declared, queued, swapped out,
shown) are disjoint and together `1..Declared`; counting them gives `OutagesExact`.

**`CommandsProofs`.** `PendingCancel` is inductive with the types and the lock.
`Restored` is not: it speaks of the moment an attempt has succeeded.
`RestoreInv` says what every stage of the replay has left behind: keys are restored
from the stage after theirs on, each stream likewise, and `AppliedInv` that a
request processed by the LiDAR took effect there.

**`ReceiveProofs`.** `CallbackInv`: equal generations mean equal slots. `PolicyInv`: a
policy not yet taken is announced or about to be. `StatusInv`: the events told are
the changes of the merged status. `BaseInv`: a stale time base implies that a rebase
is requested, or that the Device is not connected.

**`TimingProofs`**, three modules about waiting for a LiDAR. `Timing`:
`DeadlineInv` (what is left of the poll ends before either deadline is missed),
`WaitInv` (`PowerDownWait`: a change into ERROR after the request was armed is remembered until the
worker has waited), and `RebootInv` for `NoEarlyReconnect`, which excepts a LiDAR that
went into ERROR without powering down (`misled`), where a request takes less
time than a start of the LiDAR (`RequestTime < BootTime`: by default three attempts
of 500 ms, session.hpp:144, against a start measured at 8.9 s, docs/simulator.md:301). `FirmwareLog`:
`CommandInv` (a success ACK with the number of the running call means that the LiDAR
does what the call asked) when no ACK of an earlier Device carries a number
this one uses, and `ChunkInv` (the track is at the last
chunk on disk) when a "file end" is not resent and the file index does not wrap:
`LogSeqRestart.cfg`, `LogEndResent.cfg` and `LogFilesWrap.cfg` show that these
conditions are needed. `Discovery`: `FoundInv` (what was polled is found or still
in a socket to be drained). The theorems are about `LogSpec` and `DiscoverySpec`,
of which the run `Tools` is the composition.

**`FrameAssemblerProofs`.** `truth` follows the packets by the unbounded numbers the LiDAR
gave them, without the rules of the code. `DropsInv` ties the `udp_cnt` the counter
holds to the newest of them, so that differences modulo `UdpMod` are differences
(`CountsExact`, where `udp_cnt` does not restart with the frame, until a packet is
misread as such a restart). `FrameTrue` holds of the
partial frame and of the one returned (`HeaderTrue`). `GridInv` keeps the window start on the
grid (`NoDrift`, `WindowHolds`). `OrderInv` orders the frame numbers of packets in
flight (`DiscardedIsOlder`, when a packet is delayed by at most `FrameMod` packets and `udp_cnt` does
not restart; `LostFrameStart.cfg` shows the latter is needed).

**`WaitProofs`**, the two objects a thread waits on. `Session`: types,
`QuietAfterStop` and `CancelEndsOne` for any number of Sessions; `AckFresh` within
one Session with fewer requests than sequence numbers (`OneSession`), by
`FreshInv`: a request and whatever answers it carry a number no other request of
the Session has, and the answers hold states seen while it was in progress. `BoundedQueue`:
`NewestKept` determines the contents from the counts, which makes the fates
disjoint (`OneFate`); the woken consumers cover the queue (`NoLostWakeup`);
`QueueImplementsNewestWins` maps every step to a step of `NewestWins` or a stutter.

**`RecordingProofs`.** `ClockInv` bounds each device's time by the latest one
(`TimeLineSteady`, for recordings in which steps within a jump cannot add up to
half the range of the clock, `ShortRecording`: with 64 bits of nanoseconds and a jump
of one second, about 9 * 10^9 packages). `FileInv` is the layout of the file:
a chain of frames, each header naming its successor, the packages numbered
without a gap, cut anywhere. `ReaderInv` says that the reader has read exactly the
packages before its place (`ReadBack`). `DeviceInv` (what a device of the player counted is in frames, in its partial frame
or was discarded) and `CountInv` (the packages and the late ones of the passes so far)
give `AllPlayed`.

### Only model-checked

- Liveness (`RemoveReturns`, `LoopLives`, `OutageEnds`, `EventsDelivered`,
  `PopsReturn`, `CallReturns`, `DiscoverEnds`): fairness is out of the prover's
  reach.
- `ReadsTrue`, `CallTakesEffect`, `SettingsComplete`: they follow bytes through
  recursive encoders and parsers; what a recursive definition computes needs an
  induction over data that the installed provers cannot do.

## 6. Not modelled

Logging, the extrinsic transform and the tags (floating point and bit fields), the
viewer, the simulator, reading of JSON configuration files, IMU samples as floats,
the polynomials of the checksums (constant operators of which only functionality
is used), pacing sleeps of the player, `SessionStats`, the wording of events and errors, system calls
below the socket interface. Actions are sequentially consistent: the weakening of
relaxed atomics is not modelled.
