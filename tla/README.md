# A TLA+ model of the SmartMet Sputnik engine

Sputnik is the engine by which a SmartMet *frontend* finds its *backends* and
decides which of them answers an HTTP request.  The frontend sends a numbered UDP
heartbeat to every configured backend; a backend that is willing to work answers
with the services it offers; the frontend files the answers in a routing table,
from which the frontend plugin's HTTP threads pick a backend for each request.
This directory holds a model of that system in TLA+, the TLC runs that check it
on small instances, and TLAPS proofs.  File names below are relative to
`src/sputnik/`.

## 1. Inventory

| Part | State | Operations | What makes it correct |
|---|---|---|---|
| **Frontend discovery loop** (`Engine.cpp`, `Messages.cpp`): one `sputnik-io` thread running asio handlers | `itsFrontendSequence`, `itsReceivedResponses`, `itsSkippedCycles`, a deadline timer, the pending receives, one `itsReceiveBuffer` | `startServiceDiscovery`, `handleFrontendRead`/`processReply`, `handleDeadlineTimer` (cleans up, *sleeps inside the handler*, starts the next heartbeat), `shutdown` | the table holds one heartbeat's answers, not older than `max_skipped_cycles`; dead backends leave; living ones come back; the frontend never goes deaf; what it parses is the reply it received; shutdown ends the thread |
| **Backend responder** (`Engine.cpp`, `Messages.cpp`) | the receive, load, the pause | `handleBackendRead`, `sendDiscoveryReply`, `startListening` | answers echo the heartbeat number; silent when paused, overloaded or shutting down; a failed receive or send does not end it |
| **Pause** (`Engine.cpp`) | `itsPaused`, `itsPauseDeadLine`, a readers-writer lock | `setPause`, `setPauseUntil`, `setContinue`, `isPaused` | a pause ends at its deadline and an expired one does not undo a newer one |
| **Network** | datagrams in flight | lose, duplicate, reorder, delay | (environment) |
| **Services** (`Services.cpp`) | per URI a list of services and a forwarder; admin requests; sentinels; prefix map; `itsMutex`, `itsSentinelMutex` | `addService`, `addBackendInfoRequest`, `latestSequence`, `removeBackend`, `getService`, `setBackendAlive`, `signalBackendConnection` | list and forwarder describe the same backends in the same order; changes are atomic to readers |
| **BackendForwarder** | `itsBackendInfos`: hosts in list order; `itsDistribution` | `addBackend`, `removeBackend`, `getBackend`, `redistribute`, `rebalance` | the slot it returns indexes the service list |
| **Balancing strategies** (`*Forwarder.cpp`) | weights | `redistribute`, `rebalance`, `getBackend` | only slots that exist, by weights that are not out of date |
| **StickyForwarder** | hosts, connection counts | `extractKey`, `getBackend` by rendezvous hashing | frontends agree on a key's backend, and a change of one backend moves only its own keys |
| **URIPrefixMap** | ids per prefix | `addPrefix`, `removeBackend`, translation | a prefix is registered exactly while somebody serves it |
| **BackendSentinel** | unanswered connections | `signalSentConnection`, `setAlive`, `getAlive` | a backend in use has one |
| **Configuration, status reports** | none of their own | read the configuration, format the table | not modelled |

**Interactions.**  The io thread calls `Services` to add the services of each
reply, *one `addService` per URI*, and to clean up at the deadline.  The HTTP
threads of the frontend plugin call `getService`, then outside any lock talk to
the backend they got, and report what happened: `signalBackendConnection`,
`setBackendAlive` (through the backend-connection hook) or `removeBackend`.
All of them share the table under `itsMutex`.  `removeBackend` kills the process
when it leaves the table empty, and an exception that leaves a handler of the io
thread ends it too; a supervisor starts it again.  A forwarder asks
`Spine::Reactor` how many connections each backend has; `Reactor` counts them while
requests come and go.

**What is hard.**  Replies arrive late, twice or in the wrong order and are added
whatever heartbeat they answer; the deadline races slow replies, and completed
receives outlive `cancel()`; heartbeat numbers wrap at 65535 and are compared for
equality; two containers are kept in step by different erase rules; loops erase from
what they iterate over; lookups, cleanup and retirement interleave between the
`addService` calls of one reply; weights are computed at one time and used at
another; a pause is checked, upgraded and cleared while other threads set it; the
process restarts itself.  The full list, line by line, is `hazards` in
`PROJECT.json`.

## 2. Modules

| Module | Models |
|---|---|
| `Heartbeat` | the protocol: one frontend, its backends and the network between them. The table is abstracted to pairs (backend, heartbeat answered), the receive to one that never fails |
| `FrontendIo` | the frontend's asynchronous receives: socket, completion queue, shared buffer, deadline timer and `cancel()` |
| `Responder` | a backend: `handleBackendRead` step by step, and the pause that other threads set and clear meanwhile |
| `Services` | the routing table in detail: lists, forwarders' lists, prefixes, admin requests, sentinels, `itsMutex`, the io thread and the HTTP threads |
| `Registry` | the abstract table: a set of routes that changes in indivisible steps. `Services` implements it (`TableSpec`) |
| `Forwarders` | the seven strategies: the backend list, which positions have weight, and the choice |
| `Chooser` | the abstract forwarder: a list of backends of which it picks a position. `Forwarders` implements it (`ListSpec`), and `Services` uses no more (`GetSlot`) |
| `HeartbeatProofs`, `FrontendIoProofs`, `ResponderProofs`, `ForwardersProofs` | theorems about the module they are named for |
| `ServicesProofs` | theorems about the contents of the routing table of `Services`, and that it implements `Registry` |
| `ServicesOrderProofs` | theorems about what the table holds at which time: activity, admin requests, and the alignment of list and forwarder |
| `ListLemmas` | facts about erasing from a list and counting in it, and about least elements, which the proofs have in common |
| `MCHeartbeat`, `MCFrontendIo`, `MCServices`, `MCForwarders` | small instances for TLC. `Responder` needs none |

A definition `X_Y` is definition `X` with the mistake `Y` in it (a dropped guard, a
forgotten reset, the wrong occurrence erased).  No specification uses it; each
shows that a property would notice the mistake.

### Heartbeat and the code

* `StartServiceDiscovery`, `FrontendRead`/`ProcessReply`, `DeadlineAnswered`,
  `DeadlineSkipped`, `DeadlineExceeded`, `WakeUp` are the handlers of
  `Engine.cpp`.  `handleDeadlineTimer` is cut in two at its sleep, because the
  HTTP threads, the backends and the network go on during the sleep while the io
  thread reads nothing: datagrams wait and are read in the next heartbeat.
* Heartbeat numbers run modulo `SeqModulus` (65535 in the code).
* `responses` saturates at `MaxResponses`; the code only compares the counter
  with 0, so nothing is lost.
* `net` is a set that reads do not empty: a datagram may be delivered any number of
  times, in any order, or never.  It leaves `net` when it is more than `MaxDelay`
  heartbeats old.
* `RemoveLastBackend` is the SIGKILL in `removeBackend` and the restart that
  follows.  With a fixed `frontendUdpPort` everything that is in flight, whatever
  heartbeats of the killed process it answers, reaches the new process.
* `ChangeStatus` lets each backend become silent, serve, or answer with no service
  at any moment; `Responder` has the reasons.
* A shutdown request may come at any time, and `Engine::shutdown` at any time after
  it, the sleep included.  `io_context::stop()` is remembered (`ioStopped`): no handler
  starts after it (`Handling`), and `run()` returns between two handlers (`RunStops`).  A
  handler that wakes up in a server that is shutting down starts nothing new; `run()`
  may then return without being stopped (`RunDrained`), unless a receive that outlived
  `cancel()` keeps it waiting, so that nothing is assumed to happen there (`drained`).
* A datagram (`Message`) is what `BroadcastMessage.proto` defines, without the names and
  dates that the protocol does not use.

### FrontendIo and the code

All receives share `itsSocket`, `itsReceiveBuffer` and the io thread, so the module
takes its atomicity from the rules of boost::asio on one thread, which are stated at
its head and mapped as external: a receive that is started when no other waits takes
a waiting datagram at once (`AsyncReceiveFrom`); when the socket becomes readable all
waiting receives are served before any handler runs, the first handler runs at once
and the others queue up (`SocketReadable`, `FrontendRead`); the handler of the expired
timer queues behind the completions that are due (`TimerExpires`, `ahead`); `cancel()`
aborts only what still waits (`DeadlineTimer`).  A datagram is a header (backend and
heartbeat) and that backend's services.  `Fill` keeps, place by place, what the last
long enough reply left in the buffer; `Parsed` is what an ignored parse error leaves of
it: all the services that `bytes_transferred` covers, or only those of the last reply.
`carried` is a history variable: how many completed receives outlived the last
`cancel()`.  `processReply` throws, before it files anything, if the throttle limit in
the reply is negative (`Messages.cpp:192`); `handleFrontendRead` throws on, nobody
catches it on the io thread, and the process ends and starts anew
(`ProcessReplyThrows`).

### Responder and the code

Each `return` and each question of `handleBackendRead` is a step, as other threads
change the pause and the load between any two of them.  `isPaused` holds its lock
upgradably: `CanWrite` is false from the moment the expiry was seen until `Resume` has
cleared the pause.  `late` is a history variable: the replies sent since the pause
began, up to 2.  `send_to` failing is caught (`SendFails`); any other exception, such
as that of a configured throttle limit which does not fit the message
(`Messages.cpp:84`), leaves the handler and ends the process, which starts again as it
is configured, paused or not (`ReplyThrows`).

### Services and the code

* Every critical section of `itsMutex` that is short is one action.
  `latestSequence` and `removeBackend` take the lock (`LatestSequence`,
  `RemoveBackend`), run their loops (`Erase`) and finish (`FinishLatestSequence`,
  `FinishRemove`, or `Restart`).  `getService` takes the
  read lock, obtains a slot (`GetSlot`) and indexes the list (`GetService`).
* The loops erase from the lists they iterate over.  `it[u]` is the iterator in the list
  of URI `u`: a round erases the entry it is at and leaves it where it is, at the entry
  that has moved up, or moves it on (`EraseList`, `Advance`).  The code goes through the
  URIs one after the other, holding the lock; as the rounds of one URI do not touch
  what the others are about, `Erase` is one round for each URI that is not at its end.
* `lists[u]` and `fwd[u]` are kept separately, as in the code.  `EraseList` takes the
  entry with the stale number (or of the failed backend) out of the list;
  `ForwarderRemoveBackend` takes the *first* entry of that host out of the forwarder.
* A URI is a record: the public URI of a service, or the `/host/service` URI that
  `processReply` makes up.  "Starts with" is the constant relation `Under` on all of
  them; in the instances a public prefix `/` begins every other URI, those that
  `processReply` makes up included.
* A prefix id is the pair (backend, heartbeat number), exactly what
  `backend_service_id` concatenates.  The map is ordered, and prefixes of one URI are
  prefixes of each other, so the first match is the shortest (`Translate`).
  `UnderAssumption` states just that of `Under`.
* The heartbeat is reduced to what the table sees: replies to the current or the
  previous heartbeat (`expected`), in any order or, with `InOrder`, per backend in
  order.  After `Restart` no reply to the old process arrives here (`Heartbeat` has
  that case).
* `info` is the set of entries in `itsBackendInfoRequests`, whose order and duplicates
  nothing depends on: `latestSequence` erases by heartbeat number, readers collect the
  backends.
* `sentinel[b]` counts the connections since the last sign of life.
  `itsSentinelMutex` protects single steps only; inside `addService` it is taken under
  `itsMutex`.
* `retired` is a history variable: who failed a request since it last answered in time.

### Forwarders and the code

A forwarder's own mutex makes each of its operations one step.  `dist` is the set of
positions with a positive weight in `itsDistribution`; of the floating point weights
that is all a choice depends on.  `Vanishing` is the number of connections from which
`exp(-a * count)` is 0 in single precision; if all weights vanish the code divides 0
by 0, and boost makes equal weights of NaNs.  Of no weights at all boost makes a
distribution with the first position only (`FirstOnly`).  `inverseload` redistributes when the list
changes and never per request, so its weights may be as old as the last change.  The
FNV hash is the constant `Score`, any map of keys and backends to numbers; the `float`
balance factor is the fraction `num/den`, converted to `int` after the multiplication as
in the code.  A product that no `int` holds is undefined behaviour; `OutOfRange` is what
the build makes of it (the least `int` on x86-64), and `Fits` says that it is not the case.
A key is the text that `extractKey` puts together, as a sequence of pieces: `"u:"`,
address, `"|"`, agent.  An address that `X-Forwarded-For` claims may hold the separator,
so two clients may have one key; the instance has such a pair.

## 3. Runs

Deadlock checking is on in every run but `frontend_io`, where a server that has shut
down takes no step.  Distinct states in brackets.

| Run | Result | What it shows |
|---|---|---|
| `heartbeat_live` | pass (984 000) | after each cleanup all entries answer one heartbeat, exactly `itsSkippedCycles` old (`OneHeartbeat`), with loss, duplicates, delay, wrap, failing requests and restarts; under the io thread's fairness, a backend that stops answering leaves the table (`DeadBackendLeaves`) and a shutdown at any point, the sleep included, ends the io thread (`ShutdownCompletes`) |
| `heartbeat_reliable` | pass (78 000) | `OneHeartbeat` also holds with restarts at a fixed port, where the datagrams of the killed process reach the new one; an unanswered deadline keeps the table or empties it, never thins it (`AllOrNothing`); on a network that again and again lets an answer through in time, a serving backend is routed to again and again (`ServingBackendRouted`) |
| `frontend_io` | pass (190 000) | the frontend never goes deaf: it always has one receive more than outlived the last `cancel()` (`OneMoreThanCarried`) and a full socket is drained (`FullSocketDrains`); as long as none outlived it, each handler finds its own reply in the shared buffer (`ReadsOwnReply`) |
| `responder` | pass (1 488) | the expiry of one pause never clears a newer one (`ExpiredStands`, `PauseHolds`), at most one reply leaves a paused backend (`AtMostOneLateReply`), a pause with a deadline ends (`AutoResume`), and a backend that is neither paused nor loaded answers for ever, in spite of receive and send errors (`AnswersAgain`) |
| `services_late` | pass (697 000) | with replies in any order: list and forwarder hold the same backends equally often (`SameBackends`), the slot of a lookup exists when it is used (`SlotInRange`), a backend in use has a sentinel (`SentinelKnown`), a backend is active in the cycle in which it answers (`ActiveAtOnce`; the comment at `BackendForwarder.cpp:79` fears that it takes two), the loops that erase while they iterate have missed nothing when they give the lock back (`NothingMissed`), and the whole implements `Registry` (`TableSpec`) |
| `services_in_order` | pass (2.8 million) | with each backend's replies in order, `getService` returns the backend its forwarder chose (`ChosenIsReturned`); admin requests and routes name the same backends, except those that failed a request (`InfoMatchesRoutes`) |
| `forwarders` | pass (103 000) | for all strategies: there is a position to draw, and it exists (`DistInRange`), whatever connections did since the weights were computed; `leastconnections` has the fewest *at the request* (`FewestConnections`); unless its threshold overflows, sticky picks a backend that is no hotspot, and none of those scores higher, whatever the order and the duplicates of the list (`StickyIsRendezvous`); a change of the list moves no key but those of the backend that changed (`OnlyChangedRemaps`), a change of connections none but those of a backend that becomes a hotspot, or to one that ceases to be one (`OnlyHotspotsSpill`); every strategy implements `Chooser` (`ListSpec`) |
| `heartbeat_current` | violation | `ResponsesAreCurrent`, finding 1 |
| `services_reordered` | violation | `ChosenIsReturned` when two replies of one backend are reordered, finding 2 |
| `services_prefix_removed` | violation | `PrefixRegistered` when `removeBackend` is given a URI, finding 3 |
| `services_prefix_stale` | violation | `EmptyOnlyIfUnserved`, finding 4 |
| `frontend_io_filed` | violation | `FiledAsAnnounced`, finding 5 |

**Bounds.**  Two backends are enough for one to answer and another not to, and for
list and forwarder to disagree; `forwarders` has three, so that a change of one leaves
two to choose from.  `SeqModulus` is 3 or 4, greater than `MaxSkippedCycles + 1` as in
the code, and every run wraps many times; the proofs cover all moduli.
`MaxSkippedCycles` 0 to 2 covers no, one and several skipped cycles.  `MaxDelay = 1`: an
answer may be late by a whole heartbeat (the proofs do not depend on it); in
`heartbeat_reliable` it is 0, and what is late there are the datagrams that outlive a
restart.
`MaxEntries = 3` is what a list needs for two backends and a stale duplicate, and
`MaxInfos = 3` likewise.  `MaxConns = 3` exceeds both `Vanishing = 2` and the hotspot
threshold of an idle cluster.  `MaxInt = 7`, with a balance factor of 4, lets the
threshold overflow when every backend has two connections; the factors 3/2 and 1/2 of
`forwarders` stay in range.  One HTTP thread: threads only meet at `itsMutex`, and
the io thread is the other party.  `MaxUnanswered = 0` leaves out
`signalBackendConnection` in `services_late`; it is 1 in `services_in_order`.
`MaxWaiting = 2` datagrams, in the socket or completed, are the least for one
completion to outlive `cancel()` and another reply to overwrite it.  `Capacity = 2`
truncates the longer reply of `frontend_io`; 3 holds it in `frontend_io_filed`, so
that truncation has no part in the finding.  `MaxClock = 3` lets a pause expire and a
later one be set and expire too.

`FixedPort` is TRUE in `heartbeat_reliable` and FALSE in `heartbeat_live`: the model's
network may deliver a datagram without
end and restarts reuse heartbeat number 1, so with a fixed port and a process that kills
itself for ever a dead backend's answer to heartbeat 1 could be delivered for ever.

**Symmetry** is used only in `services_in_order`, a safety run whose constants treat the
backends alike.

**Fairness.**  In `Heartbeat` (`FrontendFairness`): an armed timer fires, a sleep ends,
a server that shuts down calls `Engine::shutdown`, and `run()` returns once it has been
stopped; asio, the operating system and the reactor give that.  That `run()` returns for
want of work (`RunDrained`) is not assumed.
`NetworkFairness` (strong, used by `heartbeat_reliable` only): an answer that is
possible in time in infinitely many heartbeats gets through infinitely often; without
it a serving backend may be unlucky for ever, so it is stated as an assumption about
the network and not about the code.  In `FrontendIo` the io thread runs what is due and
the timer expires.  In `Responder` time passes, a thread that is in a handler or has its
lock upgraded continues, and requests keep being received (heartbeats are sent for ever,
so an *error* at every receive is excluded, any number of errors is not); the steps
that need `itsPauseMutex` are strongly fair, as a thread that waits for a boost lock
gets it in the end.  `Services` states no fairness.  Backends,
HTTP threads and the decision to pause or to shut down are never fair.

## 4. Findings

1. `itsReceivedResponses` ("responses from the last heartbeat", `Engine.h:78`) also
   counts late replies to earlier heartbeats.  One late reply and no current one makes
   the deadline empty the table although `max_skipped_cycles` is not exceeded.
2. `BackendForwarder::removeBackend` erases the first entry of a host.  If replies of
   one backend were reordered the first is not the stale one, and the forwarder's
   slots no longer match the service list: the backend returned is not the one chosen.
   The contents stay equal (`SameBackends`), so no index ever leaves the list.
3. `Services::removeBackend` drops the prefix ids of every entry it visits, not only of
   the backend it removes.
4. `latestSequence` never cleans the prefix map: the prefix of a dead backend hides
   longer URIs that others still serve, and ids accumulate.
5. A reply that completes a receive while the deadline's handler is due is handled after
   the sleep, by when the new heartbeat's receive may have put another, shorter reply
   into the same buffer.  The new header is then parsed with the old reply's services,
   and the backend is filed under services it does not announce (until the deadline).

Seen while modelling, and too plain to need a run:

* `FEATURES.md:41` says that backends missing `max_skipped_cycles` consecutive replies
  are pruned.  The code prunes after *one* missed reply as soon as any other backend
  answered; the setting counts the heartbeats that nobody answered.
* A backend that is always late by one heartbeat is pruned at every deadline that finds
  another backend's answer: its reply is filed under the previous number.
* A negative throttle limit in a reply ends the frontend's process, and a configured one
  that does not fit the message that of the backend, at the first heartbeat: nothing
  catches the exceptions of `numeric_cast` on the io thread.  A pause that was set at run
  time ends with the process.
* `FEATURES.md:97` says a backend is unresponsive when the throttle limit is reached;
  `BackendSentinel.cpp:35` compares with `<=`, so one connection more.
* `getBackendList` (`Services.cpp:456`) translates a service without its leading slash,
  while prefixes are registered with it; and its comment "or all service" is not true
  of an empty name, for which it lists nothing.
* `StickyForwarder.cpp:127` says that the set of eligible backends is provably not empty.
  With a `balance_factor` so large that `factor * min_count` is no `int`, which the
  configuration allows (`Engine.cpp:45`), the conversion is undefined; as x86-64 compiles
  it the threshold is negative, every backend is a hotspot, and every key goes to the
  first backend of the list.  `StickyIsRendezvous` therefore assumes that it fits; the
  other properties of `forwarders` hold with the overflow too.
* `StickyForwarder.h:24` says that adding or removing one backend only remaps the keys
  pinned to it.  A backend that joins idle, or the idlest one leaving, changes the least
  number of connections and with it who is a hotspot, so that keys of other backends
  move too.  `OnlyChangedRemaps` therefore assumes the same least number.

## 5. Proofs

For every value of the constants that satisfies the modules' assumptions:

**HeartbeatProofs**: `TypeCorrect`, `OneHeartbeatAlways`, `AllOrNothingAlways`.
`TypeOK /\ OneHeartbeat` is inductive.  `OneHeartbeat` says nothing about the table
between the first reply of a heartbeat and the deadline, so any reply may be added,
which makes the proof independent of `net`.  At the deadline `latestSequence` keeps
what is at distance 0 and `skipped` becomes 0; without replies `skipped` and the table
stay in step; the start of the next heartbeat adds 1 to every distance
(`DistanceNext`).  That step is where the modulus matters: the distance must not come
back to 0 by wrapping, which `skipped <= MaxSkippedCycles < SeqModulus - 1` excludes.
`AllOrNothing` follows: an unanswered deadline that cleans up finds all entries at
distance `MaxSkippedCycles + 1`, which is not 0, so nothing is kept (`PrunedAge`).  The
assumption `MaxSkippedCycles + 1 < SeqModulus` is not checked by the code, which takes
any `max_skipped_cycles` from the configuration.

**FrontendIoProofs**: `OneMoreThanCarriedAlways`, `ReadsOwnReplyAlways` and `TypeCorrect`, for any number
of waiting datagrams and any sizes.  `ReceiveInv` conjoins the two with the types they
need.  Each handler ends one receive and starts one, so the sum of waiting and completed
receives changes only at `cancel()`, when `carried` is set to the completed ones, and at
the next heartbeat.  With `carried = 0` the sum is 1: when a receive completes there is
no other whose reply could be overwritten, and the buffer is that reply's (`FillOne`).
That is why the second theorem needs the first.  The core of `TypeCorrect` (`MemberInv`)
is that only services are filed: the parser may find remains of other replies in the
shared buffer, but in every place that a completed receive covers some reply has put a
service (`Holds`, which `FillHolds` shows to survive every later reply).

**ResponderProofs**: `TypeCorrect`, `ExpiredStandsAlways`, `AtMostOneLateReplyAlways`,
`PauseHoldsAlways`.  `PauseInv` adds to the properties that the io thread upgrades only
inside its own `isPaused` (`UpgradeInHandler`), and that a pause which begins while the
handler is past its check has had no reply yet (`FreshPause`); without the latter a
second reply could not be ruled out by the invariant alone.  `PauseHolds` follows from
`ExpiredStands`: the only steps that clear a pause are `setContinue` and a `Resume`
that is right about the expiry.

**ForwardersProofs**: `TypeCorrect`, `DistInRangeAlways`, `FewestConnectionsAlways`,
`StickyIsRendezvousAlways`, `OnlyHotspotsSpillAlways`, `OnlyChangedRemapsAlways`,
`FrontendsAgree`, `ForwardersImplementChooser`, for lists of any length.  The inductive invariant is `WeightInv`, which is `DistInRange` with the types;
that a list has a least loaded backend comes from the well-foundedness of the natural
numbers (`LeastNumber`), and that it is eligible, as long as the threshold fits an `int`,
from the factor being at least 1, so that rounding `factor * least` down does not go
below `least` (`ScaledAtLeast`).
The loop of `StickyForwarder::getBackend` is a recursive function over the positions, and
the library's induction theorems cannot be used here; instead a loop that did not exist,
or did not hold the best position so far, would have a *first* round at which it fails,
and that round contradicts the one before it (`LoopExists`, `LoopFindsBest`).  So
`BestIndex` is the first position with the highest score of those that are no hotspots
(`BestIndexIsBest`), and there is only one such position (`BestIsUnique`).  From these
two everything about sticky sessions follows without looking at the loop again: erasing
a position that is not chosen leaves the choice where it was, up to the shift of the
positions behind it (`BestAfterRemove`), an added backend wins or changes nothing
(`BestAfterAdd`), a backend that stays eligible while others come and go as hotspots keeps
its keys from all but those that were hotspots before (`OnlyHotspotsSpillAlways`), and
neither order nor duplicates matter to frontends that see the same connections
(`FrontendsAgree`).
`ForwardersImplementChooser` needs `WeightInv` at every pick: a position that is drawn
from weights computed earlier must be one of the present list.

**ServicesProofs**: `TypeCorrect`, `SameBackendsAlways`, `SlotInRangeAlways`,
`NothingMissedAlways`, `SentinelAlwaysKnown`, `ServicesImplementRegistry`, for replies in
any order.  `TableInv` conjoins `TypeOK` and `SameBackends` with four facts.  `SlotInRange` is not
inductive: that a slot survives is due to the lock, so `LockInv` (nobody holds a slot
while somebody writes) and `SlotInv` (the slot is one of the *forwarder*) are needed, and
that the list is as long as the forwarder (`SameLength`).  `SameBackends` counts, backend
by backend, because list and forwarder erase different occurrences: each erasure takes
one occurrence of the same host from both (the counting lemmas of `ListLemmas`).  It is
what guarantees that `ForwarderRemoveBackend` finds a host to erase.  `IterInv` says that
nothing before an iterator is to be erased; a round keeps it because the iterator stays
where it is when the entries behind it move up (`IterStep`).  With all iterators at their
ends, nothing at all is left to erase (`LoopsDoneErased`), which is `NothingMissed`; that
the forwarders have lost the same backends is `SameBackends` once more.  `SentinelKnown`
rests on `ListedKnown` (every listed backend has a sentinel), as `getService` returns
what is *listed*.  For the refinement each action is
mapped: `AddService` registers a route, taking the lock (`LatestSequence`,
`RemoveBackend`) cleans up or retires, and every single `Erase`, with all other steps,
changes no route, because what it erases was doomed and hence no route any more.

**ServicesOrderProofs**: three theorems with an inductive invariant each, on top of
`TableInv`.
* `ActiveAtOnceAlways` (`ActiveInv`): in the middle of a reply the services done so far
  are listed (`ReplyListed`), after it all are (`AnsweredListed`), unless the backend was
  retired; `PhaseInv` says which of the io thread's activities exclude each other.
* `InfoAlwaysMatches` (`InfoInv`): a listed entry is in the admin requests or its reply is
  about to put it there; an admin request is listed, or retired, or due to be cleaned up.
* `ChosenAlwaysReturned`, assuming `InOrder`: the replies of one backend arrive in order.
  Otherwise it is false (finding 2).  The forwarder erases the first entry of a host,
  the list the stale one, so what keeps them aligned (`Aligned`) is that the stale
  entries of a host stand before its current ones (`CurrentLast`).  That holds because a
  late answer is accepted only of a backend that has not answered the current heartbeat
  (`LateUnanswered`, `CurrentAnswered`), and survives the start of a heartbeat because
  no listed number is so old that it comes round again (`AgeInv`, with
  `MaxSkippedCycles + 1 < SeqModulus` once more).

All these invariants were first checked by TLC on the instances of section 3.

**Only model-checked.**  All liveness (`DeadBackendLeaves`, `ServingBackendRouted`,
`ShutdownCompletes`, `FullSocketDrains`, `AutoResume`, `AnswersAgain`):
fairness speaks of `ENABLED`, which is out of the prover's reach.  The properties of the
violation runs are false.  Every safety invariant, every action property and both
refinements that a passing run checks have a theorem.

## 6. Not modelled

* Reading the configuration, creating the engine, status pages and logging; reports that
  only read the table (`backends`, `getBackendList`, `status`, `queryBackendAlive`).
* The protobuf encoding, which is generated code.  `FrontendIo` takes headers and
  services to have one length each.
* The values of the floating point weights and of the FNV hash.
* `BackendForwarder::setBackends`, which nothing calls.
* The frontend is one process: frontends do not interact.  `itsMutex` is a plain
  readers-writer lock, without the queueing order of the library.

## 7. Plan

In order of importance:

1. Compositions: `FrontendIo` in place of the ideal receive of `Heartbeat`, as far as
   `ReadsOwnReply` holds; `Heartbeat!table` as a function of the lists of `Services`
   between two replies.
2. The safety half of the liveness properties, as invariants that a proof can reach: what
   holds the moment a handler is enabled.
3. `EmptyOnlyIfUnserved` under the condition that no prefix is stale.
