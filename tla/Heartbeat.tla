----------------------------- MODULE Heartbeat -----------------------------
(***************************************************************************)
(* The service discovery protocol of the Sputnik engine.                   *)
(*                                                                         *)
(* One frontend numbers its heartbeats modulo SeqModulus, sends a request  *)
(* to every backend, listens for replies until the response deadline, then *)
(* cleans its routing table and sleeps until the next heartbeat            *)
(* (Engine.cpp, frontend mode).  A backend echoes the number of the        *)
(* request it answers (Engine.cpp, backend mode; Messages.cpp).  The two   *)
(* talk over UDP: a datagram may be lost, duplicated, reordered, or come   *)
(* up to MaxDelay heartbeats late.  Meanwhile the threads of the frontend  *)
(* plugin retire backends that fail to answer HTTP requests, and the       *)
(* process kills itself when that leaves the table empty.                  *)
(*                                                                         *)
(* The table is abstracted to the pairs (backend, heartbeat answered): one *)
(* entry stands for all the entries that one reply adds to Services.       *)
(* Module Services models those lists and their forwarders.                *)
(*                                                                         *)
(* A definition X_Y is definition X with mistake Y in it.  The runs use    *)
(* only X; X_Y is there to show that they would notice the mistake.        *)
(***************************************************************************)
EXTENDS Integers

CONSTANTS
    Backend,            \* the backends listed in backendUdpListeners
    SeqModulus,         \* heartbeat numbers are 0 .. SeqModulus-1 (65535)
    MaxSkippedCycles,   \* heartbeat.max_skipped_cycles
    MaxResponses,       \* bound: the response counter saturates here
    MaxDelay,           \* bound: datagrams live for this many heartbeats
    Removable,          \* the backends whose HTTP requests may fail
    FixedPort,          \* frontendUdpPort is set: a restart keeps the port
    MayShutdown         \* the server may be told to shut down

ASSUME SeqModulusAssumption == SeqModulus \in Nat
ASSUME MaxSkippedAssumption == /\ MaxSkippedCycles \in Nat
                               /\ MaxSkippedCycles + 1 < SeqModulus
ASSUME MaxResponsesAssumption == MaxResponses \in Nat \ {0}
ASSUME MaxDelayAssumption == MaxDelay \in Nat
ASSUME RemovableAssumption == Removable \subseteq Backend
ASSUME SwitchAssumption == FixedPort \in BOOLEAN /\ MayShutdown \in BOOLEAN

VARIABLES
    seq,            \* itsFrontendSequence
    responses,      \* itsReceivedResponses, only ever compared with 0
    skipped,        \* itsSkippedCycles
    phase,          \* what the sputnik-io thread of the frontend is doing
    table,          \* itsServices: which backend answered which heartbeat
    shuttingDown,   \* Spine::Reactor::isShuttingDown()
    ioStopped,      \* itsIoService has been told to stop
    net,            \* datagrams that may still be delivered
    status          \* whether and how each backend answers requests

frontendVars == <<seq, responses, skipped, phase>>
shutdownVars == <<shuttingDown, ioStopped>>
vars == <<seq, responses, skipped, phase, table, shuttingDown, ioStopped, net,
          status>>

SeqNum == 0 .. SeqModulus - 1
Entry == [be : Backend, seq : SeqNum]

\* A bare reply is one that lists no services.
Message == [type : {"request", "reply", "bareReply"}, be : Backend, seq : SeqNum]

\* serving: answers with its services; bare: answers before any service is
\* registered; silent: down, paused, under high load or shutting down.
Status == {"serving", "bare", "silent"}

Routed == {e.be : e \in table}

NextSeq_NoWrap(s) == s + 1
NextSeq(s) == (s + 1) % SeqModulus

\* How many heartbeats after number s number t is sent.
Distance(s, t) == IF s <= t THEN t - s ELSE t + SeqModulus - s

Requests(s) == [type : {"request"}, be : Backend, seq : {s}]

\* The datagrams that outlive the start of heartbeat s.
StillInFlight(s) == {m \in net : Distance(m.seq, s) <= MaxDelay}

-----------------------------------------------------------------------------
(* The frontend's io thread. *)

\* What startServiceDiscovery sends and arms for heartbeat s: the requests,
\* one receive and the response deadline timer.
StartServiceDiscovery(s) ==
    /\ seq' = s
    /\ net' = StillInFlight(s) \cup Requests(s)
    /\ phase' = "listening"

\* launch() in frontend mode has started the discovery loop.
Init ==
    /\ seq = NextSeq(0)
    /\ responses = 0
    /\ skipped = 0
    /\ phase = "listening"
    /\ table = {}
    /\ shuttingDown = FALSE
    /\ ioStopped = FALSE
    /\ net = Requests(NextSeq(0))
    /\ status \in [Backend -> Status]

\* processReply adds the services of the reply and counts it, whichever
\* heartbeat it answers.  Replies without services, and every reply once the
\* server is shutting down, are ignored.
ProcessReply(m) ==
    /\ ~shuttingDown
    /\ m.type = "reply"
    /\ table' = table \cup {[be |-> m.be, seq |-> m.seq]}
    /\ responses' = IF responses < MaxResponses THEN responses + 1 ELSE responses

\* run() starts the next handler, unless the io service has been stopped.
Handling == phase = "listening" /\ ~ioStopped

\* handleFrontendRead: a datagram is read while the deadline timer runs, and
\* the next receive is started.  The datagram may be delivered again.
FrontendRead_NoNextReceive(m) ==
    /\ Handling
    /\ responses = 0
    /\ ProcessReply(m)
    /\ UNCHANGED <<seq, skipped, phase, shutdownVars, net, status>>
FrontendRead(m) ==
    /\ Handling
    /\ ProcessReply(m)
    /\ UNCHANGED <<seq, skipped, phase, shutdownVars, net, status>>

\* latestSequence: only the entries of heartbeat s remain.
LatestSequence_Lenient(s) ==
    {e \in table : Distance(e.seq, s) <= MaxSkippedCycles}
LatestSequence(s) == {e \in table : e.seq = s}

\* handleDeadlineTimer up to the sleep: the answers to this heartbeat, if
\* there were any, replace the table.
DeadlineAnswered_KeepsSkipped ==
    /\ Handling
    /\ responses > 0
    /\ table' = LatestSequence(seq)
    /\ responses' = 0
    /\ phase' = "sleeping"
    /\ UNCHANGED <<seq, skipped, shutdownVars, net, status>>
DeadlineAnswered ==
    /\ Handling
    /\ responses > 0
    /\ table' = LatestSequence(seq)
    /\ skipped' = 0
    /\ responses' = 0
    /\ phase' = "sleeping"
    /\ UNCHANGED <<seq, shutdownVars, net, status>>

\* Nobody answered: the table is kept for MaxSkippedCycles heartbeats.
DeadlineSkipped ==
    /\ Handling
    /\ responses = 0
    /\ skipped + 1 <= MaxSkippedCycles
    /\ skipped' = skipped + 1
    /\ phase' = "sleeping"
    /\ UNCHANGED <<seq, responses, table, shutdownVars, net, status>>

\* Nobody answered for too long.
DeadlineExceeded_KeepsTable ==
    /\ Handling
    /\ responses = 0
    /\ skipped + 1 > MaxSkippedCycles
    /\ skipped' = 0
    /\ phase' = "sleeping"
    /\ UNCHANGED <<seq, responses, table, shutdownVars, net, status>>
DeadlineExceeded ==
    /\ Handling
    /\ responses = 0
    /\ skipped + 1 > MaxSkippedCycles
    /\ table' = LatestSequence(seq)
    /\ skipped' = 0
    /\ phase' = "sleeping"
    /\ UNCHANGED <<seq, responses, shutdownVars, net, status>>

DeadlineExpired == DeadlineAnswered \/ DeadlineSkipped \/ DeadlineExceeded

\* The rest of handleDeadlineTimer, after sleeping for heartbeat.interval.
WakeUp ==
    /\ phase = "sleeping"
    /\ IF shuttingDown
         THEN phase' = "drained" /\ UNCHANGED <<seq, net>>
         ELSE StartServiceDiscovery(NextSeq(seq))
    /\ UNCHANGED <<responses, skipped, table, shutdownVars, status>>

\* Reactor: the server is told to stop ...
RequestShutdown ==
    /\ MayShutdown
    /\ ~shuttingDown
    /\ shuttingDown' = TRUE
    /\ UNCHANGED <<frontendVars, table, ioStopped, net, status>>

\* ... and calls Engine::shutdown, which stops the io service for good.
Shutdown_CancelsTimer ==
    /\ shuttingDown
    /\ phase = "listening"
    /\ phase' = "drained"
    /\ UNCHANGED <<seq, responses, skipped, table, shutdownVars, net, status>>
Shutdown ==
    /\ shuttingDown
    /\ ~ioStopped
    /\ ioStopped' = TRUE
    /\ UNCHANGED <<frontendVars, table, shuttingDown, net, status>>

\* run() returns between two handlers once the io service is stopped, and the
\* thread ends.
RunStops ==
    /\ ioStopped
    /\ phase \in {"listening", "drained"}
    /\ phase' = "stopped"
    /\ UNCHANGED <<seq, responses, skipped, table, shutdownVars, net, status>>

\* run() also returns when nothing is left to wait for.  That may never be: a
\* receive that completed before the deadline cancelled it starts another one.
RunDrained ==
    /\ phase = "drained"
    /\ phase' = "stopped"
    /\ UNCHANGED <<seq, responses, skipped, table, shutdownVars, net, status>>

-----------------------------------------------------------------------------
(* The threads of the frontend plugin. *)

\* Services::removeBackend: a request to b failed, b is retired.
RemoveBackend(b) ==
    /\ phase # "stopped"
    /\ \E e \in table : e.be # b
    /\ table' = {e \in table : e.be # b}
    /\ UNCHANGED <<frontendVars, shutdownVars, net, status>>

\* The same when nothing else is left: SIGKILL, and a supervisor launches the
\* process anew.  Old datagrams, whatever their numbers, reach the new process
\* only at a fixed port.
RemoveLastBackend(b) ==
    /\ phase # "stopped"
    /\ ~ \E e \in table : e.be # b
    /\ table' = {}
    /\ IF shuttingDown
         THEN phase' = "stopped" /\ UNCHANGED <<seq, responses, skipped, net>>
         ELSE /\ seq' = NextSeq(0)
              /\ net' = (IF FixedPort THEN net ELSE {}) \cup Requests(NextSeq(0))
              /\ responses' = 0
              /\ skipped' = 0
              /\ phase' = "listening"
    /\ UNCHANGED <<shutdownVars, status>>

-----------------------------------------------------------------------------
(* The backends. *)

\* sendDiscoveryReply: the reply to request m echoes its number and lists the
\* services registered so far.
DiscoveryReply(m) ==
    [type |-> IF status[m.be] = "serving" THEN "reply" ELSE "bareReply",
     be |-> m.be, seq |-> m.seq]

\* handleBackendRead: a backend that is up, not paused and not overloaded
\* answers a request, and listens on.
BackendRead(m) ==
    /\ m.type = "request"
    /\ status[m.be] # "silent"
    /\ net' = net \cup {DiscoveryReply(m)}
    /\ UNCHANGED <<frontendVars, table, shutdownVars, status>>

\* A backend starts, stops, is paused or continued, or its load changes.
ChangeStatus(b) ==
    /\ \E s \in Status : status' = [status EXCEPT ![b] = s]
    /\ UNCHANGED <<frontendVars, table, shutdownVars, net>>

-----------------------------------------------------------------------------

Next ==
    \/ \E m \in net : FrontendRead(m) \/ BackendRead(m)
    \/ DeadlineExpired
    \/ WakeUp
    \/ RequestShutdown
    \/ Shutdown
    \/ RunStops
    \/ RunDrained
    \/ \E b \in Removable : RemoveBackend(b) \/ RemoveLastBackend(b)
    \/ \E b \in Backend : ChangeStatus(b)

Spec == Init /\ [][Next]_vars

(* Fairness.  The io thread runs its handlers: an armed timer fires, a sleep
   ends, and run() returns once it is stopped.  A server that shuts down calls
   the shutdown method of its engines. *)
FrontendFairness ==
    /\ WF_vars(DeadlineExpired)
    /\ WF_vars(WakeUp)
    /\ WF_vars(Shutdown)
    /\ WF_vars(RunStops)

(* A network that does not lose everything: a backend that keeps being asked
   gets, again and again, its answer through before the deadline. *)
InTime(b, m) == m.be = b /\ m.seq = seq /\ phase = "listening"
NetworkFairness ==
    \A b \in Backend :
        /\ SF_vars(\E m \in net : InTime(b, m) /\ BackendRead(m))
        /\ SF_vars(\E m \in net : InTime(b, m) /\ FrontendRead(m))

FairSpec == Spec /\ FrontendFairness
ReliableSpec == FairSpec /\ NetworkFairness

-----------------------------------------------------------------------------
(* Properties. *)

\* The variables of Engine, Services and the network hold values of their
\* types: heartbeat numbers stay below the modulus of startServiceDiscovery
\* and every datagram and entry names a known backend.
TypeOK ==
    /\ seq \in SeqNum
    /\ responses \in 0 .. MaxResponses
    /\ skipped \in Nat
    /\ phase \in {"listening", "sleeping", "drained", "stopped"}
    /\ table \subseteq Entry
    /\ shuttingDown \in BOOLEAN
    /\ ioStopped \in BOOLEAN
    /\ net \subseteq Message
    /\ status \in [Backend -> Status]

\* When handleDeadlineTimer has cleaned up, all entries of the table answer
\* one and the same heartbeat, the last one anybody answered, and that
\* heartbeat is exactly itsSkippedCycles heartbeats old; never more than
\* MaxSkippedCycles.  While listening this holds until the first answer.  So
\* neither a late or duplicated reply, nor a retired backend, nor the wrap of
\* the heartbeat number, nor a restart leaves an older entry behind.
OneHeartbeat ==
    /\ skipped <= MaxSkippedCycles
    /\ phase = "sleeping" => \A e \in table : Distance(e.seq, seq) = skipped
    /\ phase = "listening" /\ responses = 0
         => \A e \in table : Distance(e.seq, seq) = skipped + 1

\* A response deadline that passes without any answer keeps the whole table
\* (up to MaxSkippedCycles times) or empties it: handleDeadlineTimer never
\* drops some backends and keeps others when nobody has answered.
AllOrNothing ==
    [][ phase = "listening" /\ phase' = "sleeping" /\ responses = 0
          => table' \in {table, {}} ]_vars

\* A backend that stops answering for good (it died, was paused or lost its
\* services) disappears from the table and stays away, whatever else happens,
\* as long as the frontend is not shut down.
DeadBackendLeaves ==
    \A b \in Backend :
        <>[](status[b] # "serving" /\ ~shuttingDown) => <>[](b \notin Routed)

\* A backend that answers from some time on is routed to again and again,
\* although it may have been retired by the plugin, lost replies, or been
\* pruned before.
ServingBackendRouted ==
    \A b \in Backend :
        <>[](status[b] = "serving" /\ ~shuttingDown) => []<>(b \in Routed)

\* Once the server shuts down the io thread of the engine ends, even if
\* Engine::shutdown is called while handleDeadlineTimer sleeps, and even if a
\* receive is left that nothing will complete or cancel.
ShutdownCompletes == shuttingDown ~> phase = "stopped"

\* Engine.h:78 "Number of received responses from the last heartbeat": when
\* itsReceivedResponses is positive, somebody answered the last heartbeat.
ResponsesAreCurrent ==
    phase = "listening" /\ responses > 0 => \E e \in table : e.seq = seq
=============================================================================
