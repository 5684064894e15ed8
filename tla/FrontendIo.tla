----------------------------- MODULE FrontendIo -----------------------------
(***************************************************************************)
(* The asynchronous receives of a Sputnik frontend (Engine.cpp, frontend   *)
(* mode).                                                                  *)
(*                                                                         *)
(* All receives of the sputnik-io thread share one socket and one buffer.  *)
(* startServiceDiscovery starts a receive, and the handler of every        *)
(* receive starts the next one.  handleDeadlineTimer cancels the receives  *)
(* that still wait, but a receive that has completed runs its handler all  *)
(* the same, after the sleep: from then on two chains of receives fill the *)
(* buffer.  Module Heartbeat has one receive per datagram and no buffer.   *)
(*                                                                         *)
(* The rules of boost::asio on one thread: starting a receive takes a      *)
(* datagram at once if one waits and no receive does; when the socket      *)
(* becomes readable all waiting receives are served in one go, the handler *)
(* of the first runs and the others queue up; handlers run in the order of *)
(* the queue, the expired timer among them.                                *)
(*                                                                         *)
(* A reply is a header, naming its backend and heartbeat, and the services *)
(* of the backend.  Headers and services are taken to have one length      *)
(* each, so what is left over from a longer reply may parse.               *)
(*                                                                         *)
(* A definition X_Y is definition X with mistake Y in it.  The runs use    *)
(* only X; X_Y is there to show that they would notice the mistake.        *)
(***************************************************************************)
EXTENDS Integers, Sequences

CONSTANTS
    Backend,            \* the backends that answer
    Service,            \* the services they announce
    Offer,              \* Offer[b]: the services in a reply of b, in order
    NoBackend,          \* not a backend
    Capacity,           \* how many services of a reply fit in the buffer
    SeqModulus,         \* heartbeat numbers are 0 .. SeqModulus-1 (65535)
    MaxSkippedCycles,   \* heartbeat.max_skipped_cycles
    MayShutdown,        \* the server may be told to shut down
    MaxWaiting          \* bound: datagrams received and not yet handled

ASSUME BackendAssumption == NoBackend \notin Backend
ASSUME OfferAssumption == Offer \in [Backend -> Seq(Service)]
ASSUME CapacityAssumption == Capacity \in Nat
ASSUME CycleAssumption == /\ SeqModulus \in Nat \ {0}
                          /\ MaxSkippedCycles \in Nat
ASSUME SwitchAssumption == MayShutdown \in BOOLEAN
ASSUME WaitingAssumption == MaxWaiting \in Nat

VARIABLES
    seq,            \* itsFrontendSequence
    skipped,        \* itsSkippedCycles
    heard,          \* itsReceivedResponses > 0
    phase,          \* what the sputnik-io thread is doing
    shuttingDown,   \* Spine::Reactor::isShuttingDown()
    socket,         \* the datagrams in the receive queue of itsSocket
    armed,          \* how many async_receive_from wait for a datagram
    done,           \* completed receives whose handlers have yet to run
    ahead,          \* how many of those run before the expired deadline
                    \* timer, or NotExpired
    buffer,         \* itsReceiveBuffer
    table,          \* itsServices: who serves what, by which reply
    carried         \* history: receives that outlived the last cancel()

ioVars == <<socket, armed, done, buffer>>
cycleVars == <<seq, skipped, heard, phase, ahead, carried>>
vars == <<seq, skipped, heard, phase, shuttingDown, socket, armed, done, ahead,
          buffer, table, carried>>

SeqNum == 0 .. SeqModulus - 1
Header == [be : Backend, seq : SeqNum]
Entry == [be : Backend, svc : Service, seq : SeqNum]

\* What a receive completes with: a reply, or an error.  A handler learns
\* only how long its reply was; the header is recorded for the properties.
Received(h) == [op |-> "read", head |-> h]
ReceiveError == [op |-> "failed", head |-> [be |-> NoBackend, seq |-> 0]]
Completion == {Received(h) : h \in Header} \cup {ReceiveError}

\* itsResponseDeadlineTimer is still running, or there is no deadline.
NotExpired == -1

NextSeq_NoWrap(s) == s + 1
NextSeq(s) == (s + 1) % SeqModulus

Min2(m, n) == IF m <= n THEN m ELSE n

\* The services of reply r that fit in the buffer.
Size(r) == IF r.op = "read" THEN Min2(Len(Offer[r.head.be]), Capacity) ELSE 0

-----------------------------------------------------------------------------
(* Receiving. *)

\* itsReceiveBuffer after replies have been received into it, one after the
\* other: the last one that is long enough fills a place.
Fill(buf, replies) ==
    LET Longer(i) == {j \in DOMAIN replies : i <= Size(replies[j])}
        Last(J) == CHOOSE j \in J : \A k \in J : k <= j
        read == {j \in DOMAIN replies : replies[j].op = "read"}
    IN [head |-> IF read = {} THEN buf.head ELSE replies[Last(read)].head,
        body |-> [i \in 1 .. Capacity |->
                     IF Longer(i) = {} THEN buf.body[i]
                     ELSE Offer[replies[Last(Longer(i))].head.be][i]]]

\* async_receive_from, with n receives waiting, the datagrams in and the
\* completions q: a waiting datagram is taken at once, unless another receive
\* waits already.
AsyncReceiveFrom(buf, in, n, q) ==
    IF n = 0 /\ in # <<>>
      THEN /\ buffer' = Fill(buf, <<Head(in)>>)
           /\ socket' = Tail(in)
           /\ armed' = 0
           /\ done' = Append(q, Head(in))
      ELSE /\ buffer' = buf
           /\ socket' = in
           /\ armed' = n + 1
           /\ done' = q

-----------------------------------------------------------------------------
(* The handlers. *)

\* startServiceDiscovery for heartbeat s: the requests go out, a receive and
\* the deadline timer are started.
StartServiceDiscovery_NoReceive(s) ==
    /\ seq' = s
    /\ phase' = "listening"
    /\ UNCHANGED ioVars
StartServiceDiscovery(s) ==
    /\ seq' = s
    /\ phase' = "listening"
    /\ AsyncReceiveFrom(buffer, socket, armed, done)

\* itsReceiveBuffer before anything has been received.
EmptyBuffer == [head |-> ReceiveError.head,
                body |-> [i \in 1 .. Capacity |-> NoBackend]]

\* frontendMode has bound the socket and started the discovery loop.
Init ==
    /\ seq = NextSeq(0)
    /\ skipped = 0
    /\ heard = FALSE
    /\ phase = "listening"
    /\ shuttingDown = FALSE
    /\ socket = <<>>
    /\ armed = 1
    /\ done = <<>>
    /\ ahead = NotExpired
    /\ buffer = EmptyBuffer
    /\ table = {}
    /\ carried = 0

\* How many services the parser finds in the first n of the buffer.  What the
\* last reply did not overwrite may be cut in the middle of a field, where the
\* parser stops; handleFrontendRead ignores the error.
Parsed(buf, n) ==
    {n, Min2(n, Size(Received(buf.head)))}

\* processReply, unless it throws: k services are filed under the header.  A
\* reply without services is ignored, and every reply is when the server shuts
\* down.
ProcessReply(buf, k) ==
    IF k = 0 \/ shuttingDown
      THEN UNCHANGED <<table, heard>>
      ELSE /\ table' = table \cup {[be |-> buf.head.be, svc |-> buf.body[i],
                                    seq |-> buf.head.seq] : i \in 1 .. k}
           /\ heard' = TRUE

\* handleFrontendRead, of completion r: the reply in the buffer is processed,
\* unless the receive failed, and the next receive is started.
HandleFrontendRead_GivesUp(r, buf, in, n, q) ==
    /\ IF r.op = "failed"
         THEN /\ buffer' = buf
              /\ socket' = in
              /\ armed' = n
              /\ done' = q
              /\ UNCHANGED <<table, heard>>
         ELSE /\ \E k \in Parsed(buf, Size(r)) : ProcessReply(buf, k)
              /\ AsyncReceiveFrom(buf, in, n, q)
    /\ UNCHANGED <<seq, skipped, phase, shuttingDown, carried>>
HandleFrontendRead(r, buf, in, n, q) ==
    /\ \/ r.op = "read" /\ \E k \in Parsed(buf, Size(r)) : ProcessReply(buf, k)
       \/ r.op = "failed" /\ UNCHANGED <<table, heard>>
    /\ AsyncReceiveFrom(buf, in, n, q)
    /\ UNCHANGED <<seq, skipped, phase, shuttingDown, carried>>

Running == phase \in {"listening", "ending"}

\* The handler whose turn it is is that of a receive.
FrontendRead ==
    /\ Running
    /\ done # <<>>
    /\ ahead # 0
    /\ HandleFrontendRead(Head(done), buffer, socket, armed, Tail(done))
    /\ ahead' = IF ahead = NotExpired THEN NotExpired ELSE ahead - 1

\* The socket is readable: every waiting receive takes a datagram, if there
\* is one, and the handler of the first runs.
SocketReadable ==
    /\ Running
    /\ armed > 0
    /\ socket # <<>>
    /\ LET k == Min2(armed, Len(socket))
           taken == SubSeq(socket, 1, k)
       IN HandleFrontendRead(taken[1], Fill(buffer, taken),
                             SubSeq(socket, k + 1, Len(socket)),
                             armed - k, done \o SubSeq(taken, 2, k))
    /\ UNCHANGED ahead

\* processReply throws, before anything is filed, when the throttle limit in
\* the reply is negative; any reply may be one.  handleFrontendRead throws on,
\* nobody catches it on the io thread, and the process ends.  A supervisor
\* launches it anew, with a new socket.
ProcessReplyThrows ==
    /\ Running
    /\ ~shuttingDown
    /\ \/ done # <<>> /\ ahead # 0 /\ Size(Head(done)) > 0
       \/ armed > 0 /\ socket # <<>> /\ Size(Head(socket)) > 0
    /\ seq' = NextSeq(0)
    /\ skipped' = 0
    /\ heard' = FALSE
    /\ phase' = "listening"
    /\ socket' = <<>>
    /\ armed' = 1
    /\ done' = <<>>
    /\ ahead' = NotExpired
    /\ buffer' = EmptyBuffer
    /\ table' = {}
    /\ carried' = 0
    /\ UNCHANGED shuttingDown

\* The timer expires; its handler queues up behind those that are due.
TimerExpires ==
    /\ phase = "listening"
    /\ ahead = NotExpired
    /\ ahead' = Len(done)
    /\ UNCHANGED <<seq, skipped, heard, phase, shuttingDown, ioVars, table, carried>>

\* latestSequence.
LatestSequence(s) == {e \in table : e.seq = s}

\* What handleDeadlineTimer does to the table and the counters.
CleanUp ==
    /\ IF heard \/ skipped + 1 > MaxSkippedCycles
         THEN table' = LatestSequence(seq) /\ skipped' = 0
         ELSE UNCHANGED table /\ skipped' = skipped + 1
    /\ heard' = FALSE

\* handleDeadlineTimer up to the sleep.  cancel() aborts the receives that
\* wait, whose handlers do nothing; those that have completed stay.
DeadlineTimer_NoCancel ==
    /\ phase = "listening"
    /\ ahead = 0
    /\ ahead' = NotExpired
    /\ carried' = Len(done)
    /\ CleanUp
    /\ phase' = "sleeping"
    /\ UNCHANGED <<seq, shuttingDown, ioVars>>
DeadlineTimer ==
    /\ phase = "listening"
    /\ ahead = 0
    /\ ahead' = NotExpired
    /\ armed' = 0
    /\ carried' = Len(done)
    /\ CleanUp
    /\ phase' = "sleeping"
    /\ UNCHANGED <<seq, shuttingDown, socket, done, buffer>>

\* The rest of handleDeadlineTimer, after the sleep.
WakeUp ==
    /\ phase = "sleeping"
    /\ \/ ~shuttingDown /\ StartServiceDiscovery(NextSeq(seq))
       \/ shuttingDown /\ phase' = "ending" /\ UNCHANGED <<seq, ioVars>>
    /\ UNCHANGED <<skipped, heard, shuttingDown, ahead, table, carried>>

-----------------------------------------------------------------------------
(* The network and the server. *)

\* A backend's answer to the current heartbeat, or an error, reaches the
\* socket.  Waiting in the socket makes an answer late.
Arrive ==
    /\ phase # "stopped"
    /\ Len(socket) + Len(done) < MaxWaiting
    /\ \E r \in {Received([be |-> b, seq |-> seq]) : b \in Backend}
                    \cup {ReceiveError} :
          socket' = Append(socket, r)
    /\ UNCHANGED <<cycleVars, shuttingDown, armed, done, buffer, table>>

\* Reactor: the server is told to stop ...
RequestShutdown ==
    /\ MayShutdown
    /\ ~shuttingDown
    /\ shuttingDown' = TRUE
    /\ UNCHANGED <<cycleVars, ioVars, table>>

\* ... and calls Engine::shutdown: no handler runs any more.
Shutdown ==
    /\ shuttingDown
    /\ Running
    /\ phase' = "stopped"
    /\ UNCHANGED <<seq, skipped, heard, ahead, shuttingDown, ioVars, table, carried>>

-----------------------------------------------------------------------------

Next ==
    \/ FrontendRead
    \/ SocketReadable
    \/ ProcessReplyThrows
    \/ TimerExpires
    \/ DeadlineTimer
    \/ WakeUp
    \/ Arrive
    \/ RequestShutdown
    \/ Shutdown

Spec == Init /\ [][Next]_vars

\* The io thread runs what is due, and the timer expires.
FairSpec ==
    /\ Spec
    /\ WF_vars(FrontendRead \/ DeadlineTimer)
    /\ WF_vars(SocketReadable)
    /\ WF_vars(TimerExpires)
    /\ WF_vars(WakeUp)

-----------------------------------------------------------------------------
(* Properties. *)

\* The members of Engine and the state of its socket have their types.
TypeOK ==
    /\ seq \in SeqNum
    /\ skipped \in 0 .. MaxSkippedCycles
    /\ heard \in BOOLEAN
    /\ phase \in {"listening", "sleeping", "ending", "stopped"}
    /\ shuttingDown \in BOOLEAN
    /\ socket \in Seq(Completion)
    /\ armed \in Nat
    /\ done \in Seq(Completion)
    /\ ahead \in {NotExpired} \cup 0 .. Len(done)
    /\ buffer.head \in Header \cup {ReceiveError.head}
    /\ DOMAIN buffer.body = 1 .. Capacity
    /\ table \subseteq Entry
    /\ carried \in Nat

\* While the frontend listens there is one receive, waiting or completed, and
\* one more for each receive that had completed when handleDeadlineTimer
\* called cancel(): neither an error, nor cancel(), nor a handler that runs
\* after the sleep ever leaves the frontend deaf, and nothing else starts a
\* second chain.
OneMoreThanCarried ==
    /\ phase = "listening" => armed + Len(done) = 1 + carried
    /\ phase = "sleeping" => armed = 0 /\ Len(done) = carried

\* As long as no receive outlived the last cancel(), handleFrontendRead finds
\* in itsReceiveBuffer the very reply it was called for, or as much of it as
\* fits: nobody has received into the buffer in between.
ReadsOwnReply ==
    phase = "listening" /\ carried = 0 =>
        \A i \in DOMAIN done : done[i] # ReceiveError =>
            /\ buffer.head = done[i].head
            /\ \A j \in 1 .. Size(done[i]) :
                   buffer.body[j] = Offer[done[i].head.be][j]

\* The datagrams that wait in the socket are read sooner or later, heartbeat
\* after heartbeat, although every deadline cancels the receives; or the process
\* ends and its socket with it.
FullSocketDrains ==
    Len(socket) = MaxWaiting ~> Len(socket) < MaxWaiting \/ shuttingDown

\* FEATURES.md:29 "answers with the backend's URI map": a backend is in the
\* table for services that it announces.
FiledAsAnnounced ==
    \A e \in table : \E i \in DOMAIN Offer[e.be] : Offer[e.be][i] = e.svc
=============================================================================
