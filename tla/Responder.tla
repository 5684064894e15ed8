------------------------------ MODULE Responder ------------------------------
(***************************************************************************)
(* A Sputnik backend: the handler that answers discovery requests          *)
(* (Engine.cpp and Messages.cpp, backend mode) and the pause, which other  *)
(* threads of the server set and clear while requests are handled.         *)
(*                                                                         *)
(* itsPauseMutex is a readers-writer lock.  isPaused holds it upgradably:  *)
(* other threads may read the pause meanwhile, but not write it, and no    *)
(* other isPaused can start.  When the deadline has expired isPaused turns *)
(* the lock into a write lock and clears the pause; every other critical   *)
(* section is one step here.                                               *)
(*                                                                         *)
(* A definition X_Y is definition X with mistake Y in it.  The runs use    *)
(* only X; X_Y is there to show that they would notice the mistake.        *)
(***************************************************************************)
EXTENDS Integers

CONSTANTS
    MaxClock        \* bound: the clock stops here

ASSUME ClockAssumption == MaxClock \in Nat

VARIABLES
    paused,         \* itsPaused
    deadline,       \* itsPauseDeadLine
    upgrading,      \* the thread that saw the deadline expired in isPaused
    io,             \* where the sputnik-io thread is in handleBackendRead
    highLoad,       \* Spine::Reactor::isLoadHigh()
    shuttingDown,   \* Spine::Reactor::isShuttingDown()
    clock,          \* Fmi::MicrosecClock::universal_time()
    late            \* history: replies sent since the pause began, up to 2

pauseVars == <<paused, deadline, upgrading>>
serverVars == <<highLoad, shuttingDown, clock>>
vars == <<paused, deadline, upgrading, io, highLoad, shuttingDown, clock, late>>

Time == 0 .. MaxClock

\* The absence of a deadline.
Never == -1

\* A pause that is over although nobody has cleared it yet.
DeadlineExpired == deadline # Never /\ deadline <= clock

\* The configuration key "pause" starts the backend paused; backendMode has
\* started the first receive.
Init ==
    /\ paused \in BOOLEAN
    /\ deadline = Never
    /\ upgrading = "none"
    /\ io = "listening"
    /\ highLoad \in BOOLEAN
    /\ shuttingDown = FALSE
    /\ clock = 0
    /\ late = 0

-----------------------------------------------------------------------------
(* The pause. *)

\* A write lock on itsPauseMutex can be had.
CanWrite == upgrading = "none"

\* Counting the replies since the pause began.
PauseBegins == late' = IF paused THEN late ELSE 0

SetPause_NoLock ==
    /\ paused' = TRUE
    /\ deadline' = Never
    /\ PauseBegins
    /\ UNCHANGED <<upgrading, io, serverVars>>
SetPause ==
    /\ CanWrite
    /\ paused' = TRUE
    /\ deadline' = Never
    /\ PauseBegins
    /\ UNCHANGED <<upgrading, io, serverVars>>

SetPauseUntil_NoLock(d) ==
    /\ paused' = TRUE
    /\ deadline' = d
    /\ PauseBegins
    /\ UNCHANGED <<upgrading, io, serverVars>>
SetPauseUntil(d) ==
    /\ CanWrite
    /\ paused' = TRUE
    /\ deadline' = d
    /\ PauseBegins
    /\ UNCHANGED <<upgrading, io, serverVars>>

SetContinue ==
    /\ CanWrite
    /\ paused' = FALSE
    /\ deadline' = Never
    /\ UNCHANGED <<upgrading, io, serverVars, late>>

\* isPaused, called by any other thread: its answer changes nothing here,
\* but an expired deadline makes it go on to clear the pause.
IsPaused ==
    /\ CanWrite
    /\ paused
    /\ DeadlineExpired
    /\ upgrading' = "other"
    /\ UNCHANGED <<paused, deadline, io, serverVars, late>>

\* The end of isPaused on an expired deadline, with the lock upgraded.
Resume ==
    /\ upgrading # "none"
    /\ paused' = FALSE
    /\ deadline' = Never
    /\ upgrading' = "none"
    /\ io' = IF upgrading = "io" THEN "unpaused" ELSE io
    /\ UNCHANGED <<serverVars, late>>

-----------------------------------------------------------------------------
(* handleBackendRead, on the io thread. *)

\* The handler starts.  When the server shuts down it returns at once, and
\* nothing is received any more; a receive error is reported.
BackendReadError_StopsListening ==
    /\ io = "listening"
    /\ io' = "ended"
    /\ UNCHANGED <<pauseVars, serverVars, late>>
BackendReadError ==
    /\ io = "listening"
    /\ io' = IF shuttingDown THEN "ended" ELSE "handled"
    /\ UNCHANGED <<pauseVars, serverVars, late>>

BackendRead ==
    /\ io = "listening"
    /\ io' = IF shuttingDown THEN "ended" ELSE "received"
    /\ UNCHANGED <<pauseVars, serverVars, late>>

\* The handler asks isPaused.
CheckPaused_Skipped ==
    /\ io = "received"
    /\ io' = "unpaused"
    /\ UNCHANGED <<pauseVars, serverVars, late>>
CheckPaused_IgnoresDeadline ==
    /\ io = "received"
    /\ CanWrite
    /\ io' = IF paused THEN "handled" ELSE "unpaused"
    /\ UNCHANGED <<pauseVars, serverVars, late>>
CheckPaused ==
    /\ io = "received"
    /\ CanWrite
    /\ \/ paused /\ ~DeadlineExpired /\ io' = "handled" /\ UNCHANGED upgrading
       \/ paused /\ DeadlineExpired /\ upgrading' = "io" /\ UNCHANGED io
       \/ ~paused /\ io' = "unpaused" /\ UNCHANGED upgrading
    /\ UNCHANGED <<paused, deadline, serverVars, late>>

CheckLoad ==
    /\ io = "unpaused"
    /\ io' = IF highLoad THEN "handled" ELSE "parsing"
    /\ UNCHANGED <<pauseVars, serverVars, late>>

\* The request has been parsed.
ParseRequest ==
    /\ io = "parsing"
    /\ io' = IF shuttingDown THEN "ended" ELSE "replying"
    /\ UNCHANGED <<pauseVars, serverVars, late>>

\* processRequest and sendDiscoveryReply: the reply is sent, or sending fails,
\* or there is no reply because the server began to shut down.
SendDiscoveryReply ==
    /\ io = "replying"
    /\ io' = "handled"
    /\ late' = IF paused /\ ~DeadlineExpired /\ late < 2 THEN late + 1 ELSE late
    /\ UNCHANGED <<pauseVars, serverVars>>
SendFails ==
    /\ io = "replying"
    /\ io' = "handled"
    /\ UNCHANGED <<pauseVars, serverVars, late>>

\* Any other exception, such as that of a throttle limit which does not fit the
\* message, leaves handleBackendRead; nobody catches it on the io thread, and the
\* process ends.  A supervisor launches it anew, as it was configured.
ReplyThrows ==
    /\ io = "replying"
    /\ ~shuttingDown
    /\ paused' \in BOOLEAN
    /\ deadline' = Never
    /\ upgrading' = "none"
    /\ io' = "listening"
    /\ late' = 0
    /\ UNCHANGED serverVars

StartListening ==
    /\ io = "handled"
    /\ io' = "listening"
    /\ UNCHANGED <<pauseVars, serverVars, late>>

\* Engine::shutdown stops the io thread, between two handlers.
Shutdown ==
    /\ shuttingDown
    /\ io = "listening"
    /\ io' = "ended"
    /\ UNCHANGED <<pauseVars, serverVars, late>>

-----------------------------------------------------------------------------
(* The server. *)

ChangeLoad ==
    /\ highLoad' = ~highLoad
    /\ UNCHANGED <<pauseVars, io, shuttingDown, clock, late>>

RequestShutdown ==
    /\ ~shuttingDown
    /\ shuttingDown' = TRUE
    /\ UNCHANGED <<pauseVars, io, highLoad, clock, late>>

Tick ==
    /\ clock < MaxClock
    /\ clock' = clock + 1
    /\ UNCHANGED <<pauseVars, io, highLoad, shuttingDown, late>>

-----------------------------------------------------------------------------

HandlerStep ==
    \/ CheckPaused
    \/ CheckLoad
    \/ ParseRequest
    \/ SendDiscoveryReply
    \/ SendFails
    \/ ReplyThrows
    \/ StartListening

Next ==
    \/ SetPause
    \/ \E d \in Time : SetPauseUntil(d)
    \/ SetContinue
    \/ IsPaused
    \/ Resume
    \/ BackendRead
    \/ BackendReadError
    \/ HandlerStep
    \/ Shutdown
    \/ ChangeLoad
    \/ RequestShutdown
    \/ Tick

Spec == Init /\ [][Next]_vars

\* Time passes, requests keep coming (heartbeats are sent for ever), and a
\* thread that runs a handler or upgrades its lock gets on with it.  A thread
\* waiting for itsPauseMutex gets it in the end.
FairSpec ==
    /\ Spec
    /\ WF_vars(Tick)
    /\ SF_vars(BackendRead)
    /\ WF_vars(Resume)
    /\ SF_vars(HandlerStep)

-----------------------------------------------------------------------------
(* Properties. *)

\* The pause and the state of the io thread have their types.
TypeOK ==
    /\ paused \in BOOLEAN
    /\ deadline \in Time \cup {Never}
    /\ upgrading \in {"none", "io", "other"}
    /\ io \in {"listening", "received", "unpaused", "parsing", "replying",
               "handled", "ended"}
    /\ highLoad \in BOOLEAN
    /\ shuttingDown \in BOOLEAN
    /\ clock \in Time
    /\ late \in 0 .. 2

\* A thread of isPaused that waits for the upgrade of its lock is right about
\* the pause it is going to clear: there is one, and its deadline has expired.
ExpiredStands == upgrading # "none" => paused /\ DeadlineExpired

\* A pause ends only because setContinue is called or because its own
\* deadline has expired, or with the process: isPaused, which sees the deadline
\* expire and clears the pause later, never clears a newer pause that came in
\* between.
PauseHolds ==
    [][ paused /\ ~paused' => SetContinue \/ DeadlineExpired \/ ReplyThrows ]_vars

\* FEATURES.md:110 "a backend won't reply to discovery requests while paused",
\* up to the one request that was being handled when the pause began.
AtMostOneLateReply == late <= 1

\* FEATURES.md:112 "auto-resume at a wall-clock deadline": a pause with a
\* deadline ends, or is replaced, or the server shuts down.
AutoResume ==
    \A d \in Time : paused /\ deadline = d ~> ~paused \/ deadline # d \/ shuttingDown

\* A backend whose pauses are all over and whose load is low gets to replying
\* again and again, although nobody calls setContinue, and after any number of
\* receive errors, failures to send and restarts.
AnswersAgain ==
    <>[](~highLoad /\ ~shuttingDown /\ (paused => DeadlineExpired))
        => []<>(io = "replying")
=============================================================================
