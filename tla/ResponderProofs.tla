-------------------------- MODULE ResponderProofs --------------------------
(* Theorems about Responder, for every bound of the clock. *)
EXTENDS Responder, TLAPS

\* The handler has asked isPaused, got "no", and has not replied yet.
Committed == io \in {"unpaused", "parsing", "replying"}

\* A pause that begins while the handler is committed has had no reply yet.
FreshPause == Committed /\ paused => late = 0

\* The io thread upgrades its lock only in the middle of its own isPaused.
UpgradeInHandler == upgrading = "io" => io = "received"

\* What every step of the server preserves: the two promises about pauses
\* need each other, and the place of the io thread.
PauseInv ==
    /\ TypeOK
    /\ ExpiredStands
    /\ UpgradeInHandler
    /\ FreshPause
    /\ AtMostOneLateReply

-----------------------------------------------------------------------------

LEMMA InitInv == Init => PauseInv
<1> SUFFICES ASSUME Init PROVE PauseInv
  OBVIOUS
<1>1. 0 \in Time /\ late \in 0 .. 2
  BY ClockAssumption DEF Init, Time
<1>2. ExpiredStands /\ UpgradeInHandler
  BY DEF Init, ExpiredStands, UpgradeInHandler
<1>3. FreshPause /\ AtMostOneLateReply
  BY DEF Init, FreshPause, AtMostOneLateReply
<1>4. TypeOK
  BY <1>1, Zenon DEF Init, TypeOK
<1> QED
  BY <1>2, <1>3, <1>4 DEF PauseInv

\* The threads that set and clear the pause do so only when nobody is
\* upgrading, and a new pause starts counting from 0.
LEMMA WriterKeepsInv ==
    ASSUME PauseInv,
           SetPause \/ (\E d \in Time : SetPauseUntil(d)) \/ SetContinue
    PROVE  PauseInv'
<1> USE DEF PauseInv, TypeOK, ExpiredStands, UpgradeInHandler, FreshPause,
        Committed, AtMostOneLateReply, CanWrite, PauseBegins, serverVars
<1>1. CASE SetPause
  BY <1>1 DEF SetPause
<1>2. CASE \E d \in Time : SetPauseUntil(d)
  BY <1>2 DEF SetPauseUntil
<1>3. CASE SetContinue
  BY <1>3 DEF SetContinue
<1> QED
  BY <1>1, <1>2, <1>3

\* isPaused, in whatever thread: the expiry it has seen still stands when it
\* clears the pause, and the handler goes on with no pause.
LEMMA IsPausedKeepsInv ==
    ASSUME PauseInv, IsPaused \/ CheckPaused \/ Resume
    PROVE  PauseInv'
<1> USE DEF PauseInv, TypeOK, ExpiredStands, UpgradeInHandler, FreshPause,
        Committed, AtMostOneLateReply, CanWrite, DeadlineExpired, serverVars
<1>1. CASE IsPaused
  BY <1>1 DEF IsPaused
<1>2. CASE CheckPaused
  BY <1>2 DEF CheckPaused
<1>3. CASE Resume
  BY <1>3 DEF Resume
<1> QED
  BY <1>1, <1>2, <1>3

\* The rest of handleBackendRead does not touch the pause; its reply is the
\* first of a pause that began after it asked.
LEMMA HandlerKeepsInv ==
    ASSUME PauseInv,
           \/ BackendRead \/ BackendReadError \/ CheckLoad \/ ParseRequest
           \/ SendDiscoveryReply \/ SendFails \/ ReplyThrows \/ StartListening
           \/ Shutdown
    PROVE  PauseInv'
<1> USE DEF PauseInv, TypeOK, ExpiredStands, UpgradeInHandler, FreshPause,
        Committed, AtMostOneLateReply, DeadlineExpired, pauseVars, serverVars
<1>1. CASE BackendRead \/ BackendReadError \/ Shutdown
  BY <1>1 DEF BackendRead, BackendReadError, Shutdown
<1>2. CASE CheckLoad \/ ParseRequest
  BY <1>2 DEF CheckLoad, ParseRequest
<1>3. CASE SendDiscoveryReply
  BY <1>3 DEF SendDiscoveryReply
<1>4. CASE SendFails \/ StartListening
  BY <1>4 DEF SendFails, StartListening
<1>5. CASE ReplyThrows
  BY <1>5 DEF ReplyThrows
<1> QED
  BY <1>1, <1>2, <1>3, <1>4, <1>5

\* An expired deadline stays expired as time passes.
LEMMA ServerKeepsInv ==
    ASSUME PauseInv, ChangeLoad \/ RequestShutdown \/ Tick
    PROVE  PauseInv'
<1> USE DEF PauseInv, TypeOK, ExpiredStands, UpgradeInHandler, FreshPause,
        Committed, AtMostOneLateReply, DeadlineExpired, pauseVars
<1>1. CASE ChangeLoad
  BY <1>1 DEF ChangeLoad
<1>2. CASE RequestShutdown
  BY <1>2 DEF RequestShutdown
<1>3. CASE Tick
  BY <1>3, ClockAssumption DEF Tick, Time, Never
<1> QED
  BY <1>1, <1>2, <1>3

LEMMA NextKeepsInv == PauseInv /\ [Next]_vars => PauseInv'
<1> SUFFICES ASSUME PauseInv, [Next]_vars PROVE PauseInv'
  OBVIOUS
<1>1. CASE UNCHANGED vars
  BY <1>1 DEF vars, PauseInv, TypeOK, ExpiredStands, UpgradeInHandler,
     FreshPause, Committed, AtMostOneLateReply, DeadlineExpired
<1>2. CASE Next
  BY <1>2, WriterKeepsInv, IsPausedKeepsInv, HandlerKeepsInv, ServerKeepsInv,
     Zenon DEF Next, HandlerStep
<1> QED
  BY <1>1, <1>2

LEMMA PauseInvAlways == Spec => []PauseInv
BY InitInv, NextKeepsInv, PTL DEF Spec

-----------------------------------------------------------------------------

\* Type correctness of the backend responder and its pause.
THEOREM TypeCorrect == Spec => []TypeOK
<1>1. PauseInv => TypeOK
  BY DEF PauseInv
<1> QED
  BY <1>1, PauseInvAlways, PTL

\* isPaused, which upgrades its lock between seeing a deadline expire and
\* clearing the pause, never clears a pause that has not expired.
THEOREM ExpiredStandsAlways == Spec => []ExpiredStands
<1>1. PauseInv => ExpiredStands
  BY DEF PauseInv
<1> QED
  BY <1>1, PauseInvAlways, PTL

\* However pauses are set, extended and cleared, at most the one request that
\* was being handled when the pause began is answered during the pause.
THEOREM AtMostOneLateReplyAlways == Spec => []AtMostOneLateReply
<1>1. PauseInv => AtMostOneLateReply
  BY DEF PauseInv
<1> QED
  BY <1>1, PauseInvAlways, PTL

\* Only Resume, setContinue and the end of the process clear a pause, and Resume
\* does so only when the deadline of that very pause has expired.
LEMMA StepHoldsPause ==
    ASSUME PauseInv, [Next]_vars, paused, ~paused'
    PROVE  SetContinue \/ DeadlineExpired \/ ReplyThrows
<1>1. paused' # paused
  OBVIOUS
<1>2. CASE Resume
  BY <1>2 DEF PauseInv, ExpiredStands, Resume
<1>3. CASE SetContinue
  BY <1>3
<1>4. CASE SetPause \/ \E d \in Time : SetPauseUntil(d)
  BY <1>4 DEF SetPause, SetPauseUntil
<1>5. ASSUME ~ReplyThrows,
             \/ IsPaused \/ BackendRead \/ BackendReadError \/ HandlerStep
             \/ Shutdown \/ ChangeLoad \/ RequestShutdown \/ Tick
             \/ UNCHANGED vars
      PROVE  UNCHANGED paused
  BY <1>5 DEF IsPaused, BackendRead, BackendReadError, HandlerStep, CheckPaused,
     CheckLoad, ParseRequest, SendDiscoveryReply, SendFails, StartListening,
     Shutdown, ChangeLoad, RequestShutdown, Tick, pauseVars, vars
<1> QED
  BY <1>1, <1>2, <1>3, <1>4, <1>5 DEF Next

\* A pause ends only by setContinue, by its own deadline or with the process.
THEOREM PauseHoldsAlways == Spec => PauseHolds
<1>1. PauseInv /\ [Next]_vars =>
        [paused /\ ~paused' => SetContinue \/ DeadlineExpired \/ ReplyThrows]_vars
  BY StepHoldsPause
<1> QED
  BY <1>1, PauseInvAlways, PTL DEF Spec, PauseHolds
=============================================================================
