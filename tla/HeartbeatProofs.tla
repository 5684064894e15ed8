-------------------------- MODULE HeartbeatProofs --------------------------
(* Theorems about Heartbeat for every number of backends and every value of
   the other constants. *)
EXTENDS Heartbeat, TLAPS

-----------------------------------------------------------------------------
(* Arithmetic of the heartbeat numbers. *)

\* startServiceDiscovery's (itsFrontendSequence + 1) % 65535, without modulus.
LEMMA NextSeqValue ==
    ASSUME NEW s \in SeqNum
    PROVE  NextSeq(s) = IF s + 1 = SeqModulus THEN 0 ELSE s + 1
BY SeqModulusAssumption DEF SeqNum, NextSeq

\* The next heartbeat number is a heartbeat number.
LEMMA NextSeqType ==
    ASSUME NEW s \in SeqNum
    PROVE  NextSeq(s) \in SeqNum
BY NextSeqValue, SeqModulusAssumption, SMT DEF SeqNum

\* Distances are smaller than the modulus, and only a number itself is at
\* distance 0: no older heartbeat can pass for the current one.
LEMMA DistanceRange ==
    ASSUME NEW s \in SeqNum, NEW t \in SeqNum
    PROVE  /\ Distance(s, t) \in 0 .. SeqModulus - 1
           /\ Distance(s, t) = 0 <=> s = t
BY SeqModulusAssumption DEF SeqNum, Distance

\* A heartbeat makes every answer one heartbeat older, up to the wrap.
LEMMA DistanceNext ==
    ASSUME NEW s \in SeqNum, NEW t \in SeqNum, Distance(s, t) + 1 < SeqModulus
    PROVE  Distance(s, NextSeq(t)) = Distance(s, t) + 1
BY NextSeqValue, SeqModulusAssumption DEF SeqNum, Distance

-----------------------------------------------------------------------------
(* Types. *)

\* Every datagram in flight after startServiceDiscovery is a message.
LEMMA FlightType ==
    ASSUME net \subseteq Message, NEW s \in SeqNum
    PROVE  StillInFlight(s) \cup Requests(s) \subseteq Message
BY DEF StillInFlight, Requests, Message

\* Type correctness of the heartbeat protocol: no interleaving of the io
\* thread, the plugin's threads, the backends and the network takes the
\* engine's counters, the table or the datagrams out of their types.
THEOREM TypeCorrect == Spec => []TypeOK
<1>1. Init => TypeOK
  <2> SUFFICES ASSUME Init PROVE TypeOK
    OBVIOUS
  <2>1. 0 \in SeqNum
    BY SeqModulusAssumption, MaxSkippedAssumption DEF SeqNum
  <2>2. NextSeq(0) \in SeqNum
    BY <2>1, NextSeqType
  <2>3. Requests(NextSeq(0)) \subseteq Message
    BY <2>2 DEF Requests, Message
  <2>4. 0 \in Nat /\ 0 \in 0 .. MaxResponses
    BY MaxResponsesAssumption
  <2> QED
    BY <2>2, <2>3, <2>4, Zenon DEF Init, TypeOK
<1>2. TypeOK /\ [Next]_vars => TypeOK'
  <2> SUFFICES ASSUME TypeOK, [Next]_vars PROVE TypeOK'
    OBVIOUS
  <2> USE DEF TypeOK, shutdownVars, Handling
  <2>0. NextSeq(0) \in SeqNum
    BY NextSeqType, SeqModulusAssumption, MaxSkippedAssumption DEF SeqNum
  <2>1. ASSUME NEW m \in net, FrontendRead(m) PROVE TypeOK'
    <3>1. [be |-> m.be, seq |-> m.seq] \in Entry
      BY DEF Message, Entry
    <3>2. responses' \in 0 .. MaxResponses
      BY <2>1, MaxResponsesAssumption DEF FrontendRead, ProcessReply
    <3> QED
      BY <2>1, <3>1, <3>2 DEF FrontendRead, ProcessReply
  <2>2. ASSUME NEW m \in net, BackendRead(m) PROVE TypeOK'
    <3>1. net' \subseteq Message
      BY <2>2 DEF BackendRead, DiscoveryReply, Message
    <3> QED
      BY <2>2, <3>1 DEF BackendRead, frontendVars
  <2>3. CASE DeadlineAnswered
    BY <2>3, MaxResponsesAssumption DEF DeadlineAnswered, LatestSequence
  <2>4. CASE DeadlineSkipped
    BY <2>4 DEF DeadlineSkipped
  <2>5. CASE DeadlineExceeded
    BY <2>5 DEF DeadlineExceeded, LatestSequence
  <2>6. CASE WakeUp
    <3>1. CASE shuttingDown
      BY <2>6, <3>1 DEF WakeUp
    <3>2. CASE ~shuttingDown
      <4>1. NextSeq(seq) \in SeqNum
        BY NextSeqType
      <4>2. StillInFlight(NextSeq(seq)) \cup Requests(NextSeq(seq))
              \subseteq Message
        BY <4>1, FlightType
      <4> QED
        BY <2>6, <3>2, <4>1, <4>2 DEF WakeUp, StartServiceDiscovery
    <3> QED
      BY <3>1, <3>2
  <2>7. CASE RequestShutdown
    BY <2>7 DEF RequestShutdown, frontendVars
  <2>8. CASE Shutdown \/ RunStops \/ RunDrained
    BY <2>8 DEF Shutdown, RunStops, RunDrained, frontendVars
  <2>9. ASSUME NEW b \in Removable, RemoveBackend(b) PROVE TypeOK'
    BY <2>9 DEF RemoveBackend, frontendVars
  <2>10. ASSUME NEW b \in Removable, RemoveLastBackend(b) PROVE TypeOK'
    <3>1. CASE shuttingDown
      BY <2>10, <3>1 DEF RemoveLastBackend
    <3>2. CASE ~shuttingDown
      <4>1. net' \subseteq Message
        BY <2>0, <2>10, <3>2 DEF RemoveLastBackend, Requests, Message
      <4> QED
        BY <2>0, <2>10, <3>2, <4>1, MaxResponsesAssumption
        DEF RemoveLastBackend
    <3> QED
      BY <3>1, <3>2
  <2>11. ASSUME NEW b \in Backend, ChangeStatus(b) PROVE TypeOK'
    BY <2>11 DEF ChangeStatus, frontendVars
  <2>12. CASE UNCHANGED vars
    BY <2>12 DEF vars
  <2> QED
    BY <2>1, <2>2, <2>3, <2>4, <2>5, <2>6, <2>7, <2>8, <2>9, <2>10, <2>11,
       <2>12 DEF Next, DeadlineExpired
<1> QED
  BY <1>1, <1>2, PTL DEF Spec

-----------------------------------------------------------------------------
(* The age of the table. *)

\* latestSequence leaves answers to the current heartbeat only.
LEMMA PrunedAge ==
    ASSUME TypeOK
    PROVE  \A e \in LatestSequence(seq) : Distance(e.seq, seq) = 0
BY DistanceRange DEF TypeOK, LatestSequence, Entry

\* Between two heartbeats the table holds the answers to one heartbeat only,
\* the last one anybody answered, and itsSkippedCycles is its age.  OneHeartbeat
\* is inductive given TypeOK: it relates the counter to the age of every
\* entry, which is what survives a heartbeat without answers, and it bounds
\* the counter, which keeps ages below the wrap of the heartbeat number.
THEOREM OneHeartbeatAlways == Spec => []OneHeartbeat
<1>1. Init => OneHeartbeat
  BY MaxSkippedAssumption DEF Init, OneHeartbeat
<1>2. TypeOK /\ OneHeartbeat /\ [Next]_vars => OneHeartbeat'
  <2> SUFFICES ASSUME TypeOK, OneHeartbeat, [Next]_vars PROVE OneHeartbeat'
    OBVIOUS
  <2> USE MaxSkippedAssumption DEF OneHeartbeat, Handling
  <2>1. ASSUME NEW m \in net, FrontendRead(m) PROVE OneHeartbeat'
    <3>1. responses' # 0
      BY <2>1, MaxResponsesAssumption
      DEF FrontendRead, ProcessReply, TypeOK
    <3> QED
      BY <2>1, <3>1 DEF FrontendRead
  <2>2. ASSUME NEW m \in net, BackendRead(m) PROVE OneHeartbeat'
    BY <2>2 DEF BackendRead, frontendVars
  <2>3. CASE DeadlineAnswered
    BY <2>3, PrunedAge DEF DeadlineAnswered
  <2>4. CASE DeadlineSkipped
    BY <2>4 DEF DeadlineSkipped, TypeOK
  <2>5. CASE DeadlineExceeded
    BY <2>5, PrunedAge DEF DeadlineExceeded
  <2>6. CASE WakeUp
    <3>1. CASE shuttingDown
      BY <2>6, <3>1 DEF WakeUp
    <3>2. CASE ~shuttingDown
      <4>1. ASSUME NEW e \in table
            PROVE  Distance(e.seq, NextSeq(seq)) = skipped + 1
        <5>1. e.seq \in SeqNum /\ seq \in SeqNum
          BY DEF TypeOK, Entry
        <5>2. Distance(e.seq, seq) = skipped
          BY <2>6 DEF WakeUp
        <5>3. Distance(e.seq, seq) + 1 < SeqModulus
          BY <5>2, SeqModulusAssumption DEF TypeOK
        <5> QED
          BY <5>1, <5>2, <5>3, DistanceNext
      <4> QED
        BY <2>6, <3>2, <4>1 DEF WakeUp, StartServiceDiscovery
    <3> QED
      BY <3>1, <3>2
  <2>7. CASE RequestShutdown
    BY <2>7 DEF RequestShutdown, frontendVars
  <2>8. CASE Shutdown \/ RunStops \/ RunDrained
    BY <2>8 DEF Shutdown, RunStops, RunDrained, frontendVars
  <2>9. ASSUME NEW b \in Removable, RemoveBackend(b) PROVE OneHeartbeat'
    BY <2>9 DEF RemoveBackend, frontendVars
  <2>10. ASSUME NEW b \in Removable, RemoveLastBackend(b)
         PROVE  OneHeartbeat'
    BY <2>10 DEF RemoveLastBackend
  <2>11. ASSUME NEW b \in Backend, ChangeStatus(b) PROVE OneHeartbeat'
    BY <2>11 DEF ChangeStatus, frontendVars
  <2>12. CASE UNCHANGED vars
    BY <2>12 DEF vars
  <2> QED
    BY <2>1, <2>2, <2>3, <2>4, <2>5, <2>6, <2>7, <2>8, <2>9, <2>10, <2>11,
       <2>12 DEF Next, DeadlineExpired
<1> QED
  BY <1>1, <1>2, TypeCorrect, PTL DEF Spec

\* A response deadline without answers keeps the table or empties it.  It
\* rests on OneHeartbeat: without answers every entry is skipped + 1 heartbeats
\* old, less than the modulus, so latestSequence matches none of them.
THEOREM AllOrNothingAlways == Spec => AllOrNothing
<1> DEFINE Step == phase = "listening" /\ phase' = "sleeping" /\ responses = 0
                     => table' \in {table, {}}
<1>1. TypeOK /\ OneHeartbeat /\ [Next]_vars => [Step]_vars
  <2> SUFFICES ASSUME TypeOK, OneHeartbeat, Next,
                      phase = "listening", phase' = "sleeping", responses = 0
               PROVE  table' \in {table, {}}
    BY DEF vars
  <2>1. DeadlineSkipped \/ DeadlineExceeded
    BY DEF Next, DeadlineExpired, FrontendRead, BackendRead, DeadlineAnswered,
           WakeUp, StartServiceDiscovery, RequestShutdown, Shutdown, RunStops,
           RunDrained, RemoveBackend, RemoveLastBackend, ChangeStatus,
           frontendVars, Handling
  <2>2. CASE DeadlineSkipped
    BY <2>2 DEF DeadlineSkipped
  <2>3. CASE DeadlineExceeded
    <3>1. ASSUME NEW e \in table PROVE e.seq # seq
      <4>1. e.seq \in SeqNum /\ seq \in SeqNum
        BY DEF TypeOK, Entry
      <4>2. Distance(e.seq, seq) # 0
        BY DEF OneHeartbeat, TypeOK
      <4> QED
        BY <4>1, <4>2, DistanceRange
    <3> QED
      BY <2>3, <3>1 DEF DeadlineExceeded, LatestSequence
  <2> QED
    BY <2>1, <2>2, <2>3
<1> QED
  BY <1>1, TypeCorrect, OneHeartbeatAlways, PTL DEF Spec, AllOrNothing
=============================================================================
