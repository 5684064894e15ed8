------------------------- MODULE ServicesOrderProofs -------------------------
(***************************************************************************)
(* The proofs about what the routing table holds at which time: that a     *)
(* backend is active when it has answered, that the admin requests agree   *)
(* with the lists, and that getService returns the backend its forwarder   *)
(* chose.                                                                  *)
(*                                                                         *)
(* Each property has an inductive invariant of its own.  All of them are   *)
(* about entries that are listed, or are being listed by the reply that    *)
(* processReply is working on; ListedAfter says which are after a step.    *)
(***************************************************************************)
EXTENDS ServicesProofs

Answer(b, s) == [be |-> b, seq |-> s]
Listed(e, u) == \E i \in DOMAIN lists[u] : lists[u][i] = e
ListedNext(e, u) == \E i \in DOMAIN lists'[u] : lists'[u][i] = e

\* The reply of b to heartbeat s is being worked on.
Replying(b, s) == reply.op = "reply" /\ reply.be = b /\ reply.seq = s

-----------------------------------------------------------------------------
(* What the steps do, entry by entry. *)

LEMMA ListedEntry ==
    ASSUME TypeOK, NEW u \in Uri, NEW e, Listed(e, u)
    PROVE  e \in Entry /\ e.be \in Backend /\ e.seq \in SeqNum
           /\ e = Answer(e.be, e.seq)
BY TypeOKLists, ListFacts DEF Listed, Entry, Answer

LEMMA ReplyFacts ==
    ASSUME TypeOK, reply.op = "reply"
    PROVE  /\ reply \in [op : {"reply"}, be : Backend, seq : SeqNum, done : Nat]
           /\ reply.be \in Backend /\ reply.seq \in SeqNum /\ reply.done \in Nat
BY DEF TypeOK, Nothing

LEMMA AddOrderFacts ==
    ASSUME NEW b \in Backend
    PROVE  /\ Len(AddOrder(b)) \in Nat
           /\ Len(AddOrder(b)) = 2 * Len(Offer[b])
           /\ DOMAIN AddOrder(b) = 1 .. Len(AddOrder(b))
           /\ Offer[b] # <<>> => Len(AddOrder(b)) > 0
           /\ \A i \in DOMAIN AddOrder(b) : AddOrder(b)[i] \in Uri
<1>1. Offer[b] \in Seq(Service) /\ Len(Offer[b]) \in Nat
  BY OfferAssumption, LenProperties
<1>2. AddOrder(b) \in Seq(Uri) /\ DOMAIN AddOrder(b) = 1 .. 2 * Len(Offer[b])
  BY AddOrderType DEF AddOrder
<1>3. \A i \in DOMAIN AddOrder(b) : AddOrder(b)[i] \in Uri
  BY <1>2, ElementOfSeq, LenProperties
<1>4. Len(AddOrder(b)) = 2 * Len(Offer[b])
  BY <1>1, <1>2, LenProperties
<1>5. Offer[b] # <<>> => Len(Offer[b]) # 0
  BY <1>1, EmptySeq
<1> QED
  BY <1>1, <1>2, <1>3, <1>4, <1>5, LenProperties

\* Listed before or the entry that addService adds: nothing else is listed
\* after a step.
LEMMA ListedAfter ==
    ASSUME TypeOK, SameBackends, [Next]_vars, NEW u \in Uri,
           NEW j \in DOMAIN lists'[u]
    PROVE  \/ Listed(lists'[u][j], u)
           \/ /\ AddService
              /\ u = AddOrder(reply.be)[reply.done + 1]
              /\ lists'[u][j] = Answer(reply.be, reply.seq)
<1>1. ListsOK
  BY TypeOKLists
<1>2. CASE AddService
  <2> DEFINE e == [be |-> reply.be, seq |-> reply.seq]
  <2>1. CASE u # AddOrder(reply.be)[reply.done + 1]
    <3>1. lists'[u] = lists[u]
      BY <1>2, <2>1, AddServiceAt
    <3> QED
      BY <3>1 DEF Listed
  <2>2. CASE u = AddOrder(reply.be)[reply.done + 1]
    <3>1. lists'[u] = Append(lists[u], e) /\ e \in Entry
      BY <1>2, <2>2, AddServiceAt
    <3>2. e = Answer(reply.be, reply.seq)
      BY DEF Answer
    <3> HIDE DEF e
    <3>3. \/ \E i \in DOMAIN lists[u] : lists[u][i] = lists'[u][j]
          \/ lists'[u][j] = e
      BY <1>1, <3>1, ListFacts, AppendProperties
    <3> QED
      BY <1>2, <2>2, <3>2, <3>3 DEF Listed
  <2> QED
    BY <2>1, <2>2
<1>3. CASE Erase
  BY <1>1, <1>3, EraseSurvivors DEF Listed
<1>4. CASE Restart
  BY <1>1, <1>4, ListFacts DEF Restart, Listed
<1>5. CASE ~AddService /\ ~Erase /\ ~Restart
  BY <1>5, QuietSteps DEF Listed
<1> QED
  BY <1>2, <1>3, <1>4, <1>5

\* An entry stays listed unless it is doomed.
LEMMA StaysListed ==
    ASSUME TypeOK, SameBackends, [Next]_vars, NEW u \in Uri, NEW e,
           Listed(e, u), Erase => ~Doomed(u, e)
    PROVE  ListedNext(e, u)
<1>1. ListsOK
  BY TypeOKLists
<1>2. PICK m \in DOMAIN lists[u] : lists[u][m] = e
  BY DEF Listed
<1>3. CASE AddService
  <2> DEFINE d == [be |-> reply.be, seq |-> reply.seq]
  <2>1. CASE u # AddOrder(reply.be)[reply.done + 1]
    <3>1. lists'[u] = lists[u]
      BY <1>3, <2>1, AddServiceAt
    <3> QED
      BY <1>2, <3>1 DEF Listed, ListedNext
  <2>2. CASE u = AddOrder(reply.be)[reply.done + 1]
    <3>1. lists'[u] = Append(lists[u], d) /\ d \in Entry
      BY <1>3, <2>2, AddServiceAt
    <3> HIDE DEF d
    <3>2. lists[u] \in Seq(Entry) /\ Len(lists[u]) \in Nat /\ m \in 1 .. Len(lists[u])
      BY <1>1, ListFacts
    <3>3. m \in DOMAIN lists'[u] /\ lists'[u][m] = e
      BY <1>2, <3>1, <3>2, AppendProperties, LenProperties
    <3> QED
      BY <3>3 DEF Listed, ListedNext
  <2> QED
    BY <2>1, <2>2
<1>4. CASE Erase
  BY <1>1, <1>2, <1>4, EraseSurvivors DEF Listed, ListedNext
<1>5. CASE Restart
  BY <1>1, <1>2, <1>5, ListFacts DEF Restart
<1>6. CASE ~AddService /\ ~Erase /\ ~Restart
  BY <1>2, <1>6, QuietSteps DEF Listed, ListedNext
<1> QED
  BY <1>3, <1>4, <1>5, <1>6

\* addService lists its entry.
LEMMA AddServiceLists ==
    ASSUME TypeOK, AddService
    PROVE  ListedNext(Answer(reply.be, reply.seq),
                      AddOrder(reply.be)[reply.done + 1])
<1> DEFINE e == [be |-> reply.be, seq |-> reply.seq]
           u == AddOrder(reply.be)[reply.done + 1]
<1>1. u \in Uri /\ e \in Entry /\ lists'[u] = Append(lists[u], e)
  BY AddServiceAt
<1>2. e = Answer(reply.be, reply.seq)
  BY DEF Answer
<1> HIDE DEF e
<1>3. lists[u] \in Seq(Entry) /\ Len(lists[u]) \in Nat
  BY <1>1, TypeOKLists, ListFacts
<1>4. /\ Len(lists[u]) + 1 \in DOMAIN lists'[u]
      /\ lists'[u][Len(lists[u]) + 1] = e
  BY <1>1, <1>3, AppendProperties, LenProperties
<1> QED
  BY <1>2, <1>4 DEF ListedNext

\* When latestSequence is through, what is listed answers its heartbeat.
LEMMA PrunedIsCurrent ==
    ASSUME TableInv, FinishLatestSequence, NEW u \in Uri, NEW i \in DOMAIN lists[u]
    PROVE  writing.op = "prune" /\ lists[u][i].seq = writing.seq
<1>1. writing.op = "prune" /\ writing # Nothing /\ LoopsDone
  BY DEF FinishLatestSequence, Nothing
<1>2. DoomedAt(u) = {}
  BY <1>1, LoopsDoneErased
<1> QED
  BY <1>1, <1>2 DEF DoomedAt, Doomed

-----------------------------------------------------------------------------
(* Active at once. *)

\* Nobody answers while the io thread cleans up; every reply announces
\* something; the backend that removeBackend is removing is retired, unless a
\* new reply of it is waiting for the lock.
PhaseInv ==
    /\ writing.op = "prune" => writing.seq = cur /\ reply = Nothing
    /\ reply.op = "reply" =>
           /\ reply.done <= Len(AddOrder(reply.be))
           /\ Offer[reply.be] # <<>>
           /\ reply.seq = cur => reply.be \in answered
    /\ \A b \in answered : Offer[b] # <<>>
    /\ writing.op = "remove" =>
           \/ writing.be \in retired
           \/ Replying(writing.be, cur) /\ reply.done = 0

\* What the reply in progress has added so far is listed.
ReplyListed ==
    reply.op = "reply" /\ reply.be \notin retired =>
        \A i \in 1 .. reply.done :
            Listed(Answer(reply.be, reply.seq), AddOrder(reply.be)[i])

\* What the answers to the current heartbeat have added is listed.
AnsweredListed ==
    \A b \in answered \ retired :
        \/ Replying(b, cur)
        \/ \A i \in DOMAIN AddOrder(b) : Listed(Answer(b, cur), AddOrder(b)[i])

ActiveInv == PhaseInv /\ ReplyListed /\ AnsweredListed

\* The steps that neither answer, nor take nor release itsMutex.
LEMMA OtherSteps ==
    ASSUME [Next]_vars,
           ~ \E b \in Backend : \E s \in expected : ProcessReply(b, s),
           ~AddService, ~FinishReply, ~LatestSequence, ~FinishLatestSequence,
           ~SkipCycle, ~FinishRemove, ~Restart,
           ~ \E t \in Thread : \E s \in RemoveService : RemoveBackend(t, s)
    PROVE  UNCHANGED <<info, writing, reply, cur, skipped, heard, expected,
                       answered, retired>>
BY DEF Next, IoNext, HttpNext, vars, tableVars, cycleVars, GetSlot, GetService,
       SignalBackendConnection, SetBackendAlive, Erase

\* The steps that send no heartbeat.
LEMMA CycleSteps ==
    ASSUME [Next]_vars, ~FinishLatestSequence, ~SkipCycle, ~Restart
    PROVE  /\ cur' = cur /\ skipped' = skipped /\ expected' = expected
           /\ answered \subseteq answered'
BY DEF Next, IoNext, HttpNext, vars, cycleVars, ProcessReply, AddService,
       FinishReply, LatestSequence, GetSlot, GetService,
       SignalBackendConnection, SetBackendAlive, RemoveBackend, Erase,
       FinishRemove

LEMMA PhaseStep ==
    ASSUME TypeOK, PhaseInv, [Next]_vars
    PROVE  PhaseInv'
<1>1. ASSUME NEW b \in Backend, NEW s \in expected, ProcessReply(b, s)
      PROVE  PhaseInv'
  <2>1. /\ reply = Nothing
        /\ reply' = [op |-> "reply", be |-> b, seq |-> s, done |-> 0]
        /\ Offer[b] # <<>> /\ writing.op # "prune"
        /\ writing' = writing /\ cur' = cur
    BY <1>1 DEF ProcessReply
  <2>2. IF s = cur THEN answered' = answered \cup {b} /\ retired' = retired \ {b}
                   ELSE answered' = answered /\ retired' = retired
    BY <1>1 DEF ProcessReply
  <2>3. 0 <= Len(AddOrder(b))
    BY AddOrderFacts
  <2> QED
    BY <2>1, <2>2, <2>3 DEF PhaseInv, Replying, Nothing
<1>2. CASE AddService
  <2>1. writing = Nothing
    BY <1>2 DEF AddService, CanWrite
  <2>2. /\ reply' = [reply EXCEPT !.done = reply.done + 1]
        /\ reply.op = "reply" /\ reply.done < Len(AddOrder(reply.be))
        /\ UNCHANGED <<writing, cur, answered, retired>>
    BY <1>2 DEF AddService, cycleVars
  <2>3. reply \in [op : {"reply"}, be : Backend, seq : SeqNum, done : Nat]
    BY <2>2, ReplyFacts
  <2>4. Len(AddOrder(reply.be)) \in Nat
    BY <2>3, AddOrderFacts
  <2>5. /\ reply'.op = "reply" /\ reply'.be = reply.be /\ reply'.seq = reply.seq
        /\ reply'.done <= Len(AddOrder(reply.be))
    BY <2>2, <2>3, <2>4
  <2> QED
    BY <2>1, <2>2, <2>5 DEF PhaseInv, Nothing
<1>3. CASE FinishReply
  <2>1. reply.op = "reply" /\ reply.done = Len(AddOrder(reply.be))
    BY <1>3 DEF FinishReply
  <2>2. reply.done # 0
    BY <2>1, ReplyFacts, AddOrderFacts DEF PhaseInv
  <2>3. reply' = Nothing /\ UNCHANGED <<writing, cur, answered, retired>>
    BY <1>3 DEF FinishReply
  <2> QED
    BY <2>2, <2>3 DEF PhaseInv, Nothing
<1>4. CASE LatestSequence
  BY <1>4 DEF LatestSequence, cycleVars, PhaseInv, Nothing
<1>5. CASE FinishLatestSequence
  BY <1>5 DEF FinishLatestSequence, NextHeartbeat, PhaseInv, Nothing
<1>6. CASE SkipCycle
  BY <1>6 DEF SkipCycle, NextHeartbeat, PhaseInv, Nothing, Replying
<1>7. ASSUME NEW t \in Thread, NEW s \in RemoveService, RemoveBackend(t, s)
      PROVE  PhaseInv'
  BY <1>7 DEF RemoveBackend, PhaseInv
<1>8. CASE FinishRemove
  BY <1>8 DEF FinishRemove, cycleVars, PhaseInv, Nothing
<1>9. CASE Restart
  BY <1>9 DEF Restart, PhaseInv, Nothing
<1>10. CASE UNCHANGED <<writing, reply, cur, answered, retired>>
  BY <1>10 DEF PhaseInv, Replying
<1> QED
  BY <1>1, <1>2, <1>3, <1>4, <1>5, <1>6, <1>7, <1>8, <1>9, <1>10, OtherSteps

\* Only a new reply makes a backend one that has not failed.
LEMMA RetiredStays ==
    ASSUME [Next]_vars, ~Restart,
           ~ \E b \in Backend : \E s \in expected : ProcessReply(b, s)
    PROVE  retired \subseteq retired'
BY DEF Next, IoNext, HttpNext, vars, cycleVars, AddService, FinishReply,
       LatestSequence, FinishLatestSequence, SkipCycle, NextHeartbeat, GetSlot,
       GetService, SignalBackendConnection, SetBackendAlive, RemoveBackend,
       Erase, FinishRemove

LEMMA ReplyListedStep ==
    ASSUME TypeOK, SameBackends, PhaseInv, ReplyListed, [Next]_vars
    PROVE  ReplyListed'
<1> SUFFICES ASSUME reply'.op = "reply", reply'.be \notin retired',
                    NEW i \in 1 .. reply'.done
             PROVE  ListedNext(Answer(reply'.be, reply'.seq),
                               AddOrder(reply'.be)[i])
  BY DEF ReplyListed, Listed, ListedNext
<1>1. ASSUME NEW b \in Backend, NEW s \in expected, ProcessReply(b, s)
      PROVE  FALSE
  BY <1>1 DEF ProcessReply
<1>2. ~Restart /\ ~FinishReply
  BY DEF Restart, FinishReply, Nothing
<1>3. retired \subseteq retired'
  BY <1>1, <1>2, RetiredStays
<1>4. CASE AddService
  <2>1. reply \in [op : {"reply"}, be : Backend, seq : SeqNum, done : Nat]
    BY <1>4, ReplyFacts DEF AddService
  <2>2. reply' = [reply EXCEPT !.done = reply.done + 1]
    BY <1>4 DEF AddService
  <2>3. /\ reply'.be = reply.be /\ reply'.seq = reply.seq
        /\ i \in 1 .. reply.done \/ i = reply.done + 1
        /\ reply.op = "reply" /\ reply.be \notin retired
    BY <1>3, <2>1, <2>2
  <2>4. CASE i = reply.done + 1
    BY <1>4, <2>3, <2>4, AddServiceLists
  <2>5. CASE i \in 1 .. reply.done
    <3>1. Listed(Answer(reply.be, reply.seq), AddOrder(reply.be)[i])
      BY <2>3, <2>5 DEF ReplyListed
    <3>2. ~Erase
      BY <1>4 DEF AddService, Erase, CanWrite
    <3>3. AddOrder(reply.be)[i] \in Uri
      <4>1. i \in DOMAIN AddOrder(reply.be)
        BY <1>4, <2>1, <2>5, AddOrderFacts DEF AddService
      <4> QED
        BY <2>1, <4>1, AddOrderFacts
    <3> QED
      BY <2>3, <3>1, <3>2, <3>3, StaysListed
  <2> QED
    BY <2>3, <2>4, <2>5
<1>5. CASE ~AddService
  <2>1. reply' = reply
    BY <1>1, <1>2, <1>5
       DEF Next, IoNext, HttpNext, vars, LatestSequence, FinishLatestSequence,
           SkipCycle, GetSlot, GetService, SignalBackendConnection,
           SetBackendAlive, RemoveBackend, Erase, FinishRemove
  <2>2. reply \in [op : {"reply"}, be : Backend, seq : SeqNum, done : Nat]
    BY <2>1, ReplyFacts
  <2> DEFINE e == Answer(reply.be, reply.seq)
             u == AddOrder(reply.be)[i]
  <2>3. Listed(e, u)
    BY <1>3, <2>1 DEF ReplyListed
  <2>4. u \in Uri
    <3>1. i \in DOMAIN AddOrder(reply.be)
      BY <2>1, <2>2, AddOrderFacts DEF PhaseInv
    <3> QED
      BY <2>2, <3>1, AddOrderFacts
  <2>5. Erase => ~Doomed(u, e)
    <3>1. reply # Nothing /\ reply.be \notin retired /\ reply.done # 0
      BY <1>3, <2>1, <2>2 DEF Nothing
    <3> QED
      BY <3>1 DEF Doomed, PhaseInv, Answer
  <2> HIDE DEF e, u
  <2>6. ListedNext(e, u)
    BY <2>3, <2>4, <2>5, StaysListed
  <2> QED
    BY <2>1, <2>6 DEF e, u
<1> QED
  BY <1>4, <1>5

LEMMA AnsweredListedStep ==
    ASSUME TypeOK, SameBackends, ActiveInv, [Next]_vars
    PROVE  AnsweredListed'
<1> DEFINE AllListed(b) == \A i \in DOMAIN AddOrder(b) :
                               Listed(Answer(b, cur), AddOrder(b)[i])
           AllListedNext(b) == \A i \in DOMAIN AddOrder(b) :
                                   ListedNext(Answer(b, cur'), AddOrder(b)[i])
<1> SUFFICES ASSUME NEW b \in answered', b \notin retired'
             PROVE  Replying(b, cur)' \/ AllListedNext(b)
  BY DEF AnsweredListed, Listed, ListedNext
<1>1. PhaseInv /\ ReplyListed /\ AnsweredListed
  BY DEF ActiveInv
<1>2. ASSUME b \in Backend, AllListed(b), cur' = cur,
             Erase => ~(writing.op = "remove" /\ writing.be = b)
      PROVE  AllListedNext(b)
  <2> SUFFICES ASSUME NEW i \in DOMAIN AddOrder(b)
               PROVE  ListedNext(Answer(b, cur), AddOrder(b)[i])
    BY <1>2
  <2>1. AddOrder(b)[i] \in Uri /\ Listed(Answer(b, cur), AddOrder(b)[i])
    BY <1>2, AddOrderFacts
  <2>2. Erase => ~Doomed(AddOrder(b)[i], Answer(b, cur))
    BY <1>1, <1>2 DEF PhaseInv, Doomed, Answer
  <2> QED
    BY <2>1, <2>2, StaysListed
<1>3. ASSUME NEW c \in Backend, NEW s \in expected, ProcessReply(c, s)
      PROVE  Replying(b, cur)' \/ AllListedNext(b)
  <2>1. /\ reply = Nothing /\ cur' = cur
        /\ reply' = [op |-> "reply", be |-> c, seq |-> s, done |-> 0]
    BY <1>3 DEF ProcessReply
  <2>2. IF s = cur THEN answered' = answered \cup {c} /\ retired' = retired \ {c}
                   ELSE answered' = answered /\ retired' = retired
    BY <1>3 DEF ProcessReply
  <2>3. CASE b = c /\ s = cur
    BY <2>1, <2>3 DEF Replying
  <2>4. CASE ~(b = c /\ s = cur)
    <3>1. b \in answered \ retired
      BY <2>2, <2>4
    <3>2. AllListed(b)
      BY <1>1, <2>1, <3>1 DEF AnsweredListed, Replying, Nothing
    <3>3. lists' = lists
      BY <1>3 DEF ProcessReply, tableVars
    <3> QED
      BY <2>1, <3>2, <3>3 DEF Listed, ListedNext
  <2> QED
    BY <2>3, <2>4
<1>4. CASE FinishLatestSequence \/ SkipCycle \/ Restart
  BY <1>4 DEF FinishLatestSequence, SkipCycle, NextHeartbeat, Restart
<1>5. ASSUME ~(FinishLatestSequence \/ SkipCycle \/ Restart),
             ~ \E c \in Backend : \E s \in expected : ProcessReply(c, s)
      PROVE  Replying(b, cur)' \/ AllListedNext(b)
  <2>1. cur' = cur /\ answered' = answered
    BY <1>5 DEF Next, IoNext, HttpNext, vars, cycleVars, AddService, FinishReply,
                LatestSequence, GetSlot, GetService, SignalBackendConnection,
                SetBackendAlive, RemoveBackend, Erase, FinishRemove
  <2>2. b \in answered /\ b \notin retired /\ b \in Backend
    BY <1>5, <2>1, RetiredStays DEF TypeOK
  <2>3. CASE Replying(b, cur) /\ FinishReply
    <3>1. /\ reply.op = "reply" /\ reply.be = b /\ reply.seq = cur
          /\ reply.done = Len(AddOrder(b))
      BY <2>3 DEF Replying, FinishReply
    <3>2. \A i \in 1 .. Len(AddOrder(b)) : Listed(Answer(b, cur), AddOrder(b)[i])
      BY <1>1, <2>2, <3>1 DEF ReplyListed
    <3>3. AllListed(b)
      BY <2>2, <3>2, AddOrderFacts
    <3>4. lists' = lists
      BY <2>3 DEF FinishReply
    <3> QED
      BY <2>1, <3>3, <3>4 DEF Listed, ListedNext
  <2>4. CASE Replying(b, cur) /\ ~FinishReply
    <3>1. reply # Nothing
      BY <2>4 DEF Replying, Nothing
    <3>2. CASE AddService
      <4>1. reply \in [op : {"reply"}, be : Backend, seq : SeqNum, done : Nat]
        BY <2>4, ReplyFacts DEF Replying
      <4>2. reply' = [reply EXCEPT !.done = reply.done + 1]
        BY <3>2 DEF AddService
      <4>3. /\ reply'.op = reply.op /\ reply'.be = reply.be
            /\ reply'.seq = reply.seq
        BY <4>1, <4>2
      <4> QED
        BY <2>1, <2>4, <4>3 DEF Replying
    <3>3. CASE ~AddService
      <4>1. reply' = reply
        BY <1>5, <2>4, <3>1, <3>3
           DEF Next, IoNext, HttpNext, vars, LatestSequence, GetSlot, GetService,
               SignalBackendConnection, SetBackendAlive, RemoveBackend, Erase,
               FinishRemove
      <4> QED
        BY <2>1, <2>4, <4>1 DEF Replying
    <3> QED
      BY <3>2, <3>3
  <2>5. CASE ~Replying(b, cur)
    <3>1. AllListed(b)
      BY <1>1, <2>2, <2>5 DEF AnsweredListed
    <3>2. ~(writing.op = "remove" /\ writing.be = b)
      BY <1>1, <2>2, <2>5 DEF PhaseInv
    <3> QED
      BY <1>2, <2>1, <2>2, <3>1, <3>2
  <2> QED
    BY <2>3, <2>4, <2>5
<1> QED
  BY <1>3, <1>4, <1>5

LEMMA ActiveInvariant == Spec => [](TableInv /\ ActiveInv)
<1>1. Init => ActiveInv
  BY DEF Init, ActiveInv, PhaseInv, ReplyListed, AnsweredListed, Nothing
<1>2. TableInv /\ ActiveInv /\ [Next]_vars => ActiveInv'
  BY PhaseStep, ReplyListedStep, AnsweredListedStep DEF TableInv, ActiveInv
<1> QED
  BY <1>1, <1>2, TableInvariant, PTL DEF Spec

\* The comment at BackendForwarder.cpp:79 fears otherwise: when latestSequence
\* has cleaned up, a backend that answered the current heartbeat is active in
\* list and forwarder of each of its services, in the cycle it joins already,
\* and whatever removals, late answers and duplicates there were.
THEOREM ActiveAtOnceAlways == Spec => []ActiveAtOnce
<1>1. ASSUME TableInv, ActiveInv
      PROVE  ActiveAtOnce
  <2> SUFFICES ASSUME writing.op = "prune",
                      NEW b \in answered \ retired, NEW u \in ToSet(AddOrder(b))
               PROVE  /\ Answer(b, cur) \in ToSet(lists[u])
                      /\ b \in ToSet(fwd[u])
    BY DEF ActiveAtOnce, Answer
  <2>1. TypeOK /\ SameBackends /\ b \in Backend
    BY <1>1 DEF TableInv, TypeOK
  <2>2. PICK i \in DOMAIN AddOrder(b) : u = AddOrder(b)[i]
    BY DEF ToSet
  <2>3. ~Replying(b, cur)
    BY <1>1 DEF ActiveInv, PhaseInv, Replying, Nothing
  <2>4. u \in Uri /\ Listed(Answer(b, cur), u)
    BY <1>1, <2>1, <2>2, <2>3, AddOrderFacts DEF ActiveInv, AnsweredListed
  <2>5. PICK j \in DOMAIN lists[u] : lists[u][j] = Answer(b, cur)
    BY <2>4 DEF Listed
  <2>6. \E j1 \in DOMAIN lists[u] : lists[u][j1].be = b
    BY <2>5 DEF Answer
  <2>7. \E k \in DOMAIN fwd[u] : fwd[u][k] = b
    BY <2>1, <2>4, <2>6, TypeOKLists, SameBackendsHas
  <2> QED
    BY <2>5, <2>7 DEF ToSet
<1>2. TableInv /\ ActiveInv => ActiveAtOnce
  BY <1>1
<1> QED
  BY <1>2, ActiveInvariant, PTL

-----------------------------------------------------------------------------
(* Admin requests. *)

\* A listed entry of a backend with an admin request is in the table of admin
\* requests, or its reply will put it there.
InfoListed ==
    \A u \in Uri : \A i \in DOMAIN lists[u] :
        lists[u][i].be \in InfoBackend =>
            \/ lists[u][i] \in info
            \/ Replying(lists[u][i].be, lists[u][i].seq)

\* An admin request is of a backend that is listed, or has failed, or is to be
\* listed or cleaned up in this cycle.
InfoNeeded ==
    \A e \in info :
        \/ e.be \in retired
        \/ e.be \in answered
        \/ writing.op = "prune" /\ e.seq # cur
        \/ \E u \in Uri : Listed(e, u)

\* An answer is counted when processReply is done with it.
HeardInv == answered # {} => heard \/ reply.op = "reply"

InfoInv == InfoListed /\ InfoNeeded /\ HeardInv

LEMMA HeardStep ==
    ASSUME TypeOK, HeardInv, [Next]_vars
    PROVE  HeardInv'
<1>1. ASSUME NEW b \in Backend, NEW s \in expected, ProcessReply(b, s)
      PROVE  HeardInv'
  BY <1>1 DEF ProcessReply, HeardInv
<1>2. CASE AddService
  <2>1. reply \in [op : {"reply"}, be : Backend, seq : SeqNum, done : Nat]
    BY <1>2, ReplyFacts DEF AddService
  <2>2. reply' = [reply EXCEPT !.done = reply.done + 1]
    BY <1>2 DEF AddService
  <2>3. reply'.op = "reply"
    BY <2>1, <2>2
  <2> QED
    BY <2>3 DEF HeardInv
<1>3. CASE FinishReply
  BY <1>3 DEF FinishReply, HeardInv
<1>4. CASE FinishLatestSequence \/ SkipCycle \/ Restart
  BY <1>4 DEF FinishLatestSequence, SkipCycle, NextHeartbeat, Restart, HeardInv
<1>5. CASE UNCHANGED <<heard, reply, answered>>
  BY <1>5 DEF HeardInv
<1> QED
  BY <1>1, <1>2, <1>3, <1>4, <1>5
     DEF Next, IoNext, HttpNext, vars, cycleVars, LatestSequence, GetSlot,
         GetService, SignalBackendConnection, SetBackendAlive, RemoveBackend,
         Erase, FinishRemove

\* A reply in progress goes on, until FinishReply.
LEMMA ReplyingStays ==
    ASSUME TypeOK, [Next]_vars, ~FinishReply, ~Restart,
           NEW b, NEW s, Replying(b, s)
    PROVE  reply'.op = "reply" /\ reply'.be = b /\ reply'.seq = s
<1>1. reply \in [op : {"reply"}, be : Backend, seq : SeqNum, done : Nat]
  BY ReplyFacts DEF Replying
<1>2. CASE AddService
  <2>1. reply' = [reply EXCEPT !.done = reply.done + 1]
    BY <1>2 DEF AddService
  <2> QED
    BY <1>1, <2>1 DEF Replying
<1>3. CASE ~AddService
  <2>1. reply # Nothing
    BY DEF Replying, Nothing
  <2>2. reply' = reply
    BY <1>3, <2>1
       DEF Next, IoNext, HttpNext, vars, ProcessReply, LatestSequence,
           FinishLatestSequence, SkipCycle, GetSlot, GetService,
           SignalBackendConnection, SetBackendAlive, RemoveBackend, Erase,
           FinishRemove
  <2> QED
    BY <2>2 DEF Replying
<1> QED
  BY <1>2, <1>3

LEMMA InfoListedStep ==
    ASSUME TableInv, TypeOK, SameBackends, InfoListed, [Next]_vars
    PROVE  InfoListed'
<1> SUFFICES ASSUME NEW u \in Uri, NEW j \in DOMAIN lists'[u],
                    lists'[u][j].be \in InfoBackend
             PROVE  \/ lists'[u][j] \in info'
                    \/ Replying(lists[u][j].be, lists[u][j].seq)'
  BY DEF InfoListed
<1> DEFINE e == lists'[u][j]
<1>1. ~Restart
  BY TypeOKLists, ListFacts DEF Restart
<1>2. CASE /\ AddService
           /\ u = AddOrder(reply.be)[reply.done + 1]
           /\ e = Answer(reply.be, reply.seq)
  <2>1. Replying(e.be, e.seq) /\ ~FinishReply
    BY <1>2, ReplyFacts DEF AddService, FinishReply, Replying, Answer
  <2> HIDE DEF e
  <2>2. reply'.op = "reply" /\ reply'.be = e.be /\ reply'.seq = e.seq
    BY <1>1, <2>1, ReplyingStays
  <2> QED
    BY <2>2 DEF Replying, e
<1>3. CASE Listed(e, u)
  <2>1. PICK i \in DOMAIN lists[u] : lists[u][i] = e
    BY <1>3 DEF Listed
  <2>2. e \in info \/ Replying(e.be, e.seq)
    BY <2>1 DEF InfoListed
  <2>3. CASE e \in info
    <3>1. CASE FinishLatestSequence
      <4>1. e.seq = writing.seq
        BY <2>1, <3>1, PrunedIsCurrent
      <4> QED
        BY <2>3, <3>1, <4>1 DEF FinishLatestSequence
    <3>2. CASE ~FinishLatestSequence
      <4>1. info \subseteq info'
        BY <1>1, <3>2
           DEF Next, IoNext, HttpNext, vars, tableVars, ProcessReply, AddService,
               FinishReply, AddBackendInfoRequest, LatestSequence, SkipCycle,
               GetSlot, GetService, SignalBackendConnection, SetBackendAlive,
               RemoveBackend, Erase, FinishRemove
      <4> QED
        BY <2>3, <4>1
    <3> QED
      BY <3>1, <3>2
  <2>4. CASE Replying(e.be, e.seq) /\ FinishReply
    <3>1. e = Answer(reply.be, reply.seq)
      <4>1. e = Answer(e.be, e.seq)
        BY <1>3, ListedEntry
      <4> QED
        BY <2>4, <4>1 DEF Replying
    <3>2. Answer(reply.be, reply.seq) \in info'
      BY <2>4 DEF FinishReply, AddBackendInfoRequest, Answer, Replying
    <3> QED
      BY <3>1, <3>2
  <2>5. CASE Replying(e.be, e.seq) /\ ~FinishReply
    <3> HIDE DEF e
    <3>1. reply'.op = "reply" /\ reply'.be = e.be /\ reply'.seq = e.seq
      BY <1>1, <2>5, ReplyingStays
    <3> QED
      BY <3>1 DEF Replying, e
  <2> QED
    BY <2>2, <2>3, <2>4, <2>5
<1> QED
  BY <1>2, <1>3, ListedAfter

\* A backend that has announced something is listed when that is registered.
LEMMA SomethingListed ==
    ASSUME NEW b \in Backend, Offer[b] # <<>>, NEW e,
           \A i \in DOMAIN AddOrder(b) : Listed(e, AddOrder(b)[i])
    PROVE  \E u \in Uri : Listed(e, u)
<1>1. 1 \in DOMAIN AddOrder(b)
  BY AddOrderFacts
<1> QED
  BY <1>1, AddOrderFacts

LEMMA InfoNeededStep ==
    ASSUME TypeOK, SameBackends, ActiveInv, InfoNeeded, HeardInv, [Next]_vars
    PROVE  InfoNeeded'
<1> DEFINE Needed(e) == \/ e.be \in retired'
                        \/ e.be \in answered'
                        \/ writing'.op = "prune" /\ e.seq # cur'
                        \/ \E u \in Uri : ListedNext(e, u)
<1> SUFFICES ASSUME NEW e \in info'
             PROVE  Needed(e)
  BY DEF InfoNeeded, Listed, ListedNext
<1>1. PhaseInv /\ ReplyListed /\ AnsweredListed
  BY DEF ActiveInv
<1>2. ~Restart
  BY DEF Restart
<1>3. CASE FinishReply /\ e = Answer(reply.be, reply.seq)
  <2>1. /\ reply.op = "reply" /\ reply.done = Len(AddOrder(reply.be))
        /\ lists' = lists /\ retired' = retired
    BY <1>3 DEF FinishReply
  <2>2. reply.be \in Backend /\ Offer[reply.be] # <<>>
    BY <1>1, <2>1, ReplyFacts DEF PhaseInv
  <2>3. CASE reply.be \in retired
    BY <1>3, <2>1, <2>3 DEF Answer
  <2>4. CASE reply.be \notin retired
    <3>1. \A i \in DOMAIN AddOrder(reply.be) :
              Listed(Answer(reply.be, reply.seq), AddOrder(reply.be)[i])
      BY <1>1, <2>1, <2>2, <2>4, AddOrderFacts DEF ReplyListed
    <3>2. \E u \in Uri : Listed(Answer(reply.be, reply.seq), u)
      BY <2>2, <3>1, SomethingListed
    <3> QED
      BY <1>3, <2>1, <3>2 DEF Listed, ListedNext
  <2> QED
    BY <2>3, <2>4
<1>4. CASE ~(FinishReply /\ e = Answer(reply.be, reply.seq))
  <2>1. e \in info
    BY <1>2, <1>4
       DEF Next, IoNext, HttpNext, vars, tableVars, ProcessReply, AddService,
           FinishReply, AddBackendInfoRequest, LatestSequence,
           FinishLatestSequence, SkipCycle, GetSlot, GetService,
           SignalBackendConnection, SetBackendAlive, RemoveBackend, Erase,
           FinishRemove, Answer
  <2>2. e \in Entry /\ e.be \in Backend /\ e = Answer(e.be, e.seq)
    BY <2>1 DEF TypeOK, Entry, Answer
  <2>3. CASE FinishLatestSequence
    <3>1. /\ e.seq = cur /\ reply = Nothing
          /\ lists' = lists /\ retired' = retired
      BY <1>1, <2>3 DEF FinishLatestSequence, PhaseInv, NextHeartbeat
    <3>2. CASE e.be \in retired
      BY <3>1, <3>2
    <3>3. CASE e.be \in answered \ retired
      <4>1. ~Replying(e.be, cur)
        BY <3>1 DEF Replying, Nothing
      <4>2. \A i \in DOMAIN AddOrder(e.be) : Listed(Answer(e.be, cur), AddOrder(e.be)[i])
        BY <1>1, <3>3, <4>1 DEF AnsweredListed
      <4>3. Offer[e.be] # <<>>
        BY <1>1, <3>3 DEF PhaseInv
      <4>4. \A i \in DOMAIN AddOrder(e.be) : Listed(e, AddOrder(e.be)[i])
        BY <2>2, <3>1, <4>2
      <4>5. \E u \in Uri : Listed(e, u)
        BY <2>2, <4>3, <4>4, SomethingListed
      <4> QED
        BY <3>1, <4>5 DEF Listed, ListedNext
    <3>4. CASE \E u \in Uri : Listed(e, u)
      BY <3>1, <3>4 DEF Listed, ListedNext
    <3> QED
      BY <2>1, <3>1, <3>2, <3>3, <3>4 DEF InfoNeeded
  <2>4. CASE SkipCycle
    <3>1. /\ answered = {} /\ writing.op # "prune" /\ lists' = lists
          /\ retired' = retired
      BY <2>4 DEF SkipCycle, HeardInv, NextHeartbeat, tableVars, Nothing
    <3>2. e.be \in retired \/ \E u \in Uri : Listed(e, u)
      BY <2>1, <3>1 DEF InfoNeeded
    <3> QED
      BY <3>1, <3>2 DEF Listed, ListedNext
  <2>5. CASE ~FinishLatestSequence /\ ~SkipCycle
    <3>1. /\ cur' = cur /\ answered \subseteq answered'
          /\ retired \subseteq retired' \cup answered'
          /\ writing.op = "prune" => writing' = writing
      <4>1. cur' = cur /\ answered \subseteq answered'
        BY <1>2, <2>5, CycleSteps
      <4>2. retired \subseteq retired' \cup answered'
        <5>1. ASSUME NEW b \in Backend, NEW s \in expected, ProcessReply(b, s)
              PROVE  retired \subseteq retired' \cup answered'
          BY <5>1 DEF ProcessReply
        <5> QED
          BY <1>2, <5>1, RetiredStays
      <4>3. writing.op = "prune" => writing' = writing
        <5> SUFFICES ASSUME writing.op = "prune"
                     PROVE  writing' = writing
          OBVIOUS
        <5>1. /\ ~LatestSequence /\ ~FinishRemove
              /\ ~ \E t \in Thread : \E s \in RemoveService : RemoveBackend(t, s)
          BY DEF LatestSequence, FinishRemove, RemoveBackend, CanWrite, Nothing
        <5>2. CASE \/ AddService \/ FinishReply
                   \/ \E b \in Backend : \E s \in expected : ProcessReply(b, s)
          BY <5>2 DEF AddService, FinishReply, ProcessReply
        <5> QED
          BY <1>2, <2>5, <5>1, <5>2, OtherSteps
      <4> QED
        BY <4>1, <4>2, <4>3
    <3>2. CASE e.be \in retired \/ e.be \in answered
               \/ (writing.op = "prune" /\ e.seq # cur)
      BY <3>1, <3>2
    <3>3. ASSUME NEW u \in Uri, Listed(e, u)
          PROVE  Needed(e)
      <4>1. CASE Erase => ~Doomed(u, e)
        BY <3>3, <4>1, StaysListed
      <4>2. CASE Erase /\ Doomed(u, e)
        <5>1. \/ writing.op = "prune" /\ e.seq # cur
              \/ e.be \in retired
              \/ e.be \in answered
          BY <1>1, <4>2 DEF Doomed, PhaseInv, Replying
        <5> QED
          BY <3>2, <5>1
      <4> QED
        BY <4>1, <4>2
    <3> QED
      BY <2>1, <3>2, <3>3 DEF InfoNeeded
  <2> QED
    BY <2>3, <2>4, <2>5
<1> QED
  BY <1>3, <1>4

LEMMA InfoInvariant == Spec => [](TableInv /\ ActiveInv /\ InfoInv)
<1>1. Init => InfoInv
  BY DEF Init, InfoInv, InfoListed, InfoNeeded, HeardInv, NoEntries
<1>2. TableInv /\ ActiveInv /\ InfoInv /\ [Next]_vars => InfoInv'
  BY HeardStep, InfoListedStep, InfoNeededStep DEF TableInv, InfoInv
<1> QED
  BY <1>1, <1>2, ActiveInvariant, PTL DEF Spec

\* getInfoRequestBackendList lists every backend that services are routed to,
\* and no other except those that failed a request: although latestSequence
\* cleans the two tables in separate loops, and removeBackend only one.
THEOREM InfoAlwaysMatches == Spec => []InfoMatchesRoutes
<1>1. ASSUME TableInv, ActiveInv, InfoInv
      PROVE  InfoMatchesRoutes
  <2> SUFFICES ASSUME reply = Nothing, writing = Nothing, NEW b \in InfoBackend
               PROVE  /\ (\E u \in Uri : b \in ToSet(fwd[u])) => b \in InfoRequestBackends
                      /\ b \in InfoRequestBackends =>
                             \/ \E u \in Uri : b \in ToSet(fwd[u])
                             \/ b \in retired
    BY DEF InfoMatchesRoutes
  <2>1. TypeOK /\ SameBackends /\ ListsOK /\ b \in Backend
    BY <1>1, TypeOKLists, OfferAssumption DEF TableInv
  <2>2. ASSUME NEW u \in Uri
        PROVE  b \in ToSet(fwd[u]) <=> \E i \in DOMAIN lists[u] : lists[u][i].be = b
    BY <2>1, SameBackendsHas DEF ToSet
  <2>3. ASSUME NEW u \in Uri, b \in ToSet(fwd[u])
        PROVE  b \in InfoRequestBackends
    <3>1. PICK i \in DOMAIN lists[u] : lists[u][i].be = b
      BY <2>2, <2>3
    <3>2. lists[u][i] \in info
      BY <1>1, <3>1 DEF InfoInv, InfoListed, Replying, Nothing
    <3> QED
      BY <3>1, <3>2 DEF InfoRequestBackends
  <2>4. ASSUME b \in InfoRequestBackends, b \notin retired
        PROVE  \E u \in Uri : b \in ToSet(fwd[u])
    <3>1. PICK e \in info : e.be = b
      BY <2>4 DEF InfoRequestBackends
    <3>2. \E d : d.be = b /\ \E u \in Uri : Listed(d, u)
      <4>1. CASE b \in answered
        <5>1. \A i \in DOMAIN AddOrder(b) : Listed(Answer(b, cur), AddOrder(b)[i])
          BY <1>1, <2>4, <4>1 DEF ActiveInv, AnsweredListed, Replying, Nothing
        <5>2. \E u \in Uri : Listed(Answer(b, cur), u)
          BY <1>1, <2>1, <4>1, <5>1, SomethingListed DEF ActiveInv, PhaseInv
        <5> QED
          BY <5>2 DEF Answer
      <4>2. CASE b \notin answered
        BY <1>1, <2>4, <3>1, <4>2 DEF InfoInv, InfoNeeded, Nothing
      <4> QED
        BY <4>1, <4>2
    <3> QED
      BY <2>2, <3>2 DEF Listed
  <2> QED
    BY <2>3, <2>4
<1>2. TableInv /\ ActiveInv /\ InfoInv => InfoMatchesRoutes
  BY <1>1
<1> QED
  BY <1>2, InfoInvariant, PTL

-----------------------------------------------------------------------------
(* The backend chosen is the backend returned. *)

\* How many heartbeats ago s was the current one, when c is.
Age(s, c) == IF s <= c THEN c - s ELSE c - s + SeqModulus

\* Every slot of a forwarder holds the backend of the entry at that place.
Aligned ==
    \A u \in Uri : \A i \in DOMAIN lists[u] : fwd[u][i] = lists[u][i].be

\* No answer is so old that its number could be the next heartbeat's.
AgeInv ==
    /\ \A u \in Uri : \A i \in DOMAIN lists[u] :
           Age(lists[u][i].seq, cur) <= skipped + 1
    /\ \A s \in expected : Age(s, cur) <= 1
    /\ reply.op = "reply" => Age(reply.seq, cur) <= 1

\* Behind an answer to the current heartbeat there is no older one of the same
\* backend; and the answers to it are known.
CurrentLast ==
    \A u \in Uri : \A i, j \in DOMAIN lists[u] :
        i < j /\ lists[u][i].be = lists[u][j].be /\ lists[u][i].seq = cur
            => lists[u][j].seq = cur
CurrentAnswered ==
    \A u \in Uri : \A i \in DOMAIN lists[u] :
        lists[u][i].seq = cur => lists[u][i].be \in answered
LateUnanswered ==
    reply.op = "reply" => (reply.seq = cur <=> reply.be \in answered)

OrderInv == Aligned /\ AgeInv /\ CurrentLast /\ CurrentAnswered /\ LateUnanswered

LEMMA AgeFacts ==
    ASSUME NEW s \in SeqNum, NEW c \in SeqNum
    PROVE  /\ Age(s, c) \in 0 .. SeqModulus - 1
           /\ Age(c, c) = 0
           /\ Age(s, NextSeq(c)) <= Age(s, c) + 1
           /\ Age(s, c) + 1 < SeqModulus => s # NextSeq(c)
<1>1. c + 1 < SeqModulus => NextSeq(c) = c + 1
  BY CycleAssumption DEF SeqNum, NextSeq
<1>2. c + 1 = SeqModulus => NextSeq(c) = 0
  BY CycleAssumption DEF SeqNum, NextSeq
<1>3. c + 1 < SeqModulus \/ c + 1 = SeqModulus
  BY CycleAssumption DEF SeqNum
<1> QED
  BY <1>1, <1>2, <1>3, CycleAssumption DEF SeqNum, Age

LEMMA ReplyTypeNext ==
    ASSUME TypeOK, [Next]_vars, reply'.op = "reply"
    PROVE  \/ /\ reply.op = "reply" /\ ~FinishReply
              /\ reply'.be = reply.be /\ reply'.seq = reply.seq
           \/ \E b \in Backend : \E s \in expected :
                  ProcessReply(b, s) /\ reply'.be = b /\ reply'.seq = s
<1>1. ASSUME NEW b \in Backend, NEW s \in expected, ProcessReply(b, s)
      PROVE  reply'.be = b /\ reply'.seq = s
  BY <1>1 DEF ProcessReply
<1>2. CASE AddService
  <2>1. reply \in [op : {"reply"}, be : Backend, seq : SeqNum, done : Nat]
    BY <1>2, ReplyFacts DEF AddService
  <2>2. reply' = [reply EXCEPT !.done = reply.done + 1]
    BY <1>2 DEF AddService
  <2>3. ~FinishReply
    BY DEF FinishReply, Nothing
  <2> QED
    BY <2>1, <2>2, <2>3
<1>3. ~FinishReply /\ ~Restart
  BY DEF FinishReply, Restart, Nothing
<1> QED
  BY <1>1, <1>2, <1>3
     DEF Next, IoNext, HttpNext, vars, LatestSequence, FinishLatestSequence,
         SkipCycle, GetSlot, GetService, SignalBackendConnection,
         SetBackendAlive, RemoveBackend, Erase, FinishRemove

LEMMA AgeStep ==
    ASSUME TableInv, TypeOK, SameBackends, PhaseInv, AgeInv, [Next]_vars
    PROVE  AgeInv'
<1>1. cur \in SeqNum /\ skipped \in Nat /\ expected \subseteq SeqNum
  BY CycleAssumption DEF TypeOK
<1>2. CASE Restart
  <2>1. NextSeq(0) \in SeqNum
    BY NextSeqType, CycleAssumption DEF SeqNum
  <2>2. \A u \in Uri : DOMAIN lists'[u] = {}
    BY <1>2 DEF Restart
  <2>3. Age(NextSeq(0), NextSeq(0)) <= 1
    BY <2>1, AgeFacts
  <2> QED
    BY <1>2, <2>2, <2>3 DEF Restart, AgeInv, Nothing
<1>3. CASE FinishLatestSequence \/ SkipCycle
  <2>1. /\ cur' = NextSeq(cur) /\ expected' = {cur, NextSeq(cur)}
        /\ reply' = Nothing /\ lists' = lists
        /\ skipped' \in Nat
    BY <1>1, <1>3 DEF FinishLatestSequence, SkipCycle, NextHeartbeat, PhaseInv, tableVars
  <2>2. NextSeq(cur) \in SeqNum
    BY <1>1, NextSeqType
  <2>3. Age(cur, NextSeq(cur)) <= 1 /\ Age(NextSeq(cur), NextSeq(cur)) <= 1
    <3>1. Age(cur, cur) = 0 /\ Age(cur, NextSeq(cur)) <= Age(cur, cur) + 1
      BY <1>1, AgeFacts
    <3>2. Age(NextSeq(cur), NextSeq(cur)) = 0
      BY <2>2, AgeFacts
    <3> QED
      BY <3>1, <3>2
  <2>4. ASSUME NEW u \in Uri, NEW i \in DOMAIN lists[u]
        PROVE  Age(lists[u][i].seq, NextSeq(cur)) <= skipped' + 1
    <3>1. lists[u][i].seq \in SeqNum
      BY TypeOKLists, ListFacts
    <3>2. /\ Age(lists[u][i].seq, cur) \in 0 .. SeqModulus - 1
          /\ Age(lists[u][i].seq, NextSeq(cur)) \in 0 .. SeqModulus - 1
          /\ Age(lists[u][i].seq, NextSeq(cur)) <= Age(lists[u][i].seq, cur) + 1
          /\ Age(cur, cur) = 0
      BY <1>1, <2>2, <3>1, AgeFacts
    <3>3. CASE FinishLatestSequence
      <4>1. lists[u][i].seq = cur
        BY <3>3, PrunedIsCurrent DEF PhaseInv
      <4> QED
        BY <2>1, <3>2, <4>1
    <3>4. CASE SkipCycle
      <4>1. Age(lists[u][i].seq, cur) <= skipped + 1 /\ skipped' = skipped + 1
        BY <3>4 DEF AgeInv, SkipCycle
      <4> QED
        BY <1>1, <3>2, <4>1, CycleAssumption
    <3> QED
      BY <1>3, <3>3, <3>4
  <2> QED
    BY <2>1, <2>3, <2>4 DEF AgeInv, Nothing
<1>4. CASE ~(FinishLatestSequence \/ SkipCycle \/ Restart)
  <2>1. cur' = cur /\ skipped' = skipped /\ expected' = expected
    BY <1>4, CycleSteps
  <2>2. ASSUME reply'.op = "reply"
        PROVE  Age(reply'.seq, cur) <= 1
    BY <2>2, ReplyTypeNext DEF AgeInv
  <2>3. ASSUME NEW u \in Uri, NEW j \in DOMAIN lists'[u]
        PROVE  Age(lists'[u][j].seq, cur) <= skipped + 1
    <3>1. CASE Listed(lists'[u][j], u)
      BY <3>1 DEF Listed, AgeInv
    <3>2. CASE AddService /\ lists'[u][j] = Answer(reply.be, reply.seq)
      <4>1. reply.seq \in SeqNum /\ Age(reply.seq, cur) <= 1
        BY <3>2, ReplyFacts DEF AddService, AgeInv
      <4>2. Age(reply.seq, cur) \in 0 .. SeqModulus - 1
        BY <1>1, <4>1, AgeFacts
      <4> QED
        BY <1>1, <3>2, <4>1, <4>2, CycleAssumption DEF Answer
    <3> QED
      BY <3>1, <3>2, ListedAfter
  <2> QED
    BY <2>1, <2>2, <2>3 DEF AgeInv
<1> QED
  BY <1>2, <1>3, <1>4

LEMMA CurrentAnsweredStep ==
    ASSUME TableInv, TypeOK, SameBackends, PhaseInv, AgeInv, CurrentAnswered,
           LateUnanswered, [Next]_vars
    PROVE  CurrentAnswered'
<1> SUFFICES ASSUME NEW u \in Uri, NEW j \in DOMAIN lists'[u],
                    lists'[u][j].seq = cur'
             PROVE  lists'[u][j].be \in answered'
  BY DEF CurrentAnswered
<1>1. cur \in SeqNum /\ skipped \in 0 .. MaxSkippedCycles
  BY DEF TypeOK
<1>2. ~Restart
  BY DEF Restart
<1>3. CASE FinishLatestSequence \/ SkipCycle
  <2>1. lists' = lists /\ cur' = NextSeq(cur)
    BY <1>3 DEF FinishLatestSequence, SkipCycle, NextHeartbeat, tableVars
  <2>2. lists[u][j].seq \in SeqNum
    BY <2>1, TypeOKLists, ListFacts
  <2>3. Age(lists[u][j].seq, cur) + 1 < SeqModulus
    <3>1. CASE FinishLatestSequence
      <4>1. lists[u][j].seq = cur
        BY <2>1, <3>1, PrunedIsCurrent DEF PhaseInv
      <4>2. Age(cur, cur) = 0
        BY <1>1, AgeFacts
      <4> QED
        BY <4>1, <4>2, CycleAssumption
    <3>2. CASE SkipCycle
      <4>1. /\ Age(lists[u][j].seq, cur) <= skipped + 1
            /\ skipped + 1 <= MaxSkippedCycles
        BY <2>1, <3>2 DEF AgeInv, SkipCycle
      <4>2. Age(lists[u][j].seq, cur) \in 0 .. SeqModulus - 1
        BY <1>1, <2>2, AgeFacts
      <4> QED
        BY <1>1, <4>1, <4>2, CycleAssumption
    <3> QED
      BY <1>3, <3>1, <3>2
  <2>4. lists[u][j].seq # NextSeq(cur)
    BY <1>1, <2>2, <2>3, AgeFacts
  <2> QED
    BY <2>1, <2>4
<1>4. CASE ~(FinishLatestSequence \/ SkipCycle)
  <2>1. cur' = cur /\ answered \subseteq answered'
    BY <1>2, <1>4, CycleSteps
  <2>2. CASE Listed(lists'[u][j], u)
    BY <2>1, <2>2 DEF Listed, CurrentAnswered
  <2>3. CASE AddService /\ lists'[u][j] = Answer(reply.be, reply.seq)
    BY <2>1, <2>3 DEF AddService, LateUnanswered, Answer
  <2> QED
    BY <2>2, <2>3, ListedAfter
<1> QED
  BY <1>3, <1>4

LEMMA LateUnansweredStep ==
    ASSUME InOrder, TypeOK, PhaseInv, LateUnanswered, [Next]_vars
    PROVE  LateUnanswered'
<1> SUFFICES ASSUME reply'.op = "reply"
             PROVE  reply'.seq = cur' <=> reply'.be \in answered'
  BY DEF LateUnanswered
<1>1. ~FinishLatestSequence /\ ~SkipCycle /\ ~Restart
  BY DEF FinishLatestSequence, SkipCycle, Restart, PhaseInv, Nothing
<1>2. ASSUME NEW b \in Backend, NEW s \in expected, ProcessReply(b, s),
             reply'.be = b, reply'.seq = s
      PROVE  reply'.seq = cur' <=> reply'.be \in answered'
  <2>1. cur' = cur /\ (s # cur => b \notin answered)
    BY <1>2 DEF ProcessReply
  <2>2. IF s = cur THEN answered' = answered \cup {b} ELSE answered' = answered
    BY <1>2 DEF ProcessReply
  <2> QED
    BY <1>2, <2>1, <2>2
<1>3. CASE reply.op = "reply" /\ reply'.be = reply.be /\ reply'.seq = reply.seq
  <2>1. reply # Nothing
    BY <1>3 DEF Nothing
  <2>2. cur' = cur /\ answered' = answered
    BY <1>1, <2>1
       DEF Next, IoNext, HttpNext, vars, cycleVars, ProcessReply, AddService,
           FinishReply, LatestSequence, GetSlot, GetService,
           SignalBackendConnection, SetBackendAlive, RemoveBackend, Erase,
           FinishRemove
  <2> QED
    BY <1>3, <2>2 DEF LateUnanswered
<1> QED
  BY <1>2, <1>3, ReplyTypeNext

\* The entry that a loop erases is at the place of the first occurrence of its
\* backend in the forwarder.
LEMMA SameSlot ==
    ASSUME TypeOK, IterInv, SameLength, PhaseInv, Aligned, CurrentLast, NEW u \in Uri,
           NEW i \in DOMAIN lists[u], NEW k \in DOMAIN fwd[u], EraseRound(u, i, k)
    PROVE  k = i
<1>1. /\ Doomed(u, lists[u][i]) /\ fwd[u][k] = lists[u][i].be
      /\ i = it[u]
      /\ \A j \in DOMAIN fwd[u] : fwd[u][j] = lists[u][i].be => k <= j
  BY DEF EraseRound, DoomedAt
<1>2. /\ DOMAIN lists[u] = DOMAIN fwd[u] /\ DOMAIN lists[u] = 1 .. Len(lists[u])
      /\ Len(lists[u]) \in Nat
  BY TypeOKLists, ListFacts DEF SameLength
<1>3. k <= i
  BY <1>1, <1>2 DEF Aligned
<1>4. lists[u][k].be = lists[u][i].be
  BY <1>1, <1>2 DEF Aligned
<1>5. ~(k < i)
  <2> SUFFICES ASSUME k < i
               PROVE  FALSE
    OBVIOUS
  <2>1. ~Doomed(u, lists[u][k])
    <3>1. writing # Nothing
      BY <1>1 DEF Doomed, Nothing
    <3> QED
      BY <1>1, <1>2, <3>1 DEF IterInv
  <2>2. CASE writing.op = "prune"
    <3>1. writing.seq = cur
      BY <2>2 DEF PhaseInv
    <3>2. lists[u][k].seq = cur /\ lists[u][i].seq # cur
      BY <1>1, <2>1, <2>2, <3>1 DEF Doomed
    <3> QED
      BY <1>2, <1>4, <3>2 DEF CurrentLast
  <2>3. CASE writing.op = "remove"
    BY <1>1, <1>4, <2>1, <2>3 DEF Doomed
  <2> QED
    BY <1>1, <2>2, <2>3 DEF Doomed
<1> QED
  BY <1>2, <1>3, <1>5

\* What a round leaves of a list, and the same of the forwarder.
LEMMA EraseBoth ==
    ASSUME TypeOK, IterInv, SameBackends, SameLength, PhaseInv, Aligned,
           CurrentLast, Erase, NEW u \in Uri, Erasing(u)
    PROVE  \E i \in 1 .. Len(lists[u]) :
               /\ Len(lists'[u]) = Len(lists[u]) - 1
               /\ DOMAIN lists'[u] = 1 .. Len(lists[u]) - 1
               /\ \A j \in 1 .. Len(lists[u]) - 1 :
                      /\ lists'[u][j] = IF j < i THEN lists[u][j]
                                                 ELSE lists[u][j + 1]
                      /\ fwd'[u][j] = IF j < i THEN fwd[u][j] ELSE fwd[u][j + 1]
<1>1. ListsOK
  BY TypeOKLists
<1>2. PICK i \in DOMAIN lists[u], k \in DOMAIN fwd[u] : EraseRound(u, i, k)
  BY <1>1, EraseAt
<1>3. k = i
  BY <1>2, SameSlot
<1>4. lists'[u] = RemoveAt(lists[u], i) /\ fwd'[u] = RemoveAt(fwd[u], i)
  BY <1>2, <1>3 DEF EraseRound
<1>5. /\ lists[u] \in Seq(Entry) /\ fwd[u] \in Seq(Backend)
      /\ DOMAIN lists[u] = 1 .. Len(lists[u]) /\ Len(lists[u]) \in Nat
      /\ Len(lists[u]) = Len(fwd[u]) /\ DOMAIN fwd[u] = DOMAIN lists[u]
  BY <1>1, ListFacts DEF SameLength
<1>6. /\ lists'[u] \in Seq(Entry) /\ Len(lists'[u]) = Len(lists[u]) - 1
      /\ \A j \in 1 .. Len(lists[u]) - 1 :
             lists'[u][j] = IF j < i THEN lists[u][j] ELSE lists[u][j + 1]
  BY <1>4, <1>5, RemoveAtProperties
<1>7. \A j \in 1 .. Len(fwd[u]) - 1 :
          fwd'[u][j] = IF j < i THEN fwd[u][j] ELSE fwd[u][j + 1]
  <2>1. i \in DOMAIN fwd[u]
    BY <1>5
  <2> QED
    BY <1>4, <1>5, <2>1, RemoveAtProperties
<1>8. DOMAIN lists'[u] = 1 .. Len(lists[u]) - 1
  BY <1>6, LenProperties
<1> QED
  BY <1>5, <1>6, <1>7, <1>8

\* What addService leaves of the list and the forwarder of its URI.
LEMMA AddBoth ==
    ASSUME TypeOK, SameLength, AddService, NEW u \in Uri,
           u = AddOrder(reply.be)[reply.done + 1]
    PROVE  /\ Len(lists[u]) \in Nat
           /\ DOMAIN lists'[u] = 1 .. Len(lists[u]) + 1
           /\ \A j \in 1 .. Len(lists[u]) :
                  lists'[u][j] = lists[u][j] /\ fwd'[u][j] = fwd[u][j]
           /\ lists'[u][Len(lists[u]) + 1] = Answer(reply.be, reply.seq)
           /\ fwd'[u][Len(lists[u]) + 1] = reply.be
<1>1. /\ lists'[u] = Append(lists[u], Answer(reply.be, reply.seq))
      /\ fwd'[u] = Append(fwd[u], reply.be)
      /\ Answer(reply.be, reply.seq) \in Entry /\ reply.be \in Backend
  BY AddServiceAt DEF Answer
<1>2. /\ lists[u] \in Seq(Entry) /\ fwd[u] \in Seq(Backend)
      /\ Len(lists[u]) \in Nat /\ Len(lists[u]) = Len(fwd[u])
  BY TypeOKLists, ListFacts DEF SameLength
<1>3. /\ lists'[u] \in Seq(Entry) /\ Len(lists'[u]) = Len(lists[u]) + 1
      /\ \A j \in 1 .. Len(lists[u]) : lists'[u][j] = lists[u][j]
      /\ lists'[u][Len(lists[u]) + 1] = Answer(reply.be, reply.seq)
  <2> DEFINE e == Answer(reply.be, reply.seq)
  <2>1. lists'[u] = Append(lists[u], e) /\ e \in Entry
    BY <1>1
  <2> HIDE DEF e
  <2>2. /\ Append(lists[u], e) \in Seq(Entry)
        /\ Len(Append(lists[u], e)) = Len(lists[u]) + 1
        /\ \A j \in 1 .. Len(lists[u]) : Append(lists[u], e)[j] = lists[u][j]
        /\ Append(lists[u], e)[Len(lists[u]) + 1] = e
    BY <1>2, <2>1, AppendProperties
  <2> QED
    BY <2>1, <2>2 DEF e
<1>4. /\ \A j \in 1 .. Len(fwd[u]) : fwd'[u][j] = fwd[u][j]
      /\ fwd'[u][Len(fwd[u]) + 1] = reply.be
  <2> DEFINE b == reply.be
  <2>1. fwd'[u] = Append(fwd[u], b) /\ b \in Backend
    BY <1>1
  <2> HIDE DEF b
  <2>2. /\ \A j \in 1 .. Len(fwd[u]) : Append(fwd[u], b)[j] = fwd[u][j]
        /\ Append(fwd[u], b)[Len(fwd[u]) + 1] = b
    BY <1>2, <2>1, AppendProperties
  <2> QED
    BY <2>1, <2>2 DEF b
<1>5. DOMAIN lists'[u] = 1 .. Len(lists[u]) + 1
  BY <1>3, LenProperties
<1>6. \A j \in 1 .. Len(lists[u]) :
          lists'[u][j] = lists[u][j] /\ fwd'[u][j] = fwd[u][j]
  BY <1>2, <1>3, <1>4
<1>7. fwd'[u][Len(lists[u]) + 1] = reply.be
  BY <1>2, <1>4
<1> QED
  BY <1>2, <1>3, <1>5, <1>6, <1>7

LEMMA AlignedStep ==
    ASSUME TypeOK, IterInv, SameBackends, SameLength, PhaseInv, Aligned,
           CurrentLast, [Next]_vars
    PROVE  Aligned'
<1> SUFFICES ASSUME NEW u \in Uri, NEW j \in DOMAIN lists'[u]
             PROVE  fwd'[u][j] = lists'[u][j].be
  BY DEF Aligned
<1>1. DOMAIN lists[u] = 1 .. Len(lists[u]) /\ Len(lists[u]) \in Nat
  BY TypeOKLists, ListFacts
<1>2. CASE lists'[u] = lists[u] /\ fwd'[u] = fwd[u]
  BY <1>2 DEF Aligned
<1>3. CASE AddService
  <2>1. CASE u = AddOrder(reply.be)[reply.done + 1]
    <3>1. j \in 1 .. Len(lists[u]) \/ j = Len(lists[u]) + 1
      BY <1>3, <2>1, AddBoth
    <3>2. CASE j \in 1 .. Len(lists[u])
      <4>1. lists'[u][j] = lists[u][j] /\ fwd'[u][j] = fwd[u][j]
        BY <1>3, <2>1, <3>2, AddBoth
      <4> QED
        BY <1>1, <3>2, <4>1 DEF Aligned
    <3>3. CASE j = Len(lists[u]) + 1
      <4>1. /\ lists'[u][j] = Answer(reply.be, reply.seq)
            /\ fwd'[u][j] = reply.be
        BY <1>3, <2>1, <3>3, AddBoth
      <4> QED
        BY <4>1 DEF Answer
    <3> QED
      BY <3>1, <3>2, <3>3
  <2>2. CASE u # AddOrder(reply.be)[reply.done + 1]
    BY <1>2, <1>3, <2>2, AddServiceAt
  <2> QED
    BY <2>1, <2>2
<1>4. CASE Erase
  <2>1. CASE ~Erasing(u)
    BY <1>2, <1>4, <2>1, EraseNothing
  <2>2. CASE Erasing(u)
    <3>1. PICK i \in 1 .. Len(lists[u]) :
              /\ DOMAIN lists'[u] = 1 .. Len(lists[u]) - 1
              /\ \A m \in 1 .. Len(lists[u]) - 1 :
                     /\ lists'[u][m] = IF m < i THEN lists[u][m]
                                                ELSE lists[u][m + 1]
                     /\ fwd'[u][m] = IF m < i THEN fwd[u][m] ELSE fwd[u][m + 1]
      BY <1>4, <2>2, EraseBoth
    <3>2. j \in 1 .. Len(lists[u]) - 1
      BY <3>1
    <3>3. j \in DOMAIN lists[u] /\ j + 1 \in DOMAIN lists[u]
      BY <1>1, <3>2
    <3> QED
      BY <3>1, <3>2, <3>3 DEF Aligned
  <2> QED
    BY <2>1, <2>2
<1>5. CASE Restart
  BY <1>5 DEF Restart
<1> QED
  BY <1>2, <1>3, <1>4, <1>5, QuietSteps

LEMMA CurrentLastStep ==
    ASSUME TableInv, TypeOK, IterInv, SameBackends, SameLength, OrderInv,
           PhaseInv, [Next]_vars
    PROVE  CurrentLast'
<1> SUFFICES ASSUME NEW u \in Uri, NEW j \in DOMAIN lists'[u],
                    NEW m \in DOMAIN lists'[u], j < m,
                    lists'[u][j].be = lists'[u][m].be, lists'[u][j].seq = cur'
             PROVE  lists'[u][m].seq = cur'
  BY DEF CurrentLast
<1>1. DOMAIN lists[u] = 1 .. Len(lists[u]) /\ Len(lists[u]) \in Nat
  BY TypeOKLists, ListFacts
<1>2. CASE FinishLatestSequence \/ SkipCycle \/ Restart
  <2>1. answered' = {}
    BY <1>2 DEF FinishLatestSequence, SkipCycle, Restart, NextHeartbeat
  <2>2. CurrentAnswered'
    BY CurrentAnsweredStep DEF OrderInv
  <2> QED
    BY <2>1, <2>2 DEF CurrentAnswered
<1>3. CASE ~(FinishLatestSequence \/ SkipCycle \/ Restart)
  <2>1. cur' = cur
    BY <1>3, CycleSteps
  <2>2. CASE lists'[u] = lists[u]
    BY <2>1, <2>2 DEF OrderInv, CurrentLast
  <2>3. CASE AddService
    <3>1. CASE u = AddOrder(reply.be)[reply.done + 1]
      <4>1. /\ j \in 1 .. Len(lists[u]) /\ lists'[u][j] = lists[u][j]
            /\ m \in 1 .. Len(lists[u]) \/ m = Len(lists[u]) + 1
        <5>1. DOMAIN lists'[u] = 1 .. Len(lists[u]) + 1
          BY <2>3, <3>1, AddBoth
        <5>2. /\ j \in 1 .. Len(lists[u])
              /\ m \in 1 .. Len(lists[u]) \/ m = Len(lists[u]) + 1
          BY <1>1, <5>1
        <5> QED
          BY <2>3, <3>1, <5>2, AddBoth
      <4>2. CASE m \in 1 .. Len(lists[u])
        <5>1. lists'[u][m] = lists[u][m]
          BY <2>3, <3>1, <4>2, AddBoth
        <5> QED
          BY <1>1, <2>1, <4>1, <4>2, <5>1 DEF OrderInv, CurrentLast
      <4>3. CASE m = Len(lists[u]) + 1
        <5>1. lists'[u][m] = Answer(reply.be, reply.seq) /\ reply.op = "reply"
          BY <2>3, <3>1, <4>3, AddBoth DEF AddService
        <5>2. lists[u][j].be \in answered
          BY <1>1, <2>1, <4>1 DEF OrderInv, CurrentAnswered
        <5> QED
          BY <2>1, <4>1, <5>1, <5>2 DEF OrderInv, LateUnanswered, Answer
      <4> QED
        BY <4>1, <4>2, <4>3
    <3>2. CASE u # AddOrder(reply.be)[reply.done + 1]
      BY <2>2, <2>3, <3>2, AddServiceAt
    <3> QED
      BY <3>1, <3>2
  <2>4. CASE Erase
    <3>1. CASE ~Erasing(u)
      BY <2>2, <2>4, <3>1, EraseNothing
    <3>2. CASE Erasing(u)
      <4>1. PICK i \in 1 .. Len(lists[u]) :
                /\ DOMAIN lists'[u] = 1 .. Len(lists[u]) - 1
                /\ \A n \in 1 .. Len(lists[u]) - 1 :
                       lists'[u][n] = IF n < i THEN lists[u][n]
                                               ELSE lists[u][n + 1]
        BY <2>4, <3>2, EraseBoth DEF OrderInv
      <4>2. j \in 1 .. Len(lists[u]) - 1 /\ m \in 1 .. Len(lists[u]) - 1
        BY <4>1
      <4> DEFINE from(n) == IF n < i THEN n ELSE n + 1
      <4>3. /\ from(j) \in DOMAIN lists[u] /\ from(m) \in DOMAIN lists[u]
            /\ from(j) < from(m)
        BY <1>1, <4>1, <4>2
      <4>4. /\ lists'[u][j] = lists[u][from(j)]
            /\ lists'[u][m] = lists[u][from(m)]
        BY <4>1, <4>2
      <4> HIDE DEF from
      <4> QED
        BY <2>1, <4>3, <4>4 DEF OrderInv, CurrentLast
    <3> QED
      BY <3>1, <3>2
  <2> QED
    BY <1>3, <2>2, <2>3, <2>4, QuietSteps
<1> QED
  BY <1>2, <1>3

\* BackendForwarder.h:50 "Get a backend (using its index in the Broadcast
\* service list)": while the replies of each backend arrive in order, the list
\* and the forwarder agree slot by slot, through all cleanups and removals, and
\* getService returns the backend that the forwarder chose.
THEOREM ChosenAlwaysReturned ==
    ASSUME InOrder
    PROVE  Spec => []ChosenIsReturned
<1>1. Init => OrderInv
  <2>1. NextSeq(0) \in SeqNum
    BY NextSeqType, CycleAssumption DEF SeqNum
  <2>2. Age(NextSeq(0), NextSeq(0)) <= 1
    BY <2>1, AgeFacts
  <2> QED
    BY <2>2 DEF Init, OrderInv, Aligned, AgeInv, CurrentLast, CurrentAnswered,
                LateUnanswered, NoEntries, Nothing
<1>2. TableInv /\ ActiveInv /\ OrderInv /\ [Next]_vars => OrderInv'
  <2> SUFFICES ASSUME TableInv, ActiveInv, OrderInv, [Next]_vars
               PROVE  OrderInv'
    OBVIOUS
  <2>1. TypeOK /\ IterInv /\ SameBackends /\ SameLength /\ PhaseInv
    BY DEF TableInv, ActiveInv
  <2>2. Aligned' /\ CurrentLast'
    BY <2>1, AlignedStep, CurrentLastStep DEF OrderInv
  <2>3. AgeInv' /\ CurrentAnswered' /\ LateUnanswered'
    BY <2>1, AgeStep, CurrentAnsweredStep, LateUnansweredStep DEF OrderInv
  <2> QED
    BY <2>2, <2>3 DEF OrderInv
<1>3. TableInv /\ OrderInv => ChosenIsReturned
  <2> SUFFICES ASSUME TableInv, OrderInv, NEW t \in Thread, http[t].pc = "slot"
               PROVE  lists[http[t].uri][http[t].slot].be
                          = fwd[http[t].uri][http[t].slot]
    BY DEF ChosenIsReturned
  <2>1. http[t].uri \in Uri /\ http[t].slot \in DOMAIN lists[http[t].uri]
    BY ThreadFacts, SlotExists DEF TableInv, SlotInRange
  <2> QED
    BY <2>1 DEF OrderInv, Aligned
<1> QED
  BY <1>1, <1>2, <1>3, ActiveInvariant, PTL DEF Spec

=============================================================================
