-------------------------- MODULE FrontendIoProofs --------------------------
(* Theorems about FrontendIo: for every number of backends, services and
   waiting datagrams, and every size of the buffer. *)
EXTENDS FrontendIo, ListLemmas

\* The heartbeat, the receives and the datagrams have their types.
Typed ==
    /\ seq \in SeqNum
    /\ socket \in Seq(Completion)
    /\ armed \in Nat
    /\ done \in Seq(Completion)
    /\ carried \in Nat

\* The reply that receive r was completed with is still in buffer buf.
InBuffer(buf, r) ==
    /\ buf.head = r.head
    /\ \A j \in 1 .. Size(r) : buf.body[j] = Offer[r.head.be][j]

\* The handlers preserve the number of receives, and that number is what
\* makes the buffer belong to a single reply.
ReceiveInv == Typed /\ OneMoreThanCarried /\ ReadsOwnReply

-----------------------------------------------------------------------------
(* The buffer. *)

LEMMA CompletionCases ==
    ASSUME NEW r \in Completion, r # ReceiveError
    PROVE  r.op = "read" /\ r.head \in Header
BY DEF Completion, Received

LEMMA SizeBound ==
    ASSUME NEW r \in Completion, r # ReceiveError
    PROVE  Size(r) \in Int /\ Size(r) <= Capacity
<1>1. r.op = "read" /\ r.head.be \in Backend
  BY CompletionCases DEF Header
<1>2. Len(Offer[r.head.be]) \in Nat
  BY <1>1, OfferAssumption, LenProperties
<1> QED
  BY <1>1, <1>2, CapacityAssumption DEF Size, Min2

\* A reply received last is in the buffer, as much of it as fits.
LEMMA FillOne ==
    ASSUME NEW r \in Completion, r # ReceiveError, NEW buf
    PROVE  InBuffer(Fill(buf, <<r>>), r)
<1> DEFINE replies == <<r>>
           Longer(i) == {j \in DOMAIN replies : i <= Size(replies[j])}
           LastOf(J) == CHOOSE j \in J : \A k \in J : k <= j
           read == {j \in DOMAIN replies : replies[j].op = "read"}
           body == [i \in 1 .. Capacity |->
                       IF Longer(i) = {} THEN buf.body[i]
                       ELSE Offer[replies[LastOf(Longer(i))].head.be][i]]
<1>1. DOMAIN replies = {1} /\ replies[1] = r
  OBVIOUS
<1>2. LastOf({1}) = 1
  OBVIOUS
<1>3. read = {1}
  BY <1>1, CompletionCases
<1>4. Fill(buf, <<r>>).head = r.head
  BY <1>1, <1>2, <1>3 DEF Fill
<1>5. ASSUME NEW i \in 1 .. Size(r)
      PROVE  Fill(buf, <<r>>).body[i] = Offer[r.head.be][i]
  <2>1. i \in 1 .. Capacity
    BY SizeBound, CapacityAssumption
  <2>2. Longer(i) = {1}
    BY <1>1
  <2>3. LastOf(Longer(i)) = 1
    BY <1>2, <2>2
  <2>4. body[i] = Offer[replies[LastOf(Longer(i))].head.be][i]
    BY <2>1, <2>2
  <2>5. Fill(buf, <<r>>).body = body
    BY DEF Fill
  <2> HIDE DEF body, LastOf, Longer, replies
  <2> QED
    BY <1>1, <2>3, <2>4, <2>5
<1> QED
  BY <1>4, <1>5 DEF InBuffer

-----------------------------------------------------------------------------
(* Receiving. *)

\* Starting a receive makes one more, completed or not.
LEMMA OneMore ==
    ASSUME NEW buf, NEW in \in Seq(Completion), NEW n \in Nat,
           NEW q \in Seq(Completion), AsyncReceiveFrom(buf, in, n, q)
    PROVE  /\ socket' \in Seq(Completion)
           /\ armed' \in Nat
           /\ done' \in Seq(Completion)
           /\ armed' + Len(done') = n + Len(q) + 1
<1>1. CASE n = 0 /\ in # <<>>
  <2>1. Head(in) \in Completion /\ Tail(in) \in Seq(Completion)
    BY <1>1, HeadTailProperties
  <2>2. done' = Append(q, Head(in)) /\ socket' = Tail(in) /\ armed' = 0
    BY <1>1 DEF AsyncReceiveFrom
  <2> QED
    BY <1>1, <2>1, <2>2, AppendProperties, LenProperties
<1>2. CASE ~ (n = 0 /\ in # <<>>)
  <2>1. done' = q /\ socket' = in /\ armed' = n + 1
    BY <1>2 DEF AsyncReceiveFrom
  <2> QED
    BY <2>1, LenProperties
<1> QED
  BY <1>1, <1>2

\* If no other receive has completed, the new one finds its reply.
LEMMA OwnReply ==
    ASSUME NEW buf, NEW in \in Seq(Completion), NEW n \in Nat,
           AsyncReceiveFrom(buf, in, n, <<>>)
    PROVE  \A i \in DOMAIN done' : done'[i] # ReceiveError =>
               InBuffer(buffer', done'[i])
<1>1. CASE n = 0 /\ in # <<>>
  <2>1. Head(in) \in Completion
    BY <1>1, HeadTailProperties
  <2>2. done' = <<Head(in)>> /\ buffer' = Fill(buf, <<Head(in)>>)
    BY <1>1 DEF AsyncReceiveFrom
  <2>3. DOMAIN <<Head(in)>> = {1} /\ <<Head(in)>>[1] = Head(in)
    OBVIOUS
  <2> QED
    BY <2>1, <2>2, <2>3, FillOne
<1>2. CASE ~ (n = 0 /\ in # <<>>)
  <2>1. done' = <<>>
    BY <1>2 DEF AsyncReceiveFrom
  <2> QED
    BY <2>1
<1> QED
  BY <1>1, <1>2

-----------------------------------------------------------------------------
(* The handlers. *)

LEMMA NextSeqType ==
    ASSUME NEW s \in Nat
    PROVE  NextSeq(s) \in SeqNum
BY CycleAssumption DEF NextSeq, SeqNum

\* handleFrontendRead replaces the receive it was called for by a new one.
LEMMA HandlerKeepsInv ==
    ASSUME ReceiveInv, Running, NEW r, NEW buf, NEW in \in Seq(Completion),
           NEW n \in Nat, NEW q \in Seq(Completion),
           n + Len(q) + 1 = armed + Len(done),
           HandleFrontendRead(r, buf, in, n, q)
    PROVE  ReceiveInv'
<1>1. /\ AsyncReceiveFrom(buf, in, n, q)
      /\ UNCHANGED <<seq, phase, carried>>
  BY DEF HandleFrontendRead
<1>2. Typed' /\ armed' + Len(done') = armed + Len(done)
  BY <1>1, OneMore DEF ReceiveInv, Typed
<1>3. OneMoreThanCarried'
  BY <1>1, <1>2 DEF ReceiveInv, OneMoreThanCarried, Running
<1>4. ASSUME phase' = "listening", carried' = 0
      PROVE  \A i \in DOMAIN done' : done'[i] # ReceiveError =>
                 InBuffer(buffer', done'[i])
  <2>1. n + Len(q) = 0
    BY <1>1, <1>4, LenProperties DEF ReceiveInv, OneMoreThanCarried
  <2>2. q = <<>>
    BY <2>1, LenProperties, EmptySeq
  <2> QED
    BY <1>1, <2>2, OwnReply
<1>5. ReadsOwnReply'
  BY <1>4 DEF ReadsOwnReply, InBuffer
<1> QED
  BY <1>2, <1>3, <1>5 DEF ReceiveInv

LEMMA FrontendReadKeepsInv ==
    ASSUME ReceiveInv, FrontendRead
    PROVE  ReceiveInv'
<1>1. done \in Seq(Completion) /\ done # <<>>
  BY DEF FrontendRead, ReceiveInv, Typed
<1>2. Tail(done) \in Seq(Completion) /\ Len(Tail(done)) = Len(done) - 1
  BY <1>1, HeadTailProperties
<1>3. armed + Len(Tail(done)) + 1 = armed + Len(done)
  BY <1>1, <1>2, LenProperties DEF ReceiveInv, Typed
<1> QED
  BY <1>2, <1>3, HandlerKeepsInv DEF FrontendRead, ReceiveInv, Typed

\* The receives that are served in one go are fewer by the one whose handler
\* runs at once.
LEMMA SocketReadableKeepsInv ==
    ASSUME ReceiveInv, SocketReadable
    PROVE  ReceiveInv'
<1> DEFINE k == Min2(armed, Len(socket))
           taken == SubSeq(socket, 1, k)
           in == SubSeq(socket, k + 1, Len(socket))
           q == done \o SubSeq(taken, 2, k)
<1>1. /\ socket \in Seq(Completion) /\ socket # <<>> /\ Len(socket) \in Nat
      /\ armed \in Nat /\ armed > 0 /\ done \in Seq(Completion)
  BY LenProperties DEF SocketReadable, ReceiveInv, Typed
<1>2. Len(socket) > 0
  BY <1>1, EmptySeq, LenProperties
<1>3. k \in Nat /\ 1 <= k /\ k <= armed /\ k <= Len(socket)
  BY <1>1, <1>2 DEF Min2
<1>4. taken \in Seq(Completion) /\ Len(taken) = k
  BY <1>1, <1>3, SubSeqProperties
<1>5. in \in Seq(Completion)
  BY <1>1, <1>3, SubSeqProperties
<1>6. SubSeq(taken, 2, k) \in Seq(Completion) /\ Len(SubSeq(taken, 2, k)) = k - 1
  BY <1>3, <1>4, SubSeqProperties
<1>7. q \in Seq(Completion) /\ Len(q) = Len(done) + k - 1
  BY <1>1, <1>3, <1>6, ConcatProperties, LenProperties
<1>8. armed - k \in Nat /\ (armed - k) + Len(q) + 1 = armed + Len(done)
  BY <1>1, <1>3, <1>7, LenProperties
<1>9. /\ Running
      /\ HandleFrontendRead(taken[1], Fill(buffer, taken), in, armed - k, q)
  BY DEF SocketReadable
<1> HIDE DEF k, taken, in, q
<1> QED
  BY <1>5, <1>7, <1>8, <1>9, HandlerKeepsInv

\* cancel() leaves the completed receives, and the next heartbeat adds one.
LEMMA DeadlineKeepsInv ==
    ASSUME ReceiveInv, DeadlineTimer
    PROVE  ReceiveInv'
<1>1. Typed'
  BY LenProperties DEF DeadlineTimer, ReceiveInv, Typed
<1>2. OneMoreThanCarried' /\ ReadsOwnReply'
  BY LenProperties DEF DeadlineTimer, ReceiveInv, Typed, OneMoreThanCarried,
     ReadsOwnReply
<1> QED
  BY <1>1, <1>2 DEF ReceiveInv

LEMMA WakeUpKeepsInv ==
    ASSUME ReceiveInv, WakeUp
    PROVE  ReceiveInv'
<1>1. CASE shuttingDown
  BY <1>1 DEF WakeUp, ioVars, ReceiveInv, Typed, OneMoreThanCarried, ReadsOwnReply
<1>2. CASE ~shuttingDown
  <2>1. /\ AsyncReceiveFrom(buffer, socket, armed, done)
        /\ phase' = "listening"
        /\ seq' = NextSeq(seq)
        /\ UNCHANGED carried
    BY <1>2 DEF WakeUp, StartServiceDiscovery
  <2>2. armed = 0 /\ Len(done) = carried
    BY DEF WakeUp, ReceiveInv, OneMoreThanCarried
  <2>3. Typed' /\ armed' + Len(done') = armed + Len(done) + 1
    <3>1. seq \in Nat
      BY DEF ReceiveInv, Typed, SeqNum
    <3>2. seq' \in SeqNum
      BY <2>1, <3>1, NextSeqType
    <3> QED
      BY <2>1, <3>2, OneMore DEF ReceiveInv, Typed
  <2>4. OneMoreThanCarried'
    BY <2>1, <2>2, <2>3 DEF ReceiveInv, Typed, OneMoreThanCarried
  <2>5. ASSUME carried = 0
        PROVE  \A i \in DOMAIN done' : done'[i] # ReceiveError =>
                   InBuffer(buffer', done'[i])
    <3>1. done = <<>>
      BY <2>2, <2>5, EmptySeq, LenProperties DEF ReceiveInv, Typed
    <3> QED
      BY <2>1, <3>1, OwnReply DEF ReceiveInv, Typed
  <2>6. ReadsOwnReply'
    BY <2>1, <2>5 DEF ReadsOwnReply, InBuffer
  <2> QED
    BY <2>3, <2>4, <2>6 DEF ReceiveInv
<1> QED
  BY <1>1, <1>2

LEMMA NextKeepsInv == ReceiveInv /\ [Next]_vars => ReceiveInv'
<1> SUFFICES ASSUME ReceiveInv, [Next]_vars PROVE ReceiveInv'
  OBVIOUS
<1> USE DEF ReceiveInv, Typed, OneMoreThanCarried, ReadsOwnReply
<1>1. CASE TimerExpires
  BY <1>1 DEF TimerExpires, ioVars
<1>2. CASE Arrive
  <2>1. PICK r \in Completion : socket' = Append(socket, r)
    BY <1>2 DEF Arrive, Completion, Header
  <2>2. socket' \in Seq(Completion)
    BY <2>1, AppendProperties
  <2> QED
    BY <1>2, <2>2 DEF Arrive, cycleVars
<1>3. CASE RequestShutdown
  BY <1>3 DEF RequestShutdown, cycleVars, ioVars
<1>4. CASE Shutdown
  BY <1>4 DEF Shutdown, ioVars
<1>5. CASE ProcessReplyThrows
  BY <1>5, EmptySeq, NextSeqType DEF ProcessReplyThrows
<1>6. CASE UNCHANGED vars
  BY <1>6 DEF vars
<1> QED
  BY <1>1, <1>2, <1>3, <1>4, <1>5, <1>6, FrontendReadKeepsInv, SocketReadableKeepsInv,
     DeadlineKeepsInv, WakeUpKeepsInv, Zenon DEF Next

LEMMA InvAlways == Spec => []ReceiveInv
<1>1. Init => ReceiveInv
  BY EmptySeq, NextSeqType DEF Init, ReceiveInv, Typed, OneMoreThanCarried,
     ReadsOwnReply
<1> QED
  BY <1>1, NextKeepsInv, PTL DEF Spec

-----------------------------------------------------------------------------

\* Neither an error nor cancel() nor a handler that runs late ever leaves a
\* listening frontend without a receive; its receives are one more than those
\* that outlived the last cancel().
THEOREM OneMoreThanCarriedAlways == Spec => []OneMoreThanCarried
<1>1. ReceiveInv => OneMoreThanCarried
  BY DEF ReceiveInv
<1> QED
  BY <1>1, InvAlways, PTL

\* A handler finds its own reply in the shared buffer as long as no receive
\* outlived the last cancel().
THEOREM ReadsOwnReplyAlways == Spec => []ReadsOwnReply
<1>1. ReceiveInv => ReadsOwnReply
  BY DEF ReceiveInv
<1> QED
  BY <1>1, InvAlways, PTL

-----------------------------------------------------------------------------
(* The buffer and the table. *)

\* What reply r brought is in buffer buf, or was overwritten by services.
Holds(buf, r) ==
    r.op = "read" =>
        /\ buf.head \in Header
        /\ \A j \in 1 .. Size(r) : buf.body[j] \in Service

BufferType(buf) ==
    /\ buf.head \in Header \cup {ReceiveError.head}
    /\ DOMAIN buf.body = 1 .. Capacity

\* The rest of the types.  That only services are filed follows from the
\* completed receives: the buffer holds a service in every place that one of
\* them has filled.
MemberInv ==
    /\ skipped \in 0 .. MaxSkippedCycles
    /\ heard \in BOOLEAN
    /\ phase \in {"listening", "sleeping", "ending", "stopped"}
    /\ shuttingDown \in BOOLEAN
    /\ ahead \in {NotExpired} \cup 0 .. Len(done)
    /\ table \subseteq Entry
    /\ BufferType(buffer)
    /\ \A i \in DOMAIN done : Holds(buffer, done[i])

LEMMA ReadHasHeader ==
    ASSUME NEW r \in Completion, r.op = "read"
    PROVE  r \in {Received(h) : h \in Header} /\ r.head \in Header
BY DEF Completion, Received, ReceiveError

\* A reply offers services, as many as its size.
LEMMA OfferedServices ==
    ASSUME NEW r \in Completion
    PROVE  /\ Size(r) \in Nat /\ Size(r) <= Capacity
           /\ r.op = "read" => \A i \in 1 .. Size(r) : Offer[r.head.be][i] \in Service
<1>1. CASE r.op = "read"
  <2>1. r.head.be \in Backend
    BY <1>1, ReadHasHeader DEF Header
  <2> DEFINE offer == Offer[r.head.be]
  <2>2. offer \in Seq(Service)
    BY <2>1, OfferAssumption
  <2>3. Len(offer) \in Nat /\ DOMAIN offer = 1 .. Len(offer)
    BY <2>2, LenProperties
  <2>4. Size(r) = Min2(Len(offer), Capacity)
    BY <1>1 DEF Size
  <2> HIDE DEF offer
  <2>5. Size(r) \in Nat /\ Size(r) <= Capacity /\ Size(r) <= Len(offer)
    BY <2>3, <2>4, CapacityAssumption DEF Min2
  <2>6. ASSUME NEW i \in 1 .. Size(r) PROVE offer[i] \in Service
    BY <2>2, <2>3, <2>5, ElementOfSeq
  <2> QED
    BY <2>5, <2>6 DEF offer
<1>2. CASE r.op # "read"
  BY <1>2, CapacityAssumption DEF Size
<1> QED
  BY <1>1, <1>2

\* The last of the positions that satisfy a condition.
LEMMA LastPosition ==
    ASSUME NEW n \in Nat, NEW J \in SUBSET (1 .. n), J # {}
    PROVE  (CHOOSE j \in J : \A k \in J : k <= j) \in J
<1> DEFINE D == {n - j : j \in J}
<1>1. D \in SUBSET Nat /\ D # {}
  <2>1. \A j \in J : n - j \in Nat
    OBVIOUS
  <2> QED
    BY <2>1
<1>2. PICK d \in D : \A e \in D : d <= e
  <2> HIDE DEF D
  <2> QED
    BY <1>1, LeastNumber
<1>3. PICK j \in J : d = n - j
  BY <1>2
<1>4. \A k \in J : k <= j
  BY <1>2, <1>3
<1> QED
  BY <1>4

\* Receiving replies leaves a service in every place that held one, and puts
\* one in every place that the replies fill.
LEMMA FillHolds ==
    ASSUME NEW buf, BufferType(buf), NEW replies \in Seq(Completion)
    PROVE  /\ BufferType(Fill(buf, replies))
           /\ \A i \in DOMAIN replies : Holds(Fill(buf, replies), replies[i])
           /\ \A r \in Completion : Holds(buf, r) => Holds(Fill(buf, replies), r)
<1> DEFINE Longer(i) == {j \in DOMAIN replies : i <= Size(replies[j])}
           LastOf(J) == CHOOSE j \in J : \A k \in J : k <= j
           read == {j \in DOMAIN replies : replies[j].op = "read"}
           full == Fill(buf, replies)
<1>1. /\ full.head = IF read = {} THEN buf.head ELSE replies[LastOf(read)].head
      /\ full.body = [i \in 1 .. Capacity |->
                         IF Longer(i) = {} THEN buf.body[i]
                         ELSE Offer[replies[LastOf(Longer(i))].head.be][i]]
  BY DEF Fill
<1> HIDE DEF full
<1>2. Len(replies) \in Nat /\ DOMAIN replies = 1 .. Len(replies)
  BY LenProperties
<1>3. \A j \in DOMAIN replies : replies[j] \in Completion
  BY <1>2, ElementOfSeq
<1>4. ASSUME read # {} PROVE full.head \in Header
  <2>1. LastOf(read) \in read
    BY <1>2, <1>4, LastPosition
  <2> HIDE DEF LastOf
  <2>2. replies[LastOf(read)] \in Completion /\ replies[LastOf(read)].op = "read"
    BY <1>3, <2>1
  <2> QED
    BY <1>1, <1>4, <2>2, ReadHasHeader
<1>5. ASSUME NEW i \in 1 .. Capacity, Longer(i) # {}
      PROVE  full.body[i] \in Service
  <2> DEFINE l == LastOf(Longer(i))
  <2>1. l \in Longer(i)
    BY <1>2, <1>5, LastPosition
  <2>2. full.body[i] = Offer[replies[l].head.be][i]
    BY <1>1, <1>5
  <2> HIDE DEF l
  <2>3. replies[l] \in Completion /\ i <= Size(replies[l])
    BY <1>3, <2>1
  <2>4. replies[l].op = "read" /\ i \in 1 .. Size(replies[l])
    BY <2>3, OfferedServices, CapacityAssumption DEF Size
  <2> QED
    BY <2>2, <2>3, <2>4, OfferedServices
<1>6. ASSUME NEW i \in 1 .. Capacity, Longer(i) = {}
      PROVE  full.body[i] = buf.body[i]
  BY <1>1, <1>6
<1>7. BufferType(full)
  BY <1>1, <1>4 DEF BufferType
<1>8. ASSUME NEW i \in DOMAIN replies
      PROVE  Holds(full, replies[i])
  <2> SUFFICES ASSUME replies[i].op = "read"
               PROVE  /\ full.head \in Header
                      /\ \A j \in 1 .. Size(replies[i]) : full.body[j] \in Service
    BY DEF Holds
  <2>1. full.head \in Header
    BY <1>4
  <2>2. ASSUME NEW j \in 1 .. Size(replies[i]) PROVE full.body[j] \in Service
    <3>1. Size(replies[i]) \in Nat /\ Size(replies[i]) <= Capacity
      BY <1>3, OfferedServices
    <3>2. j \in 1 .. Capacity /\ i \in Longer(j)
      BY <3>1, CapacityAssumption
    <3> QED
      BY <1>5, <3>2
  <2> QED
    BY <2>1, <2>2
<1>9. ASSUME NEW r \in Completion, Holds(buf, r)
      PROVE  Holds(full, r)
  <2> SUFFICES ASSUME r.op = "read"
               PROVE  /\ full.head \in Header
                      /\ \A j \in 1 .. Size(r) : full.body[j] \in Service
    BY DEF Holds
  <2>1. full.head \in Header
    BY <1>1, <1>4, <1>9 DEF Holds
  <2>2. ASSUME NEW j \in 1 .. Size(r) PROVE full.body[j] \in Service
    <3>1. j \in 1 .. Capacity
      <4>1. Size(r) \in Nat /\ Size(r) <= Capacity
        BY OfferedServices
      <4> QED
        BY <4>1, CapacityAssumption
    <3>2. buf.body[j] \in Service
      BY <1>9 DEF Holds
    <3> QED
      BY <1>5, <1>6, <3>1, <3>2
  <2> QED
    BY <2>1, <2>2
<1> QED
  BY <1>7, <1>8, <1>9 DEF full

\* Starting a receive keeps what the completed ones brought, also when it
\* completes at once.
LEMMA AsyncReceiveHolds ==
    ASSUME NEW buf, BufferType(buf), NEW in \in Seq(Completion), NEW n \in Nat,
           NEW q \in Seq(Completion), \A i \in DOMAIN q : Holds(buf, q[i]),
           AsyncReceiveFrom(buf, in, n, q)
    PROVE  /\ BufferType(buffer')
           /\ \A i \in DOMAIN done' : Holds(buffer', done'[i])
           /\ Len(done') >= Len(q)
<1>1. CASE n = 0 /\ in # <<>>
  <2> DEFINE h == Head(in)
  <2>1. h \in Completion /\ <<h>> \in Seq(Completion)
    BY <1>1, HeadTailProperties
  <2>2. done' = Append(q, h) /\ buffer' = Fill(buf, <<h>>)
    BY <1>1 DEF AsyncReceiveFrom
  <2> HIDE DEF h
  <2>3. /\ BufferType(buffer') /\ Holds(buffer', h)
        /\ \A r \in Completion : Holds(buf, r) => Holds(buffer', r)
    <3>1. 1 \in DOMAIN <<h>> /\ <<h>>[1] = h
      OBVIOUS
    <3> QED
      BY <2>1, <2>2, <3>1, FillHolds
  <2>4. /\ Len(q) \in Nat /\ DOMAIN q = 1 .. Len(q) /\ Len(done') = Len(q) + 1
        /\ DOMAIN done' = 1 .. Len(q) + 1 /\ done'[Len(q) + 1] = h
        /\ \A i \in 1 .. Len(q) : done'[i] = q[i]
    BY <2>1, <2>2, AppendProperties, LenProperties
  <2>5. ASSUME NEW i \in DOMAIN done' PROVE Holds(buffer', done'[i])
    <3>1. CASE i = Len(q) + 1
      BY <2>3, <2>4, <3>1
    <3>2. CASE i # Len(q) + 1
      <4>1. i \in DOMAIN q /\ done'[i] = q[i] /\ q[i] \in Completion
        BY <2>4, <3>2, ElementOfSeq
      <4> QED
        BY <2>3, <4>1
    <3> QED
      BY <3>1, <3>2
  <2> QED
    BY <2>3, <2>4, <2>5
<1>2. CASE ~(n = 0 /\ in # <<>>)
  <2>1. done' = q /\ buffer' = buf
    BY <1>2 DEF AsyncReceiveFrom
  <2> QED
    BY <2>1, LenProperties
<1> QED
  BY <1>1, <1>2

-----------------------------------------------------------------------------
(* The types of the handlers' results. *)

\* The parser finds no more services than were received.
LEMMA FiledServices ==
    ASSUME NEW r \in Completion, r.op = "read", NEW buf, Holds(buf, r),
           NEW k \in Parsed(buf, Size(r)), ProcessReply(buf, k),
           table \subseteq Entry, heard \in BOOLEAN
    PROVE  table' \subseteq Entry /\ heard' \in BOOLEAN
<1>1. buf.head \in Header
  BY DEF Holds
<1>2. Received(buf.head) \in Completion
  BY <1>1 DEF Completion
<1>3. Size(r) \in Nat /\ Size(Received(buf.head)) \in Nat
  BY <1>2, OfferedServices
<1>4. k \in Nat /\ k <= Size(r)
  BY <1>3 DEF Parsed, Min2
<1>5. \A i \in 1 .. k : buf.body[i] \in Service
  BY <1>3, <1>4 DEF Holds
<1>6. \A i \in 1 .. k :
          [be |-> buf.head.be, svc |-> buf.body[i], seq |-> buf.head.seq] \in Entry
  BY <1>1, <1>5 DEF Entry, Header
<1>7. CASE k = 0 \/ shuttingDown
  BY <1>7 DEF ProcessReply
<1>8. CASE ~(k = 0 \/ shuttingDown)
  <2>1. /\ heard' = TRUE
        /\ table' = table \cup {[be |-> buf.head.be, svc |-> buf.body[i],
                                 seq |-> buf.head.seq] : i \in 1 .. k}
    BY <1>8, Zenon DEF ProcessReply
  <2> QED
    BY <1>6, <2>1
<1> QED
  BY <1>7, <1>8

LEMMA HandlerKeepsMembers ==
    ASSUME Typed, MemberInv, NEW r \in Completion, NEW buf, BufferType(buf),
           Holds(buf, r), NEW in \in Seq(Completion), NEW n \in Nat,
           NEW q \in Seq(Completion), \A i \in DOMAIN q : Holds(buf, q[i]),
           HandleFrontendRead(r, buf, in, n, q),
           ahead' \in {NotExpired} \cup 0 .. Len(q)
    PROVE  MemberInv'
<1>1. UNCHANGED <<skipped, phase, shuttingDown>>
  BY DEF HandleFrontendRead
<1>2. table' \subseteq Entry /\ heard' \in BOOLEAN
  <2>1. CASE r.op = "read"
    BY <2>1, FiledServices DEF HandleFrontendRead, MemberInv
  <2>2. CASE r.op # "read"
    BY <2>2 DEF HandleFrontendRead, MemberInv
  <2> QED
    BY <2>1, <2>2
<1>3. /\ BufferType(buffer')
      /\ \A i \in DOMAIN done' : Holds(buffer', done'[i])
      /\ Len(done') >= Len(q)
  BY AsyncReceiveHolds DEF HandleFrontendRead
<1>4. Len(q) \in Nat /\ Len(done') \in Nat
  BY OneMore, LenProperties DEF HandleFrontendRead
<1>5. ahead' \in {NotExpired} \cup 0 .. Len(done')
  BY <1>3, <1>4
<1> QED
  BY <1>1, <1>2, <1>3, <1>5 DEF MemberInv

LEMMA FrontendReadKeepsMembers ==
    ASSUME Typed, MemberInv, FrontendRead
    PROVE  MemberInv'
<1>1. done \in Seq(Completion) /\ done # <<>>
  BY DEF FrontendRead, Typed
<1>2. /\ Len(done) \in Nat \ {0} /\ DOMAIN done = 1 .. Len(done)
      /\ Head(done) = done[1] /\ Head(done) \in Completion
      /\ Tail(done) \in Seq(Completion) /\ Len(Tail(done)) = Len(done) - 1
      /\ \A i \in 1 .. Len(done) - 1 : Tail(done)[i] = done[i + 1]
  BY <1>1, HeadTailProperties, LenProperties, EmptySeq
<1>3. DOMAIN Tail(done) = 1 .. Len(done) - 1
  BY <1>2, LenProperties
<1>4. \A i \in DOMAIN Tail(done) : Holds(buffer, Tail(done)[i])
  BY <1>2, <1>3 DEF MemberInv
<1>5. Holds(buffer, Head(done)) /\ BufferType(buffer)
  BY <1>2 DEF MemberInv
<1>6. ahead' \in {NotExpired} \cup 0 .. Len(Tail(done))
  BY <1>2 DEF FrontendRead, MemberInv, NotExpired
<1> QED
  BY <1>2, <1>4, <1>5, <1>6, HandlerKeepsMembers DEF FrontendRead, Typed

LEMMA SocketReadableKeepsMembers ==
    ASSUME Typed, MemberInv, SocketReadable
    PROVE  MemberInv'
<1> DEFINE k == Min2(armed, Len(socket))
           taken == SubSeq(socket, 1, k)
           in == SubSeq(socket, k + 1, Len(socket))
           rest == SubSeq(taken, 2, k)
           q == done \o rest
           full == Fill(buffer, taken)
<1>1. /\ socket \in Seq(Completion) /\ socket # <<>> /\ Len(socket) \in Nat \ {0}
      /\ armed \in Nat \ {0} /\ done \in Seq(Completion)
      /\ Len(done) \in Nat /\ DOMAIN done = 1 .. Len(done)
  BY LenProperties, EmptySeq DEF SocketReadable, Typed
<1>2. k \in Nat /\ 1 <= k /\ k <= armed /\ k <= Len(socket)
  BY <1>1 DEF Min2
<1>3. taken \in Seq(Completion) /\ Len(taken) = k
  BY <1>1, <1>2, SubSeqProperties
<1>4. in \in Seq(Completion) /\ armed - k \in Nat
  BY <1>1, <1>2, SubSeqProperties
<1>5. /\ HandleFrontendRead(taken[1], full, in, armed - k, q)
      /\ ahead' = ahead
  BY DEF SocketReadable
<1> HIDE DEF k, taken, in
<1>6. DOMAIN taken = 1 .. k
  BY <1>3, LenProperties
<1>7. /\ rest \in Seq(Completion) /\ Len(rest) = k - 1
      /\ \A i \in 1 .. k - 1 : rest[i] = taken[i + 1]
  BY <1>2, <1>3, SubSeqProperties
<1> HIDE DEF rest
<1>8. /\ q \in Seq(Completion) /\ Len(q) = Len(done) + (k - 1)
      /\ \A i \in 1 .. Len(done) + (k - 1) :
             q[i] = IF i <= Len(done) THEN done[i] ELSE rest[i - Len(done)]
  <2>1. /\ q \in Seq(Completion) /\ Len(q) = Len(done) + Len(rest)
        /\ \A i \in 1 .. Len(done) + Len(rest) :
               q[i] = IF i <= Len(done) THEN done[i] ELSE rest[i - Len(done)]
    BY <1>1, <1>7, ConcatProperties
  <2> HIDE DEF q
  <2> QED
    BY <1>7, <2>1
<1>9. DOMAIN q = 1 .. Len(done) + (k - 1)
  BY <1>8, LenProperties
<1> HIDE DEF q
<1>10. /\ BufferType(full)
       /\ \A i \in DOMAIN taken : Holds(full, taken[i])
       /\ \A r \in Completion : Holds(buffer, r) => Holds(full, r)
  BY <1>3, FillHolds DEF MemberInv
<1> HIDE DEF full
<1>11. ASSUME NEW i \in DOMAIN q PROVE Holds(full, q[i])
  <2>1. CASE i <= Len(done)
    <3>1. i \in DOMAIN done /\ q[i] = done[i] /\ done[i] \in Completion
      BY <1>1, <1>8, <1>9, <2>1, ElementOfSeq
    <3> QED
      BY <1>10, <3>1 DEF MemberInv
  <2>2. CASE ~(i <= Len(done))
    <3>1. i - Len(done) \in 1 .. k - 1 /\ q[i] = rest[i - Len(done)]
      BY <1>1, <1>2, <1>8, <1>9, <2>2
    <3>2. (i - Len(done)) + 1 \in DOMAIN taken
      BY <1>2, <1>6, <3>1
    <3> QED
      BY <1>7, <1>10, <3>1, <3>2
  <2> QED
    BY <2>1, <2>2
<1>12. taken[1] \in Completion /\ Holds(full, taken[1])
  BY <1>2, <1>3, <1>6, <1>10, ElementOfSeq
<1>13. ahead' \in {NotExpired} \cup 0 .. Len(q)
  BY <1>1, <1>2, <1>5, <1>8 DEF MemberInv
<1> QED
  BY <1>4, <1>5, <1>8, <1>10, <1>11, <1>12, <1>13, HandlerKeepsMembers

LEMMA WakeUpKeepsMembers ==
    ASSUME Typed, MemberInv, WakeUp
    PROVE  MemberInv'
<1>1. CASE shuttingDown
  BY <1>1 DEF WakeUp, ioVars, MemberInv
<1>2. CASE ~shuttingDown
  <2>1. /\ AsyncReceiveFrom(buffer, socket, armed, done)
        /\ phase' = "listening"
        /\ UNCHANGED <<skipped, heard, shuttingDown, ahead, table>>
    BY <1>2 DEF WakeUp, StartServiceDiscovery
  <2>2. /\ BufferType(buffer')
        /\ \A i \in DOMAIN done' : Holds(buffer', done'[i])
        /\ Len(done') >= Len(done)
    BY <2>1, AsyncReceiveHolds DEF Typed, MemberInv
  <2>3. Len(done) \in Nat /\ Len(done') \in Nat
    BY <2>1, OneMore, LenProperties DEF Typed
  <2>4. ahead' \in {NotExpired} \cup 0 .. Len(done')
    BY <2>1, <2>2, <2>3 DEF MemberInv
  <2> QED
    BY <2>1, <2>2, <2>4 DEF MemberInv
<1> QED
  BY <1>1, <1>2

LEMMA EmptyBufferType == BufferType(EmptyBuffer)
BY DEF BufferType, EmptyBuffer

LEMMA NextKeepsMembers == ReceiveInv /\ MemberInv /\ [Next]_vars => MemberInv'
<1> SUFFICES ASSUME Typed, MemberInv, [Next]_vars PROVE MemberInv'
  BY DEF ReceiveInv
<1>1. CASE TimerExpires
  BY <1>1, LenProperties DEF TimerExpires, ioVars, MemberInv, Typed
<1>2. CASE DeadlineTimer
  <2>1. table' \subseteq Entry /\ heard' \in BOOLEAN
    BY <1>2 DEF DeadlineTimer, CleanUp, LatestSequence, MemberInv
  <2>2. skipped' \in 0 .. MaxSkippedCycles
    BY <1>2, CycleAssumption DEF DeadlineTimer, CleanUp, MemberInv
  <2> QED
    BY <1>2, <2>1, <2>2 DEF DeadlineTimer, MemberInv
<1>3. CASE Arrive
  BY <1>3 DEF Arrive, cycleVars, MemberInv
<1>4. CASE RequestShutdown
  BY <1>4 DEF RequestShutdown, cycleVars, ioVars, MemberInv
<1>5. CASE Shutdown
  BY <1>5 DEF Shutdown, ioVars, MemberInv
<1>6. CASE ProcessReplyThrows
  <2>1. BufferType(buffer')
    BY <1>6, EmptyBufferType DEF ProcessReplyThrows
  <2>2. DOMAIN done' = {}
    BY <1>6, EmptySeq DEF ProcessReplyThrows
  <2>3. skipped' \in 0 .. MaxSkippedCycles
    BY <1>6, CycleAssumption DEF ProcessReplyThrows
  <2> QED
    BY <1>6, <2>1, <2>2, <2>3 DEF ProcessReplyThrows, MemberInv
<1>7. CASE UNCHANGED vars
  BY <1>7 DEF vars, MemberInv
<1> QED
  BY <1>1, <1>2, <1>3, <1>4, <1>5, <1>6, <1>7, FrontendReadKeepsMembers,
     SocketReadableKeepsMembers, WakeUpKeepsMembers DEF Next

\* The members of Engine keep their types: the handlers file only services, of
\* backends, in the table, whichever reply's remains they find in the buffer,
\* and the deadline timer waits for no more handlers than there are.
THEOREM TypeCorrect == Spec => []TypeOK
<1>1. Init => MemberInv
  <2> SUFFICES ASSUME Init PROVE MemberInv
    OBVIOUS
  <2>1. BufferType(buffer)
    BY EmptyBufferType DEF Init
  <2>2. DOMAIN done = {} /\ table \subseteq Entry
    BY EmptySeq DEF Init
  <2>3. skipped \in 0 .. MaxSkippedCycles
    BY CycleAssumption DEF Init
  <2>4. /\ heard \in BOOLEAN /\ shuttingDown \in BOOLEAN
        /\ phase = "listening" /\ ahead = NotExpired
    BY DEF Init
  <2> QED
    BY <2>1, <2>2, <2>3, <2>4 DEF MemberInv
<1>2. ReceiveInv /\ MemberInv => TypeOK
  BY DEF ReceiveInv, Typed, MemberInv, BufferType, TypeOK
<1> QED
  BY <1>1, <1>2, NextKeepsMembers, InvAlways, PTL DEF Spec
=============================================================================
