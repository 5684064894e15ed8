--------------------------- MODULE ServicesProofs ---------------------------
(***************************************************************************)
(* The proofs about the routing table that hold whatever the network does. *)
(*                                                                         *)
(* Most steps of the threads leave the lists and the forwarders alone.     *)
(* The three that do not are AddService, which appends to both, Erase,     *)
(* which takes an entry out of both, and Restart.   What Erase does to one *)
(* URI is stated once, as EraseAt, and used by every proof below and in    *)
(* ServicesOrderProofs.                                                    *)
(***************************************************************************)
EXTENDS Services, ListLemmas

-----------------------------------------------------------------------------
(* The operators. *)

LEMMA FirstOfProperties ==
    ASSUME NEW I \in SUBSET Nat, I # {}
    PROVE  FirstOf(I) \in I /\ \A j \in I : FirstOf(I) <= j
<1>1. \E i \in I : \A j \in I : i <= j
  BY LeastNumber
<1> QED
  BY <1>1 DEF FirstOf

\* Backends register URIs only.
LEMMA AddOrderType ==
    ASSUME NEW b \in Backend
    PROVE  AddOrder(b) \in Seq(Uri)
<1> DEFINE n == Len(Offer[b])
<1>1. Offer[b] \in Seq(Service) /\ n \in Nat
  BY OfferAssumption, LenProperties
<1>2. \A i \in 1 .. n : Offer[b][i] \in Service
  BY <1>1, ElementOfSeq
<1>3. ASSUME NEW i \in 1 .. 2 * n
      PROVE  AddOrder(b)[i] \in Uri
  <2>1. CASE i % 2 = 1
    <3>1. (i + 1) \div 2 \in 1 .. n
      BY <1>1, <2>1
    <3>2. Offer[b][(i + 1) \div 2] \in Service
      BY <1>2, <3>1
    <3> QED
      BY <2>1, <3>2 DEF AddOrder, Public, Uri
  <2>2. CASE i % 2 # 1
    <3>1. i \div 2 \in 1 .. n
      BY <1>1, <2>2
    <3>2. Offer[b][i \div 2] \in Service
      BY <1>2, <3>1
    <3> QED
      BY <2>2, <3>2 DEF AddOrder, Direct, Uri
  <2> QED
    BY <2>1, <2>2
<1>4. 2 * n \in Nat
  BY <1>1
<1>5. AddOrder(b) \in [1 .. 2 * n -> Uri]
  BY <1>3 DEF AddOrder
<1> QED
  BY <1>4, <1>5

LEMMA NextSeqType ==
    ASSUME NEW s \in SeqNum
    PROVE  NextSeq(s) \in SeqNum
BY CycleAssumption DEF SeqNum, NextSeq

\* A request is translated to a URI.
LEMMA TranslateType ==
    ASSUME NEW r \in Uri
    PROVE  Translate(r) \in Uri
<1> DEFINE match == {p \in Uri : prefixMap[p] # {} /\ StartsWith(r, p)}
<1>1. CASE match = {}
  BY <1>1 DEF Translate
<1>2. CASE match # {}
  <2>1. match \in SUBSET {p \in Uri : StartsWith(r, p)}
    OBVIOUS
  <2>2. \E p \in match : \A q \in match : StartsWith(q, p)
    BY <1>2, <2>1, UnderAssumption
  <2>3. Translate(r) = CHOOSE p \in match : \A q \in match : StartsWith(q, p)
    BY <1>2 DEF Translate
  <2> QED
    BY <2>2, <2>3
<1> QED
  BY <1>1, <1>2

-----------------------------------------------------------------------------
(* What a step does to the lists. *)

\* TypeOK, for the lists and the loops over them only.
ListsOK ==
    /\ lists \in [Uri -> Seq(Entry)]
    /\ fwd \in [Uri -> Seq(Backend)]
    /\ it \in [Uri -> Nat \ {0}]

LEMMA ListFacts ==
    ASSUME ListsOK, NEW u \in Uri
    PROVE  /\ lists[u] \in Seq(Entry) /\ fwd[u] \in Seq(Backend)
           /\ Len(lists[u]) \in Nat /\ Len(fwd[u]) \in Nat
           /\ DOMAIN lists[u] = 1 .. Len(lists[u])
           /\ DOMAIN fwd[u] = 1 .. Len(fwd[u])
           /\ \A i \in DOMAIN lists[u] : /\ lists[u][i] \in Entry
                                         /\ lists[u][i].be \in Backend
                                         /\ lists[u][i].seq \in SeqNum
           /\ \A i \in DOMAIN fwd[u] : fwd[u][i] \in Backend
<1>1. lists[u] \in Seq(Entry) /\ fwd[u] \in Seq(Backend)
  BY DEF ListsOK
<1>2. \A i \in DOMAIN lists[u] : lists[u][i] \in Entry
  BY <1>1, ElementOfSeq, LenProperties
<1>3. \A i \in DOMAIN fwd[u] : fwd[u][i] \in Backend
  BY <1>1, ElementOfSeq, LenProperties
<1> QED
  BY <1>1, <1>2, <1>3, LenProperties DEF Entry

\* A forwarder has a backend if and only if its list does.
LEMMA SameBackendsHas ==
    ASSUME ListsOK, SameBackends, NEW u \in Uri, NEW b \in Backend
    PROVE  (\E i \in DOMAIN lists[u] : lists[u][i].be = b)
             <=> \E k \in DOMAIN fwd[u] : fwd[u][k] = b
<1> DEFINE P == {i \in DOMAIN lists[u] : lists[u][i].be = b}
           Q == {i \in DOMAIN fwd[u] : fwd[u][i] = b}
<1>1. Cardinality(P) = Cardinality(Q)
  BY DEF SameBackends
<1>2. P \in SUBSET (1 .. Len(lists[u])) /\ Q \in SUBSET (1 .. Len(fwd[u]))
  BY ListFacts
<1>3. IsFiniteSet(P) /\ IsFiniteSet(Q)
  <2>1. /\ IsFiniteSet(1 .. Len(lists[u]))
        /\ IsFiniteSet(1 .. Len(fwd[u]))
    BY FS_Interval, ListFacts
  <2> QED
    BY <1>2, <2>1, FS_Subset
<1>4. P = {} <=> Q = {}
  BY <1>1, <1>3, FS_EmptySet
<1> QED
  BY <1>4

\* One round of the loop over the list of u erases the entry it is at, if that
\* is doomed, and the first occurrence of its backend in the forwarder.
EraseRound(u, i, k) ==
    /\ i = it[u] /\ it'[u] = it[u]
    /\ i \in DoomedAt(u)
    /\ k \in DOMAIN fwd[u]
    /\ fwd[u][k] = lists[u][i].be
    /\ \A j \in DOMAIN fwd[u] : fwd[u][j] = lists[u][i].be => k <= j
    /\ lists'[u] = RemoveAt(lists[u], i)
    /\ fwd'[u] = RemoveAt(fwd[u], k)

LEMMA EraseAt ==
    ASSUME ListsOK, SameBackends, Erase, NEW u \in Uri, Erasing(u)
    PROVE  \E i \in DOMAIN lists[u], k \in DOMAIN fwd[u] : EraseRound(u, i, k)
<1> DEFINE i == it[u]
           b == lists[u][i].be
           K == {j \in DOMAIN fwd[u] : fwd[u][j] = b}
           k == FirstOf(K)
<1>1. K \in SUBSET Nat
  BY ListFacts
<1>2. i \in DOMAIN lists[u]
  <2>1. i \in Nat /\ i >= 1 /\ Len(lists[u]) \in Nat /\ ~(i > Len(lists[u]))
    BY ListFacts DEF ListsOK, Erasing, AtEnd
  <2> QED
    BY <2>1, ListFacts
<1>3. i \in DoomedAt(u)
  BY <1>2 DEF DoomedAt, Erasing, Visited
<1>4. K # {}
  <2>1. b \in Backend
    BY <1>2, ListFacts
  <2> QED
    BY <1>2, <2>1, SameBackendsHas
<1>5. k \in K /\ \A j \in K : k <= j
  BY <1>1, <1>4, FirstOfProperties
<1>6. b \in ToSet(fwd[u])
  BY <1>4 DEF ToSet
<1>7. lists'[u] = RemoveAt(lists[u], i) /\ fwd'[u] = RemoveAt(fwd[u], k)
  BY <1>6 DEF Erase, EraseList, EraseForwarder, ForwarderRemoveBackend, Visited
<1>8. it'[u] = it[u]
  BY DEF Erase, Advance
<1> HIDE DEF i, k
<1> QED
  BY <1>2, <1>3, <1>5, <1>7, <1>8 DEF EraseRound, i

LEMMA EraseNothing ==
    ASSUME Erase, NEW u \in Uri, ~Erasing(u)
    PROVE  lists'[u] = lists[u] /\ fwd'[u] = fwd[u]
BY DEF Erase, EraseList, EraseForwarder

\* The lists after a round hold the entries that they did before, without
\* doomed ones, and have lost no other.

LEMMA EraseSurvivors ==
    ASSUME ListsOK, SameBackends, Erase, NEW u \in Uri
    PROVE  /\ lists'[u] \in Seq(Entry) /\ fwd'[u] \in Seq(Backend)
           /\ \A j \in DOMAIN lists'[u] :
                  \E m \in DOMAIN lists[u] : lists[u][m] = lists'[u][j]
           /\ \A m \in DOMAIN lists[u] : ~Doomed(u, lists[u][m]) =>
                  \E j \in DOMAIN lists'[u] : lists'[u][j] = lists[u][m]
<1>1. CASE ~Erasing(u)
  BY <1>1, EraseNothing, ListFacts
<1>2. CASE Erasing(u)
  <2>1. PICK i \in DOMAIN lists[u], k \in DOMAIN fwd[u] : EraseRound(u, i, k)
    BY <1>2, EraseAt
  <2>2. /\ lists[u] \in Seq(Entry) /\ fwd[u] \in Seq(Backend)
        /\ lists'[u] = RemoveAt(lists[u], i)
        /\ fwd'[u] = RemoveAt(fwd[u], k)
        /\ Doomed(u, lists[u][i])
        /\ Len(lists[u]) \in Nat /\ i \in 1 .. Len(lists[u])
        /\ DOMAIN lists[u] = 1 .. Len(lists[u])
    BY <2>1, ListFacts DEF EraseRound, DoomedAt
  <2>3. /\ lists'[u] \in Seq(Entry) /\ fwd'[u] \in Seq(Backend)
        /\ Len(lists'[u]) = Len(lists[u]) - 1
        /\ \A j \in 1 .. Len(lists[u]) - 1 :
               lists'[u][j] = IF j < i THEN lists[u][j] ELSE lists[u][j + 1]
    BY <2>1, <2>2, RemoveAtProperties
  <2>4. DOMAIN lists'[u] = 1 .. Len(lists[u]) - 1
    BY <2>3, LenProperties
  <2>5. ASSUME NEW j \in DOMAIN lists'[u]
        PROVE  \E m \in DOMAIN lists[u] : lists[u][m] = lists'[u][j]
    <3>1. j \in 1 .. Len(lists[u]) - 1
      BY <2>4, <2>5
    <3>2. j \in DOMAIN lists[u] /\ j + 1 \in DOMAIN lists[u]
      BY <2>2, <3>1
    <3> QED
      BY <2>3, <3>1, <3>2
  <2>6. ASSUME NEW m \in DOMAIN lists[u], ~Doomed(u, lists[u][m])
        PROVE  \E j \in DOMAIN lists'[u] : lists'[u][j] = lists[u][m]
    <3>1. m # i
      BY <2>2, <2>6
    <3>2. CASE m < i
      <4>1. m \in 1 .. Len(lists[u]) - 1
        BY <2>2, <3>2
      <4> QED
        BY <2>3, <2>4, <3>2, <4>1
    <3>3. CASE m > i
      <4>1. m - 1 \in 1 .. Len(lists[u]) - 1 /\ ~ (m - 1 < i) /\ (m - 1) + 1 = m
        BY <2>2, <3>3
      <4> QED
        BY <2>3, <2>4, <4>1
    <3> QED
      BY <2>2, <3>1, <3>2, <3>3
  <2> QED
    BY <2>3, <2>5, <2>6
<1> QED
  BY <1>1, <1>2

-----------------------------------------------------------------------------
(* The inductive invariant. *)

\* itsMutex: nobody picks a slot while somebody writes.
LockInv == writing # Nothing => \A t \in Thread : http[t].pc # "slot"

\* The slot a thread has picked exists in the forwarder.
SlotInv ==
    \A t \in Thread : http[t].pc = "slot" =>
        http[t].slot \in DOMAIN fwd[http[t].uri]

\* A list and its forwarder are of one length.
SameLength == \A u \in Uri : Len(lists[u]) = Len(fwd[u])

\* The loops of a writer leave nothing behind that they were to erase.
IterInv ==
    writing # Nothing =>
        \A u \in Uri : \A j \in DOMAIN lists[u] :
            j < it[u] => ~Doomed(u, lists[u][j])

TableInv ==
    /\ TypeOK
    /\ LockInv
    /\ SlotInv
    /\ IterInv
    /\ SameLength
    /\ SameBackends

LEMMA TypeOKLists ==
    ASSUME TypeOK
    PROVE  ListsOK
BY DEF TypeOK, ListsOK

LEMMA ThreadFacts ==
    ASSUME TypeOK, NEW t \in Thread
    PROVE  /\ http[t].pc = "slot" => http[t].uri \in Uri /\ http[t].slot \in Nat
           /\ http[t].pc = "holding" => http[t].be \in Backend
BY DEF TypeOK, Idle

LEMMA SlotExists ==
    ASSUME TableInv
    PROVE  SlotInRange
<1> SUFFICES ASSUME NEW t \in Thread, http[t].pc = "slot"
             PROVE  http[t].slot \in DOMAIN lists[http[t].uri]
  BY DEF SlotInRange
<1>1. http[t].uri \in Uri
  BY ThreadFacts DEF TableInv
<1> QED
  BY <1>1, TypeOKLists, ListFacts DEF TableInv, SlotInv, SameLength

LEMMA InitTable ==
    ASSUME Init
    PROVE  TableInv
<1>1. TypeOK
  <2>1. NextSeq(0) \in SeqNum
    BY NextSeqType, CycleAssumption DEF SeqNum
  <2>2. <<>> \in Seq(Entry) /\ <<>> \in Seq(Backend)
    OBVIOUS
  <2>3. lists \in [Uri -> Seq(Entry)] /\ fwd \in [Uri -> Seq(Backend)]
    BY <2>2 DEF Init, NoEntries
  <2>4. /\ prefixMap \in [Uri -> SUBSET Entry]
        /\ sentinel \in [Backend -> {Unknown} \cup 0 .. MaxUnanswered]
        /\ http \in [Thread -> {Idle}]
        /\ it \in [Uri -> Nat \ {0}]
    BY DEF Init, NoPrefixes, NoSentinels, AllIdle, Begin
  <2>5. skipped \in 0 .. MaxSkippedCycles
    BY CycleAssumption DEF Init
  <2> HIDE DEF Idle, Nothing
  <2> QED
    BY <2>1, <2>3, <2>4, <2>5 DEF Init, TypeOK
<1>2. LockInv /\ SlotInv /\ IterInv /\ SameLength
  BY DEF Init, LockInv, SlotInv, IterInv, SameLength, NoEntries, AllIdle, Idle
<1>3. SameBackends
  BY DEF Init, SameBackends, NoEntries
<1> QED
  BY <1>1, <1>2, <1>3 DEF TableInv

\* The steps that leave the lists and the forwarders as they are.
LEMMA QuietSteps ==
    ASSUME [Next]_vars, ~AddService, ~Erase, ~Restart
    PROVE  lists' = lists /\ fwd' = fwd
BY DEF Next, IoNext, HttpNext, vars, tableVars, ProcessReply, FinishReply,
       LatestSequence, FinishLatestSequence, SkipCycle, GetSlot, GetService,
       SignalBackendConnection, SetBackendAlive, RemoveBackend, FinishRemove

\* addService appends one entry under one URI.
LEMMA AddServiceAt ==
    ASSUME TypeOK, AddService
    PROVE  /\ reply.be \in Backend /\ reply.seq \in SeqNum /\ reply.done \in Nat
           /\ reply.done + 1 \in DOMAIN AddOrder(reply.be)
           /\ AddOrder(reply.be)[reply.done + 1] \in Uri
           /\ [be |-> reply.be, seq |-> reply.seq] \in Entry
           /\ \A u \in Uri :
                /\ u = AddOrder(reply.be)[reply.done + 1] =>
                     /\ lists'[u] = Append(lists[u],
                                        [be |-> reply.be, seq |-> reply.seq])
                     /\ fwd'[u] = Append(fwd[u], reply.be)
                /\ u # AddOrder(reply.be)[reply.done + 1] =>
                     lists'[u] = lists[u] /\ fwd'[u] = fwd[u]
<1>1. reply.be \in Backend /\ reply.seq \in SeqNum /\ reply.done \in Nat
  BY DEF AddService, TypeOK, Nothing
<1>2. AddOrder(reply.be) \in Seq(Uri)
  BY <1>1, AddOrderType
<1>3. reply.done + 1 \in DOMAIN AddOrder(reply.be)
  BY <1>1, <1>2, LenProperties DEF AddService
<1>4. AddOrder(reply.be)[reply.done + 1] \in Uri
  BY <1>2, <1>3, LenProperties, ElementOfSeq
<1>5. lists \in [Uri -> Seq(Entry)] /\ fwd \in [Uri -> Seq(Backend)]
  BY DEF TypeOK
<1> HIDE DEF TypeOK
<1> QED
  BY <1>1, <1>3, <1>4, <1>5 DEF AddService, ForwarderAddBackend, Entry

\* A loop that is over an entry has passed it or erased it.
LEMMA LoopsType ==
    ASSUME ListsOK, [Next]_vars
    PROVE  it' \in [Uri -> Nat \ {0}]
<1>1. it \in [Uri -> Nat \ {0}]
  BY DEF ListsOK
<1>2. CASE Erase
  <2>1. \A u \in Uri : Advance(u) \in Nat \ {0}
    BY <1>1 DEF Advance
  <2> QED
    BY <1>2, <2>1 DEF Erase
<1>3. CASE it' = Begin
  BY <1>3 DEF Begin
<1>4. CASE it' = it
  BY <1>1, <1>4
<1> QED
  BY <1>2, <1>3, <1>4
     DEF Next, IoNext, HttpNext, vars, ProcessReply, AddService, FinishReply,
         LatestSequence, FinishLatestSequence, SkipCycle, GetSlot, GetService,
         SignalBackendConnection, SetBackendAlive, RemoveBackend, FinishRemove,
         Restart

LEMMA ListsType ==
    ASSUME TypeOK, SameBackends, [Next]_vars
    PROVE  ListsOK'
<1>1. ListsOK /\ it' \in [Uri -> Nat \ {0}]
  BY TypeOKLists, LoopsType
<1>2. CASE AddService
  <2>1. lists' \in [Uri -> Seq(Entry)]
    <3>1. DOMAIN lists' = Uri /\ lists' = [u \in Uri |-> lists'[u]]
      BY <1>1, <1>2 DEF AddService, ListsOK
    <3>2. ASSUME NEW u \in Uri
          PROVE  lists'[u] \in Seq(Entry)
      <4>1. lists[u] \in Seq(Entry)
        BY <1>1 DEF ListsOK
      <4> QED
        BY <1>2, <4>1, AddServiceAt, AppendProperties
    <3> QED
      BY <3>1, <3>2
  <2>2. fwd' \in [Uri -> Seq(Backend)]
    <3>1. DOMAIN fwd' = Uri /\ fwd' = [u \in Uri |-> fwd'[u]]
      BY <1>1, <1>2 DEF AddService, ListsOK
    <3>2. ASSUME NEW u \in Uri
          PROVE  fwd'[u] \in Seq(Backend)
      <4>1. fwd[u] \in Seq(Backend)
        BY <1>1 DEF ListsOK
      <4> QED
        BY <1>2, <4>1, AddServiceAt, AppendProperties
    <3> QED
      BY <3>1, <3>2
  <2> QED
    BY <1>1, <2>1, <2>2 DEF ListsOK
<1>3. CASE Erase
  <2>1. /\ lists' = [u \in Uri |-> lists'[u]]
        /\ fwd' = [u \in Uri |-> fwd'[u]]
    BY <1>3 DEF Erase
  <2>2. \A u \in Uri : lists'[u] \in Seq(Entry) /\ fwd'[u] \in Seq(Backend)
    BY <1>1, <1>3, EraseSurvivors
  <2> QED
    BY <1>1, <2>1, <2>2 DEF ListsOK
<1>4. CASE Restart
  BY <1>1, <1>4 DEF Restart, ListsOK, NoEntries
<1>5. CASE ~AddService /\ ~Erase /\ ~Restart
  BY <1>1, <1>5, QuietSteps DEF ListsOK
<1> QED
  BY <1>2, <1>3, <1>4, <1>5

\* A step preserves the types.
LEMMA TypeStep ==
    ASSUME TypeOK, SlotInRange, SameBackends, [Next]_vars
    PROVE  TypeOK'
<1>1. /\ lists' \in [Uri -> Seq(Entry)] /\ fwd' \in [Uri -> Seq(Backend)]
      /\ it' \in [Uri -> Nat \ {0}]
  BY ListsType DEF ListsOK
<1>2. NextSeq(cur) \in SeqNum
  BY NextSeqType DEF TypeOK
<1>3. ASSUME NEW b \in Backend, NEW s \in expected, ProcessReply(b, s)
      PROVE  TypeOK'
  BY <1>1, <1>3 DEF TypeOK, ProcessReply, tableVars
<1>4. CASE AddService
  <2>1. /\ reply.be \in Backend /\ reply.seq \in SeqNum /\ reply.done \in Nat
        /\ [be |-> reply.be, seq |-> reply.seq] \in Entry
    BY <1>4, AddServiceAt
  <2>2. prefixMap' \in [Uri -> SUBSET Entry]
    BY <1>4, <2>1 DEF AddService, AddPrefix, TypeOK
  <2>3. sentinel' \in [Backend -> {Unknown} \cup 0 .. MaxUnanswered]
    BY <1>4, <2>1, BoundAssumption DEF AddService, NewSentinel, TypeOK
  <2>4. reply' \in [op : {"reply"}, be : Backend, seq : SeqNum, done : Nat]
    <3>1. reply \in [op : {"reply"}, be : Backend, seq : SeqNum, done : Nat]
      BY <1>4 DEF AddService, TypeOK, Nothing
    <3>2. reply' = [reply EXCEPT !.done = @ + 1]
      BY <1>4 DEF AddService
    <3> QED
      BY <3>1, <3>2
  <2> QED
    BY <1>1, <1>4, <2>2, <2>3, <2>4 DEF AddService, TypeOK, cycleVars
<1>5. CASE FinishReply
  <2>1. info' \subseteq Entry
    BY <1>5 DEF FinishReply, AddBackendInfoRequest, TypeOK, Nothing, Entry
  <2> QED
    BY <1>1, <1>5, <2>1 DEF FinishReply, TypeOK
<1>6. CASE LatestSequence
  BY <1>1, <1>6 DEF LatestSequence, TypeOK, tableVars, cycleVars
<1>7. CASE FinishLatestSequence
  <2>1. info' \subseteq Entry /\ skipped' \in 0 .. MaxSkippedCycles
    BY <1>7, CycleAssumption DEF FinishLatestSequence, TypeOK
  <2> QED
    BY <1>1, <1>2, <1>7, <2>1 DEF FinishLatestSequence, NextHeartbeat, TypeOK
<1>8. CASE SkipCycle
  <2>1. skipped' \in 0 .. MaxSkippedCycles
    BY <1>8, CycleAssumption DEF SkipCycle, TypeOK
  <2> QED
    BY <1>1, <1>2, <1>8, <2>1 DEF SkipCycle, NextHeartbeat, TypeOK, tableVars
<1>9. ASSUME NEW t \in Thread, NEW r \in Uri, GetSlot(t, r)
      PROVE  TypeOK'
  <2>1. Translate(r) \in Uri
    BY TranslateType
  <2>2. \A i \in Slots(Translate(r)) : i \in Nat
    BY <2>1, TypeOKLists, ListFacts DEF Slots
  <2>3. http' \in [Thread -> {Idle} \cup [pc : {"slot"}, uri : Uri, slot : Nat]
                                \cup [pc : {"holding"}, be : Backend]]
    BY <1>9, <2>1, <2>2 DEF GetSlot, TypeOK
  <2> QED
    BY <1>1, <1>9, <2>3 DEF GetSlot, TypeOK, tableVars, cycleVars
<1>10. ASSUME NEW t \in Thread, GetService(t)
       PROVE  TypeOK'
  <2>1. http[t].uri \in Uri
    BY <1>10, ThreadFacts DEF GetService
  <2>2. lists[http[t].uri][http[t].slot].be \in Backend
    BY <1>10, <2>1, TypeOKLists, ListFacts DEF GetService, SlotInRange
  <2>3. http' \in [Thread -> {Idle} \cup [pc : {"slot"}, uri : Uri, slot : Nat]
                                \cup [pc : {"holding"}, be : Backend]]
    BY <1>10, <2>2 DEF GetService, TypeOK
  <2> QED
    BY <1>1, <1>10, <2>3 DEF GetService, TypeOK, tableVars, cycleVars
<1>11. ASSUME NEW t \in Thread, SignalBackendConnection(t)
       PROVE  TypeOK'
  <2>1. http[t].be \in Backend
    BY <1>11, ThreadFacts DEF SignalBackendConnection
  <2>2. sentinel' \in [Backend -> {Unknown} \cup 0 .. MaxUnanswered]
    BY <1>11, <2>1, BoundAssumption
       DEF SignalBackendConnection, SignalSentConnection, TypeOK
  <2> QED
    BY <1>1, <1>11, <2>2 DEF SignalBackendConnection, TypeOK, tableVars, cycleVars
<1>12. ASSUME NEW t \in Thread, SetBackendAlive(t)
       PROVE  TypeOK'
  <2>1. http[t].be \in Backend
    BY <1>12, ThreadFacts DEF SetBackendAlive
  <2>2. sentinel' \in [Backend -> {Unknown} \cup 0 .. MaxUnanswered]
    <3>1. \/ sentinel' = [sentinel EXCEPT ![http[t].be] = 0]
          \/ sentinel' = sentinel
      BY <1>12 DEF SetBackendAlive, SetAlive
    <3>2. sentinel \in [Backend -> {Unknown} \cup 0 .. MaxUnanswered]
      BY DEF TypeOK
    <3> QED
      BY <2>1, <3>1, <3>2, BoundAssumption
  <2>3. http' \in [Thread -> {Idle} \cup [pc : {"slot"}, uri : Uri, slot : Nat]
                                \cup [pc : {"holding"}, be : Backend]]
    BY <1>12 DEF SetBackendAlive, TypeOK
  <2> QED
    BY <1>1, <1>12, <2>2, <2>3 DEF SetBackendAlive, TypeOK, tableVars, cycleVars
<1>13. ASSUME NEW t \in Thread, NEW s \in RemoveService, RemoveBackend(t, s)
       PROVE  TypeOK'
  <2>1. http[t].be \in Backend
    BY <1>13, ThreadFacts DEF RemoveBackend
  <2>2. http' \in [Thread -> {Idle} \cup [pc : {"slot"}, uri : Uri, slot : Nat]
                                \cup [pc : {"holding"}, be : Backend]]
    BY <1>13 DEF RemoveBackend, TypeOK
  <2>3. writing' \in [op : {"remove"}, be : Backend,
                      svc : Service \cup {AnyService}]
    BY <1>13, <2>1, RemoveAssumption DEF RemoveBackend
  <2> QED
    BY <1>1, <1>13, <2>1, <2>2, <2>3 DEF RemoveBackend, TypeOK, tableVars
<1>14. CASE Erase
  <2>1. prefixMap' \in [Uri -> SUBSET Entry]
    BY <1>14 DEF Erase, PrefixRemoveBackend, TypeOK
  <2> QED
    BY <1>1, <1>14, <2>1 DEF Erase, TypeOK, cycleVars
<1>15. CASE FinishRemove
  BY <1>1, <1>15 DEF FinishRemove, TypeOK, tableVars, cycleVars
<1>16. CASE Restart
  <2>1. NextSeq(0) \in SeqNum
    BY NextSeqType, CycleAssumption DEF SeqNum
  <2>2. /\ prefixMap' \in [Uri -> SUBSET Entry]
        /\ sentinel' \in [Backend -> {Unknown} \cup 0 .. MaxUnanswered]
        /\ http' \in [Thread -> {Idle}]
    BY <1>16 DEF Restart, NoPrefixes, NoSentinels, AllIdle
  <2>3. skipped' \in 0 .. MaxSkippedCycles
    BY <1>16, CycleAssumption DEF Restart
  <2> HIDE DEF Idle, Nothing
  <2> QED
    BY <1>1, <1>16, <2>1, <2>2, <2>3 DEF Restart, TypeOK
<1>17. CASE UNCHANGED vars
  BY <1>17 DEF vars, TypeOK
<1> QED
  BY <1>3, <1>4, <1>5, <1>6, <1>7, <1>8, <1>9, <1>10, <1>11, <1>12, <1>13,
     <1>14, <1>15, <1>16, <1>17 DEF Next, IoNext, HttpNext

\* Erasing takes one of the same backend from the list and from the forwarder.
LEMMA CountErase ==
    ASSUME ListsOK, SameBackends, SameLength, NEW u \in Uri,
           NEW i \in DOMAIN lists[u], NEW k \in DOMAIN fwd[u], EraseRound(u, i, k)
    PROVE  /\ Len(lists'[u]) = Len(fwd'[u])
           /\ \A b \in Backend :
                  Cardinality({j \in DOMAIN lists'[u] : lists'[u][j].be = b})
                    = Cardinality({j \in DOMAIN fwd'[u] : fwd'[u][j] = b})
<1> DEFINE s == lists[u]
           f == fwd[u]
           s1 == RemoveAt(s, i)
           f1 == RemoveAt(f, k)
<1>1. lists'[u] = s1 /\ fwd'[u] = f1 /\ f[k] = s[i].be
  BY DEF EraseRound
<1>2. s \in Seq(Entry) /\ f \in Seq(Backend) /\ s[i] \in Entry
  BY ListFacts
<1>3. /\ s1 \in Seq(Entry) /\ Len(s1) = Len(s) - 1
      /\ f1 \in Seq(Backend) /\ Len(f1) = Len(f) - 1
  BY <1>2, RemoveAtProperties
<1>4. Len(s) = Len(f)
  BY DEF SameLength
<1>5. ASSUME NEW b \in Backend
      PROVE  Cardinality({j \in DOMAIN s1 : s1[j].be = b})
               = Cardinality({j \in DOMAIN f1 : f1[j] = b})
  <2> DEFINE T == {e \in Entry : e.be = b}
  <2>1. /\ {j \in DOMAIN s : s[j].be = b} = Positions(s, T)
        /\ {j \in DOMAIN f : f[j] = b} = Positions(f, {b})
    BY <1>2, ListFacts DEF Positions
  <2>2. /\ {j \in DOMAIN s1 : s1[j].be = b} = Positions(s1, T)
        /\ {j \in DOMAIN f1 : f1[j] = b} = Positions(f1, {b})
    <3>1. \A j \in DOMAIN s1 : s1[j] \in Entry
      BY <1>3, ElementOfSeq, LenProperties
    <3> HIDE DEF s1, f1
    <3> QED
      BY <3>1 DEF Positions
  <2>3. Cardinality(Positions(s, T)) = Cardinality(Positions(f, {b}))
    BY <2>1 DEF SameBackends
  <2>4. /\ Cardinality(Positions(s1, T))
             = Cardinality(Positions(s, T)) - IF s[i] \in T THEN 1 ELSE 0
        /\ Cardinality(Positions(f1, {b}))
             = Cardinality(Positions(f, {b})) - IF f[k] \in {b} THEN 1 ELSE 0
    BY <1>2, CountRemoveAt
  <2>5. s[i] \in T <=> f[k] \in {b}
    BY <1>1, <1>2
  <2> HIDE DEF T, s, f, s1, f1
  <2> QED
    BY <2>2, <2>3, <2>4, <2>5
<1> HIDE DEF s1, f1, s, f
<1> QED
  BY <1>1, <1>3, <1>4, <1>5

\* addService appends the same backend to both.
LEMMA CountAdd ==
    ASSUME ListsOK, SameBackends, SameLength, NEW u \in Uri, NEW e \in Entry,
           lists'[u] = Append(lists[u], e), fwd'[u] = Append(fwd[u], e.be)
    PROVE  /\ Len(lists'[u]) = Len(fwd'[u])
           /\ \A b \in Backend :
                  Cardinality({j \in DOMAIN lists'[u] : lists'[u][j].be = b})
                    = Cardinality({j \in DOMAIN fwd'[u] : fwd'[u][j] = b})
<1> DEFINE s == lists[u]
           f == fwd[u]
           s1 == Append(s, e)
           f1 == Append(f, e.be)
<1>1. e.be \in Backend
  BY DEF Entry
<1>2. s \in Seq(Entry) /\ f \in Seq(Backend)
  BY ListFacts
<1>3. /\ s1 \in Seq(Entry) /\ Len(s1) = Len(s) + 1
      /\ f1 \in Seq(Backend) /\ Len(f1) = Len(f) + 1
  BY <1>1, <1>2, AppendProperties
<1>4. Len(s) = Len(f)
  BY DEF SameLength
<1>5. ASSUME NEW b \in Backend
      PROVE  Cardinality({j \in DOMAIN s1 : s1[j].be = b})
               = Cardinality({j \in DOMAIN f1 : f1[j] = b})
  <2> DEFINE T == {d \in Entry : d.be = b}
  <2>1. /\ {j \in DOMAIN s : s[j].be = b} = Positions(s, T)
        /\ {j \in DOMAIN f : f[j] = b} = Positions(f, {b})
    BY <1>2, ListFacts DEF Positions
  <2>2. /\ {j \in DOMAIN s1 : s1[j].be = b} = Positions(s1, T)
        /\ {j \in DOMAIN f1 : f1[j] = b} = Positions(f1, {b})
    <3>1. \A j \in DOMAIN s1 : s1[j] \in Entry
      BY <1>3, ElementOfSeq, LenProperties
    <3> HIDE DEF s1, f1
    <3> QED
      BY <3>1 DEF Positions
  <2>3. Cardinality(Positions(s, T)) = Cardinality(Positions(f, {b}))
    BY <2>1 DEF SameBackends
  <2>4. /\ Cardinality(Positions(s1, T))
             = Cardinality(Positions(s, T)) + IF e \in T THEN 1 ELSE 0
        /\ Cardinality(Positions(f1, {b}))
             = Cardinality(Positions(f, {b})) + IF e.be \in {b} THEN 1 ELSE 0
    BY <1>1, <1>2, CountAppend
  <2>5. e \in T <=> e.be \in {b}
    OBVIOUS
  <2> HIDE DEF T, s, f, s1, f1
  <2> QED
    BY <2>2, <2>3, <2>4, <2>5
<1> HIDE DEF s1, f1
<1>6. lists'[u] = s1 /\ fwd'[u] = f1
  BY DEF s1, f1
<1> HIDE DEF s, f
<1> QED
  BY <1>3, <1>4, <1>5, <1>6

\* A step preserves that the forwarders match the lists.
LEMMA CountStep ==
    ASSUME TypeOK, SameBackends, SameLength, [Next]_vars
    PROVE  SameBackends' /\ SameLength'
<1> DEFINE Matches(u) ==
               /\ Len(lists'[u]) = Len(fwd'[u])
               /\ \A b \in Backend :
                      Cardinality({j \in DOMAIN lists'[u] : lists'[u][j].be = b})
                        = Cardinality({j \in DOMAIN fwd'[u] : fwd'[u][j] = b})
<1>1. ListsOK
  BY TypeOKLists
<1>2. ASSUME NEW u \in Uri, lists'[u] = lists[u], fwd'[u] = fwd[u]
      PROVE  Matches(u)
  BY <1>2 DEF SameBackends, SameLength
<1>3. ASSUME NEW u \in Uri
      PROVE  Matches(u)
  <2>1. CASE AddService
    <3> DEFINE e == [be |-> reply.be, seq |-> reply.seq]
    <3>1. CASE u = AddOrder(reply.be)[reply.done + 1]
      <4>1. /\ e \in Entry /\ e.be = reply.be
            /\ lists'[u] = Append(lists[u], e) /\ fwd'[u] = Append(fwd[u], reply.be)
        BY <2>1, <3>1, AddServiceAt
      <4> HIDE DEF e
      <4> QED
        BY <1>1, <4>1, CountAdd
    <3>2. CASE u # AddOrder(reply.be)[reply.done + 1]
      <4>1. lists'[u] = lists[u] /\ fwd'[u] = fwd[u]
        BY <2>1, <3>2, AddServiceAt
      <4> QED
        BY <1>2, <4>1
    <3> QED
      BY <3>1, <3>2
  <2>2. CASE Erase
    <3>1. CASE ~Erasing(u)
      BY <1>2, <2>2, <3>1, EraseNothing
    <3>2. CASE Erasing(u)
      <4>1. PICK i \in DOMAIN lists[u], k \in DOMAIN fwd[u] : EraseRound(u, i, k)
        BY <1>1, <2>2, <3>2, EraseAt
      <4> QED
        BY <1>1, <4>1, CountErase
    <3> QED
      BY <3>1, <3>2
  <2>3. CASE Restart
    <3>1. lists'[u] = <<>> /\ fwd'[u] = <<>>
      BY <2>3 DEF Restart, NoEntries
    <3> QED
      BY <3>1
  <2>4. CASE ~AddService /\ ~Erase /\ ~Restart
    BY <1>2, <2>4, QuietSteps
  <2> QED
    BY <2>1, <2>2, <2>3, <2>4
<1> QED
  BY <1>3 DEF SameBackends, SameLength

\* A step preserves the lock, and the slots picked under it.
LEMMA LockStep ==
    ASSUME TypeOK, LockInv, SlotInv, [Next]_vars
    PROVE  LockInv' /\ SlotInv'
<1>1. ASSUME lists' = lists, fwd' = fwd, http' = http, writing' = writing
      PROVE  LockInv' /\ SlotInv'
  BY <1>1 DEF LockInv, SlotInv
<1>2. ASSUME NEW b \in Backend, NEW s \in expected, ProcessReply(b, s)
      PROVE  LockInv' /\ SlotInv'
  BY <1>1, <1>2 DEF ProcessReply, tableVars
<1>3. CASE AddService
  BY <1>3 DEF AddService, CanWrite, LockInv, SlotInv
<1>4. CASE FinishReply
  BY <1>1, <1>4 DEF FinishReply
<1>5. CASE LatestSequence
  BY <1>5 DEF LatestSequence, CanWrite, LockInv, SlotInv
<1>6. CASE FinishLatestSequence
  BY <1>6 DEF FinishLatestSequence, LockInv, SlotInv
<1>7. CASE SkipCycle
  BY <1>1, <1>7 DEF SkipCycle, tableVars
<1>8. ASSUME NEW t \in Thread, NEW r \in Uri, GetSlot(t, r)
      PROVE  LockInv' /\ SlotInv'
  <2>1. writing = Nothing /\ writing' = writing /\ fwd' = fwd
    BY <1>8 DEF GetSlot, CanRead, tableVars
  <2>2. PICK i \in DOMAIN fwd[Translate(r)] :
            http' = [http EXCEPT ![t] =
                        [pc |-> "slot", uri |-> Translate(r), slot |-> i]]
    BY <1>8 DEF GetSlot, Slots
  <2>3. ASSUME NEW x \in Thread, http'[x].pc = "slot"
        PROVE  http'[x].slot \in DOMAIN fwd[http'[x].uri]
    <3>1. CASE x = t
      BY <2>2, <3>1 DEF TypeOK
    <3>2. CASE x # t
      BY <2>2, <2>3, <3>2 DEF TypeOK, SlotInv
    <3> QED
      BY <3>1, <3>2
  <2> QED
    BY <2>1, <2>3 DEF LockInv, SlotInv
<1>9. ASSUME NEW t \in Thread, GetService(t)
       PROVE  LockInv' /\ SlotInv'
  <2>1. /\ \A x \in Thread \ {t} : http'[x] = http[x]
        /\ http'[t].pc # "slot"
    BY <1>9 DEF GetService, TypeOK
  <2> QED
    BY <1>9, <2>1 DEF GetService, tableVars, LockInv, SlotInv
<1>10. ASSUME NEW t \in Thread, SignalBackendConnection(t)
       PROVE  LockInv' /\ SlotInv'
  BY <1>1, <1>10 DEF SignalBackendConnection, tableVars
<1>11. ASSUME NEW t \in Thread, SetBackendAlive(t)
       PROVE  LockInv' /\ SlotInv'
  <2>1. /\ \A x \in Thread \ {t} : http'[x] = http[x]
        /\ http'[t].pc # "slot"
    BY <1>11 DEF SetBackendAlive, TypeOK, Idle
  <2> QED
    BY <1>11, <2>1 DEF SetBackendAlive, tableVars, LockInv, SlotInv
<1>12. ASSUME NEW t \in Thread, NEW s \in RemoveService, RemoveBackend(t, s)
       PROVE  LockInv' /\ SlotInv'
  <2>1. /\ \A x \in Thread \ {t} : http'[x] = http[x]
        /\ http'[t].pc # "slot"
    BY <1>12 DEF RemoveBackend, TypeOK, Idle
  <2> QED
    BY <1>12, <2>1 DEF RemoveBackend, CanWrite, tableVars, LockInv, SlotInv
<1>13. CASE Erase
  BY <1>13 DEF Erase, LockInv, SlotInv
<1>14. CASE FinishRemove
  BY <1>14 DEF FinishRemove, tableVars, LockInv, SlotInv
<1>15. CASE Restart
  BY <1>15 DEF Restart, AllIdle, Idle, LockInv, SlotInv
<1>16. CASE UNCHANGED vars
  BY <1>1, <1>16 DEF vars
<1> QED
  BY <1>2, <1>3, <1>4, <1>5, <1>6, <1>7, <1>8, <1>9, <1>10, <1>11, <1>12,
     <1>13, <1>14, <1>15, <1>16 DEF Next, IoNext, HttpNext

\* A step preserves that the loops leave nothing behind.
LEMMA IterStep ==
    ASSUME TypeOK, SameBackends, IterInv, [Next]_vars
    PROVE  IterInv'
<1> SUFFICES ASSUME writing' # Nothing, NEW u \in Uri,
                    NEW j \in DOMAIN lists'[u], j < it'[u]
             PROVE  (~Doomed(u, lists[u][j]))'
  BY DEF IterInv
<1>1. ListsOK /\ ListsOK'
  BY TypeOKLists, ListsType
<1>2. CASE Erase
  <2>1. writing # Nothing /\ writing' = writing
    BY <1>2 DEF Erase
  <2>2. \A m \in DOMAIN lists[u] : m < it[u] => ~Doomed(u, lists[u][m])
    BY <2>1 DEF IterInv
  <2>3. \E m \in DOMAIN lists[u] : /\ lists'[u][j] = lists[u][m]
                                   /\ ~Doomed(u, lists[u][m])
    <3>1. CASE Erasing(u)
      <4>1. PICK i \in DOMAIN lists[u], k \in DOMAIN fwd[u] : EraseRound(u, i, k)
        BY <1>1, <1>2, <3>1, EraseAt
      <4>2. /\ i = it[u] /\ it'[u] = it[u]
            /\ lists'[u] = RemoveAt(lists[u], i)
            /\ lists[u] \in Seq(Entry)
        BY <1>1, <4>1, ListFacts DEF EraseRound
      <4> DEFINE s == lists[u]
                 s1 == RemoveAt(s, i)
      <4>a. /\ Len(s1) = Len(s) - 1
            /\ \A m \in 1 .. Len(s) - 1 :
                   s1[m] = IF m < i THEN s[m] ELSE s[m + 1]
            /\ s1 \in Seq(Entry)
        BY <4>2, RemoveAtProperties
      <4> HIDE DEF s1
      <4>3. /\ Len(lists'[u]) = Len(lists[u]) - 1
            /\ \A m \in 1 .. Len(lists[u]) - 1 :
                   lists'[u][m] = IF m < i THEN lists[u][m] ELSE lists[u][m + 1]
            /\ lists'[u] \in Seq(Entry)
        BY <4>2, <4>a DEF s1
      <4>4. j \in 1 .. Len(lists[u]) - 1 /\ Len(lists[u]) \in Nat
        BY <1>1, <4>3, LenProperties, ListFacts
      <4>5. j \in DOMAIN lists[u]
        BY <1>1, <4>4, ListFacts
      <4> QED
        BY <2>2, <4>2, <4>3, <4>4, <4>5
    <3>2. CASE ~Erasing(u)
      <4>1. lists'[u] = lists[u]
        BY <1>2, <3>2, EraseNothing
      <4>2. it'[u] = IF AtEnd(u) THEN it[u] ELSE it[u] + 1
        BY <1>2, <3>2 DEF Erase, Advance
      <4>3. it[u] \in Nat /\ j \in Nat
        BY <1>1, <4>1, ListFacts DEF ListsOK
      <4>4. j < it[u] \/ (j = it[u] /\ ~AtEnd(u))
        BY <4>2, <4>3
      <4> QED
        BY <2>2, <3>2, <4>1, <4>4 DEF Erasing, Visited
    <3> QED
      BY <3>1, <3>2
  <2> QED
    BY <2>1, <2>3 DEF Doomed
<1>3. CASE it' = Begin
  <2>1. j \in Nat /\ j >= 1
    BY <1>1, LenProperties DEF ListsOK
  <2> QED
    BY <1>3, <2>1 DEF Begin
<1>4. CASE writing = Nothing /\ writing' = writing
  BY <1>4
<1>5. CASE lists' = lists /\ writing' = writing /\ it' = it
  BY <1>5 DEF IterInv, Doomed
<1> QED
  BY <1>2, <1>3, <1>4, <1>5
     DEF Next, IoNext, HttpNext, vars, tableVars, ProcessReply, AddService,
         CanWrite, FinishReply, LatestSequence, FinishLatestSequence, SkipCycle,
         GetSlot, GetService, SignalBackendConnection, SetBackendAlive,
         RemoveBackend, FinishRemove, Restart

LEMMA TableStep ==
    ASSUME TableInv, [Next]_vars
    PROVE  TableInv'
BY TypeStep, SlotExists, CountStep, LockStep, IterStep DEF TableInv

\* Once its loops are through, a writer has erased all it was to.
LEMMA LoopsDoneErased ==
    ASSUME TableInv, writing # Nothing, LoopsDone
    PROVE  \A u \in Uri : DoomedAt(u) = {}
<1> SUFFICES ASSUME NEW u \in Uri, NEW j \in DOMAIN lists[u]
             PROVE  ~Doomed(u, lists[u][j])
  BY DEF DoomedAt
<1>1. ListsOK
  BY TypeOKLists DEF TableInv
<1>2. it[u] \in Nat /\ Len(lists[u]) \in Nat /\ it[u] > Len(lists[u])
  BY <1>1, ListFacts DEF ListsOK, LoopsDone, AtEnd
<1>3. j \in Nat /\ j <= Len(lists[u])
  BY <1>1, <1>2, ListFacts
<1>4. j < it[u]
  BY <1>2, <1>3
<1> QED
  BY <1>4 DEF TableInv, IterInv

-----------------------------------------------------------------------------
(* The theorems that follow from it. *)

LEMMA TableInvariant == Spec => []TableInv
<1>1. Init => TableInv
  BY InitTable
<1>2. TableInv /\ [Next]_vars => TableInv'
  BY TableStep
<1> QED
  BY <1>1, <1>2, PTL DEF Spec

\* The containers of Services and the state of its threads have their types:
\* among them, every backend and heartbeat number that is indexed with.
THEOREM TypeCorrect == Spec => []TypeOK
<1>1. TableInv => TypeOK
  BY DEF TableInv
<1> QED
  BY <1>1, TableInvariant, PTL

\* Every forwarder has exactly the backends of its list, however latestSequence,
\* removeBackend and addService alternate: although a forwarder erases by host
\* and port, the first it finds, and the list by heartbeat number.
THEOREM SameBackendsAlways == Spec => []SameBackends
<1>1. TableInv => SameBackends
  BY DEF TableInv
<1> QED
  BY <1>1, TableInvariant, PTL

\* The slot a forwarder picks exists when getService indexes the list with it.
THEOREM SlotInRangeAlways == Spec => []SlotInRange
<1>1. TableInv => SlotInRange
  BY SlotExists
<1> QED
  BY <1>1, TableInvariant, PTL

\* When itsMutex is given back, the loops of its holder are through.
LEMMA ReleasedWhenDone ==
    ASSUME [Next]_vars, writing # Nothing, writing' = Nothing
    PROVE  LoopsDone
BY DEF Next, IoNext, HttpNext, vars, tableVars, ProcessReply, AddService,
       CanWrite, FinishReply, LatestSequence, FinishLatestSequence, SkipCycle,
       GetSlot, GetService, SignalBackendConnection, SetBackendAlive,
       RemoveBackend, Erase, FinishRemove, Restart

\* The loops of latestSequence and removeBackend, which erase from the lists
\* they iterate over, miss nothing that they were to erase, in the lists or in
\* the forwarders.
THEOREM NothingMissedAlways == Spec => NothingMissed
<1>1. ASSUME TableInv, [Next]_vars, writing # Nothing, writing' = Nothing,
             NEW u \in Uri
      PROVE  /\ DoomedAt(u) = {}
             /\ \A b \in ToSet(fwd[u]) :
                    \E e \in ToSet(lists[u]) : e.be = b /\ ~Doomed(u, e)
  <2>1. DoomedAt(u) = {}
    BY <1>1, ReleasedWhenDone, LoopsDoneErased
  <2>2. ListsOK /\ SameBackends
    BY <1>1, TypeOKLists DEF TableInv
  <2>3. ASSUME NEW b \in ToSet(fwd[u])
        PROVE  \E e \in ToSet(lists[u]) : e.be = b /\ ~Doomed(u, e)
    <3>1. PICK k \in DOMAIN fwd[u] : fwd[u][k] = b
      BY DEF ToSet
    <3>2. b \in Backend
      BY <2>2, <3>1, ListFacts
    <3>3. PICK i \in DOMAIN lists[u] : lists[u][i].be = b
      BY <2>2, <3>1, <3>2, SameBackendsHas
    <3> QED
      BY <2>1, <3>3 DEF DoomedAt, ToSet
  <2> QED
    BY <2>1, <2>3
<1>2. TableInv /\ [Next]_vars =>
        [ writing # Nothing /\ writing' = Nothing =>
            \A u \in Uri :
                /\ DoomedAt(u) = {}
                /\ \A b \in ToSet(fwd[u]) :
                       \E e \in ToSet(lists[u]) : e.be = b /\ ~Doomed(u, e) ]_vars
  BY <1>1
<1> QED
  BY <1>2, TableInvariant, PTL DEF Spec, NothingMissed

-----------------------------------------------------------------------------
(* Sentinels. *)

\* The backends that can be looked up have sentinels; none is ever erased.
ListedKnown ==
    \A u \in Uri : \A i \in DOMAIN lists[u] :
        sentinel[lists[u][i].be] # Unknown

SentinelInv == ListedKnown /\ SentinelKnown

\* No sentinel goes away but in a restart.
LEMMA SentinelsStay ==
    ASSUME TypeOK, [Next]_vars, ~Restart, NEW b \in Backend,
           sentinel[b] # Unknown
    PROVE  sentinel'[b] # Unknown
<1>1. sentinel \in [Backend -> {Unknown} \cup 0 .. MaxUnanswered]
  BY DEF TypeOK
<1>2. CASE AddService
  BY <1>1, <1>2 DEF AddService, NewSentinel, Unknown
<1>3. ASSUME NEW t \in Thread, SignalBackendConnection(t)
      PROVE  sentinel'[b] # Unknown
  <2>1. /\ sentinel[http[t].be] \in 0 .. MaxUnanswered - 1
        /\ sentinel' = [sentinel EXCEPT ![http[t].be] = @ + 1]
    BY <1>3 DEF SignalBackendConnection, SignalSentConnection
  <2> QED
    BY <1>1, <2>1, BoundAssumption DEF Unknown
<1>4. ASSUME NEW t \in Thread, SetBackendAlive(t)
      PROVE  sentinel'[b] # Unknown
  <2>1. \/ sentinel' = [sentinel EXCEPT ![http[t].be] = 0]
        \/ sentinel' = sentinel
    BY <1>4 DEF SetBackendAlive, SetAlive
  <2> QED
    BY <1>1, <2>1 DEF Unknown
<1>5. CASE sentinel' = sentinel
  BY <1>5
<1> QED
  BY <1>2, <1>3, <1>4, <1>5
     DEF Next, IoNext, HttpNext, vars, tableVars, ProcessReply, FinishReply,
         LatestSequence, FinishLatestSequence, SkipCycle, GetSlot, GetService,
         RemoveBackend, Erase, FinishRemove

LEMMA ListedKnownStep ==
    ASSUME TypeOK, SameBackends, ListedKnown, [Next]_vars
    PROVE  ListedKnown'
<1>1. ListsOK
  BY TypeOKLists
<1> SUFFICES ASSUME NEW u \in Uri, NEW j \in DOMAIN lists'[u]
             PROVE  sentinel'[lists'[u][j].be] # Unknown
  BY DEF ListedKnown
<1>2. CASE Restart
  BY <1>1, <1>2, ListFacts DEF Restart
<1>3. ASSUME ~Restart,
             \E i \in DOMAIN lists[u] : lists'[u][j] = lists[u][i]
      PROVE  sentinel'[lists'[u][j].be] # Unknown
  <2>1. PICK i \in DOMAIN lists[u] : lists'[u][j] = lists[u][i]
    BY <1>3
  <2>2. lists[u][i].be \in Backend /\ sentinel[lists[u][i].be] # Unknown
    BY <1>1, ListFacts DEF ListedKnown
  <2> QED
    BY <1>3, <2>1, <2>2, SentinelsStay
<1>4. CASE Erase /\ ~Restart
  <2>1. \E i \in DOMAIN lists[u] : lists'[u][j] = lists[u][i]
    BY <1>1, <1>4, EraseSurvivors
  <2> QED
    BY <1>3, <1>4, <2>1
<1>5. CASE AddService /\ ~Restart
  <2> DEFINE e == [be |-> reply.be, seq |-> reply.seq]
  <2>1. CASE u # AddOrder(reply.be)[reply.done + 1]
    <3>1. lists'[u] = lists[u]
      BY <1>5, <2>1, AddServiceAt
    <3> QED
      BY <1>3, <1>5, <3>1
  <2>2. CASE u = AddOrder(reply.be)[reply.done + 1]
    <3>1. lists'[u] = Append(lists[u], e) /\ e \in Entry /\ e.be \in Backend
      BY <1>5, <2>2, AddServiceAt
    <3>2. sentinel'[e.be] # Unknown
      BY <1>5, <3>1 DEF AddService, NewSentinel, Unknown, TypeOK
    <3> HIDE DEF e
    <3>3. \/ \E i \in DOMAIN lists[u] : lists'[u][j] = lists[u][i]
          \/ lists'[u][j] = e
      BY <1>1, <3>1, ListFacts, AppendProperties
    <3> QED
      BY <1>3, <1>5, <3>2, <3>3
  <2> QED
    BY <2>1, <2>2
<1>6. CASE ~AddService /\ ~Erase /\ ~Restart
  BY <1>3, <1>6, QuietSteps
<1> QED
  BY <1>2, <1>4, <1>5, <1>6

LEMMA HoldingKnownStep ==
    ASSUME TableInv, SentinelInv, [Next]_vars
    PROVE  SentinelKnown'
<1> SUFFICES ASSUME NEW t \in Thread, http'[t].pc = "holding"
             PROVE  sentinel'[http'[t].be] # Unknown
  BY DEF SentinelKnown
<1>1. TypeOK
  BY DEF TableInv
<1>2. CASE Restart
  BY <1>2 DEF Restart, AllIdle, Idle
<1>3. CASE http'[t] = http[t] /\ ~Restart
  <2>1. http[t].be \in Backend /\ sentinel[http[t].be] # Unknown
    BY <1>1, <1>3, ThreadFacts DEF SentinelInv, SentinelKnown
  <2> QED
    BY <1>1, <1>3, <2>1, SentinelsStay
<1>4. CASE http'[t] # http[t] /\ ~Restart
  <2>1. GetService(t)
    <3>1. PICK x \in Thread : \/ \E r \in Uri : GetSlot(x, r)
                             \/ GetService(x)
                             \/ SetBackendAlive(x)
                             \/ \E s \in RemoveService : RemoveBackend(x, s)
      BY <1>4 DEF Next, IoNext, HttpNext, vars, tableVars, ProcessReply,
                  AddService, FinishReply, LatestSequence,
                  FinishLatestSequence, SkipCycle, SignalBackendConnection,
                  Erase, FinishRemove
    <3>2. http \in [Thread -> {http[y] : y \in Thread}]
      BY <1>1 DEF TypeOK
    <3>3. ~ \E r \in Uri : GetSlot(x, r)
      BY <1>4, <3>2 DEF GetSlot
    <3>4. ~ SetBackendAlive(x)
      BY <1>4, <3>2 DEF SetBackendAlive, Idle
    <3>5. ~ \E s \in RemoveService : RemoveBackend(x, s)
      BY <1>4, <3>2 DEF RemoveBackend, Idle
    <3>6. x = t
      BY <1>4, <3>1, <3>2, <3>3, <3>4, <3>5 DEF GetService
    <3> QED
      BY <3>1, <3>3, <3>4, <3>5, <3>6
  <2>2. /\ http[t].pc = "slot"
        /\ http'[t].be = lists[http[t].uri][http[t].slot].be
        /\ sentinel' = sentinel
    BY <1>1, <2>1 DEF GetService, TypeOK
  <2>3. http[t].uri \in Uri /\ http[t].slot \in DOMAIN lists[http[t].uri]
    BY <1>1, <2>2, ThreadFacts, SlotExists DEF SlotInRange
  <2> QED
    BY <2>2, <2>3 DEF SentinelInv, ListedKnown
<1> QED
  BY <1>2, <1>3, <1>4

LEMMA SentinelInvariant == Spec => [](TableInv /\ SentinelInv)
<1>1. Init => SentinelInv
  BY DEF Init, SentinelInv, ListedKnown, SentinelKnown, NoEntries, AllIdle, Idle
<1>2. TableInv /\ SentinelInv /\ [Next]_vars => SentinelInv'
  BY ListedKnownStep, HoldingKnownStep DEF TableInv, SentinelInv
<1> QED
  BY <1>1, <1>2, TableInvariant, PTL DEF Spec

\* A backend that getService has returned has a sentinel when the connection
\* to it is signalled, however many deadlines and failures came in between.
THEOREM SentinelAlwaysKnown == Spec => []SentinelKnown
<1>1. SentinelInv => SentinelKnown
  BY DEF SentinelInv
<1> QED
  BY <1>1, SentinelInvariant, PTL

-----------------------------------------------------------------------------
(* Services implements Registry. *)

RouteOf(u, e) == [uri |-> u, be |-> e.be, seq |-> e.seq]

\* A route is an entry that is listed and not doomed.
LEMMA RouteListed ==
    ASSUME NEW r
    PROVE  r \in Routes <=>
               \E u \in Uri : \E i \in DOMAIN lists[u] :
                   /\ ~Doomed(u, lists[u][i])
                   /\ r = RouteOf(u, lists[u][i])
BY DEF Routes, RouteOf, ToSet

LEMMA RouteListedNext ==
    ASSUME NEW r
    PROVE  r \in Routes' <=>
               \E u \in Uri : \E i \in DOMAIN lists'[u] :
                   /\ ~(\/ writing'.op = "prune" /\ lists'[u][i].seq # writing'.seq
                        \/ /\ writing'.op = "remove"
                           /\ lists'[u][i].be = writing'.be
                           /\ writing'.svc \in {AnyService, u.svc})
                   /\ r = RouteOf(u, lists'[u][i])
BY DEF Routes, RouteOf, ToSet, Doomed

\* A step that changes neither the lists nor the writer changes no route.
LEMMA RoutesUnchanged ==
    ASSUME lists' = lists, writing' = writing
    PROVE  Routes' = Routes
<1>1. ASSUME NEW r
      PROVE  r \in Routes' <=> r \in Routes
  BY RouteListed, RouteListedNext DEF Doomed
<1> QED
  BY <1>1 DEF Routes

\* addService registers one route.
LEMMA AddServiceRegisters ==
    ASSUME TypeOK, AddService
    PROVE  \E u \in Uri, e \in Entry : Routes' = Routes \cup {RouteOf(u, e)}
<1> DEFINE e == [be |-> reply.be, seq |-> reply.seq]
           u == AddOrder(reply.be)[reply.done + 1]
<1>1. u \in Uri /\ e \in Entry
  BY AddServiceAt
<1>2. writing = Nothing /\ writing' = Nothing
  BY DEF AddService, CanWrite
<1>3. lists'[u] = Append(lists[u], e)
  BY AddServiceAt
<1>4. \A v \in Uri : v # u => lists'[v] = lists[v]
  BY AddServiceAt
<1> HIDE DEF e, u
<1>5. /\ Len(lists[u]) \in Nat /\ DOMAIN lists[u] = 1 .. Len(lists[u])
      /\ DOMAIN lists'[u] = 1 .. Len(lists[u]) + 1
      /\ \A i \in 1 .. Len(lists[u]) : lists'[u][i] = lists[u][i]
      /\ lists'[u][Len(lists[u]) + 1] = e
  BY <1>1, <1>3, TypeOKLists, ListFacts, AppendProperties, LenProperties
<1>6. \A r : r \in Routes <=> \E v \in Uri : \E i \in DOMAIN lists[v] :
                                  r = RouteOf(v, lists[v][i])
  BY <1>2, RouteListed DEF Doomed, Nothing
<1>7. \A r : r \in Routes' <=> \E v \in Uri : \E i \in DOMAIN lists'[v] :
                                   r = RouteOf(v, lists'[v][i])
  BY <1>2, RouteListedNext DEF Nothing
<1>8. ASSUME NEW r
      PROVE  r \in Routes' <=> r \in Routes \/ r = RouteOf(u, e)
  <2>1. ASSUME r \in Routes'
        PROVE  r \in Routes \/ r = RouteOf(u, e)
    <3>0. PICK v \in Uri : \E i \in DOMAIN lists'[v] : r = RouteOf(v, lists'[v][i])
      BY <1>7, <2>1
    <3>1. PICK i \in DOMAIN lists'[v] : r = RouteOf(v, lists'[v][i])
      BY <3>0
    <3>2. CASE v # u
      BY <1>4, <1>6, <3>1, <3>2
    <3>3. CASE v = u
      <4>1. i \in DOMAIN lists[u] \/ i = Len(lists[u]) + 1
        BY <1>5, <3>3
      <4> QED
        BY <1>1, <1>5, <1>6, <3>1, <3>3, <4>1
    <3> QED
      BY <3>2, <3>3
  <2>2. ASSUME r \in Routes
        PROVE  r \in Routes'
    <3>0. PICK v \in Uri : \E i \in DOMAIN lists[v] : r = RouteOf(v, lists[v][i])
      BY <1>6, <2>2
    <3>1. PICK i \in DOMAIN lists[v] : r = RouteOf(v, lists[v][i])
      BY <3>0
    <3>2. i \in DOMAIN lists'[v] /\ lists'[v][i] = lists[v][i]
      BY <1>4, <1>5
    <3> QED
      BY <1>7, <3>1, <3>2
  <2>3. ASSUME r = RouteOf(u, e)
        PROVE  r \in Routes'
    <3>1. Len(lists[u]) + 1 \in DOMAIN lists'[u]
      BY <1>5
    <3> QED
      BY <1>1, <1>5, <1>7, <2>3, <3>1
  <2> QED
    BY <2>1, <2>2, <2>3
<1>9. Routes' = Routes \cup {RouteOf(u, e)}
  BY <1>8
<1> QED
  BY <1>1, <1>9

\* The rounds of the loops change no route: what they erase was doomed.
LEMMA EraseKeepsRoutes ==
    ASSUME TypeOK, SameBackends, Erase
    PROVE  Routes' = Routes
<1>1. writing' = writing
  BY DEF Erase
<1>2. ASSUME NEW r
      PROVE  r \in Routes' <=> r \in Routes
  <2>1. ASSUME r \in Routes'
        PROVE  r \in Routes
    <3>1. PICK u \in Uri : \E j \in DOMAIN lists'[u] :
              ~Doomed(u, lists'[u][j]) /\ r = RouteOf(u, lists'[u][j])
      BY <1>1, <2>1, RouteListedNext DEF Doomed
    <3>2. PICK j \in DOMAIN lists'[u] :
              ~Doomed(u, lists'[u][j]) /\ r = RouteOf(u, lists'[u][j])
      BY <3>1
    <3>3. PICK m \in DOMAIN lists[u] : lists[u][m] = lists'[u][j]
      BY TypeOKLists, EraseSurvivors
    <3> QED
      BY <3>2, <3>3, RouteListed
  <2>2. ASSUME r \in Routes
        PROVE  r \in Routes'
    <3>1. PICK u \in Uri : \E m \in DOMAIN lists[u] :
              ~Doomed(u, lists[u][m]) /\ r = RouteOf(u, lists[u][m])
      BY <2>2, RouteListed
    <3>2. PICK m \in DOMAIN lists[u] :
              ~Doomed(u, lists[u][m]) /\ r = RouteOf(u, lists[u][m])
      BY <3>1
    <3>3. PICK j \in DOMAIN lists'[u] : lists'[u][j] = lists[u][m]
      BY <3>2, TypeOKLists, EraseSurvivors
    <3> QED
      BY <1>1, <3>2, <3>3, RouteListedNext DEF Doomed
  <2> QED
    BY <2>1, <2>2
<1> QED
  BY <1>2

\* When latestSequence holds the lock, the older answers are no routes.
LEMMA LatestSequenceCleansUp ==
    ASSUME TypeOK, LatestSequence
    PROVE  Routes' = {r \in Routes : r.seq = cur}
<1>1. writing = Nothing /\ writing' = [op |-> "prune", seq |-> cur] /\ lists' = lists
  BY DEF LatestSequence, CanWrite, tableVars
<1>2. ASSUME NEW r
      PROVE  r \in Routes' <=> r \in Routes /\ r.seq = cur
  <2>1. r \in Routes <=> \E u \in Uri : \E i \in DOMAIN lists[u] :
                             r = RouteOf(u, lists[u][i])
    BY <1>1, RouteListed DEF Doomed, Nothing
  <2>2. r \in Routes' <=> \E u \in Uri : \E i \in DOMAIN lists[u] :
                              lists[u][i].seq = cur /\ r = RouteOf(u, lists[u][i])
    BY <1>1, RouteListedNext
  <2> QED
    BY <2>1, <2>2 DEF RouteOf
<1> QED
  BY <1>2

\* Those were all that it erases: cleaned up, no entry is doomed.
LEMMA FinishKeepsRoutes ==
    ASSUME TypeOK, lists' = lists, writing' = Nothing,
           \A u \in Uri : DoomedAt(u) = {}
    PROVE  Routes' = Routes
<1>1. ASSUME NEW r
      PROVE  r \in Routes' <=> r \in Routes
  <2>1. \A u \in Uri : \A i \in DOMAIN lists[u] : ~Doomed(u, lists[u][i])
    BY DEF DoomedAt
  <2>2. r \in Routes <=> \E u \in Uri : \E i \in DOMAIN lists[u] :
                             r = RouteOf(u, lists[u][i])
    BY <2>1, RouteListed
  <2>3. r \in Routes' <=> \E u \in Uri : \E i \in DOMAIN lists[u] :
                              r = RouteOf(u, lists[u][i])
    BY RouteListedNext DEF Nothing
  <2> QED
    BY <2>2, <2>3
<1> QED
  BY <1>1

\* When removeBackend holds the lock, its backend is retired.
LEMMA RemoveBackendRetires ==
    ASSUME TypeOK, NEW t \in Thread, NEW s \in RemoveService, RemoveBackend(t, s)
    PROVE  Routes' = {r \in Routes : ~(/\ r.be = http[t].be
                                       /\ s \in {AnyService, r.uri.svc})}
<1>1. /\ writing = Nothing /\ lists' = lists
      /\ writing' = [op |-> "remove", be |-> http[t].be, svc |-> s]
  BY DEF RemoveBackend, CanWrite, tableVars
<1>2. ASSUME NEW r
      PROVE  r \in Routes' <=>
                 r \in Routes /\ ~(/\ r.be = http[t].be
                                   /\ s \in {AnyService, r.uri.svc})
  <2>1. r \in Routes <=> \E u \in Uri : \E i \in DOMAIN lists[u] :
                             r = RouteOf(u, lists[u][i])
    BY <1>1, RouteListed DEF Doomed, Nothing
  <2>2. r \in Routes' <=>
            \E u \in Uri : \E i \in DOMAIN lists[u] :
                /\ ~(lists[u][i].be = http[t].be /\ s \in {AnyService, u.svc})
                /\ r = RouteOf(u, lists[u][i])
    BY <1>1, RouteListedNext
  <2> QED
    BY <2>1, <2>2 DEF RouteOf
<1> QED
  BY <1>2

\* The lists are empty when the process starts anew.
LEMMA RestartKeepsRoutes ==
    ASSUME Restart
    PROVE  Routes' = Routes
<1>1. \A u \in Uri : lists[u] = <<>> /\ lists'[u] = <<>>
  BY DEF Restart
<1>2. ASSUME NEW r
      PROVE  r \notin Routes /\ r \notin Routes'
  BY <1>1, RouteListed, RouteListedNext
<1> QED
  BY <1>2

LEMMA RegistryStep ==
    ASSUME TableInv, [Next]_vars
    PROVE  [Table!Next]_Routes
<1>1. TypeOK /\ SameBackends
  BY DEF TableInv
<1>2. CASE AddService
  <2>1. PICK u \in Uri, e \in Entry : Routes' = Routes \cup {RouteOf(u, e)}
    BY <1>1, <1>2, AddServiceRegisters
  <2> QED
    BY <2>1 DEF Table!Next, Table!Register, Table!Route, RouteOf
<1>3. CASE LatestSequence
  <2>1. Routes' = {r \in Routes : r.seq = cur} /\ cur \in SeqNum
    BY <1>1, <1>3, LatestSequenceCleansUp DEF TypeOK
  <2> QED
    BY <2>1 DEF Table!Next, Table!Cleanup
<1>4. ASSUME NEW t \in Thread, NEW s \in RemoveService, RemoveBackend(t, s)
      PROVE  [Table!Next]_Routes
  <2>1. http[t].be \in Backend /\ s \in Service \cup {AnyService}
    BY <1>1, <1>4, ThreadFacts, RemoveAssumption DEF RemoveBackend
  <2>2. Routes' = {r \in Routes : ~(/\ r.be = http[t].be
                                    /\ s \in {AnyService, r.uri.svc})}
    BY <1>1, <1>4, RemoveBackendRetires
  <2> QED
    BY <2>1, <2>2 DEF Table!Next, Table!Retire
<1>5. CASE Erase
  BY <1>1, <1>5, EraseKeepsRoutes
<1>6. CASE FinishLatestSequence
  <2>1. writing # Nothing /\ LoopsDone
    BY <1>6 DEF FinishLatestSequence, Nothing
  <2>2. \A u \in Uri : DoomedAt(u) = {}
    BY <2>1, LoopsDoneErased
  <2> QED
    BY <1>1, <1>6, <2>2, FinishKeepsRoutes DEF FinishLatestSequence
<1>7. CASE FinishRemove
  <2>1. writing # Nothing /\ LoopsDone
    BY <1>7 DEF FinishRemove, Nothing
  <2>2. \A u \in Uri : DoomedAt(u) = {}
    BY <2>1, LoopsDoneErased
  <2> QED
    BY <1>1, <1>7, <2>2, FinishKeepsRoutes DEF FinishRemove, tableVars
<1>8. CASE Restart
  BY <1>8, RestartKeepsRoutes
<1>9. CASE lists' = lists /\ writing' = writing
  BY <1>9, RoutesUnchanged
<1> QED
  BY <1>2, <1>3, <1>4, <1>5, <1>6, <1>7, <1>8, <1>9
     DEF Next, IoNext, HttpNext, vars, tableVars, ProcessReply, FinishReply,
         SkipCycle, GetSlot, GetService, SignalBackendConnection,
         SetBackendAlive

\* Services.h promises a table that addService extends, and that removeBackend
\* and latestSequence cut down in one indivisible step each.  The loops that
\* erase entry by entry, in list and forwarder, implement it: every step of
\* Services is a step of Registry on the routes, or changes none.
THEOREM ServicesImplementRegistry == Spec => TableSpec
<1>1. Init => Table!Init
  <2> SUFFICES ASSUME Init
               PROVE  Routes = {}
    BY DEF Table!Init
  <2>1. \A r : r \notin Routes
    BY RouteListed DEF Init, NoEntries
  <2> QED
    BY <2>1
<1>2. TableInv /\ [Next]_vars => [Table!Next]_Routes
  BY RegistryStep
<1> QED
  BY <1>1, <1>2, TableInvariant, PTL DEF Spec, TableSpec, Table!Spec

=============================================================================
