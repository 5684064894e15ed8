------------------------------ MODULE Services ------------------------------
(***************************************************************************)
(* The routing table of a Sputnik frontend (Services.cpp), with the        *)
(* backend lists of its forwarders (BackendForwarder.cpp), its URI         *)
(* prefixes (URIPrefixMap.cpp) and its sentinels (BackendSentinel.cpp).    *)
(*                                                                         *)
(* Two kinds of threads share it.  The sputnik-io thread adds the services *)
(* of every reply, one addService call at a time, and cleans the table at  *)
(* every response deadline.  The HTTP threads of the frontend plugin look  *)
(* up a backend for each request and retire the backends that fail.        *)
(* itsMutex is a readers-writer lock: a step that takes and releases it is *)
(* one action here; the loops of latestSequence and removeBackend, and     *)
(* getService, take several actions with the lock held.                    *)
(*                                                                         *)
(* A URI known to the frontend is a service's own URI, or the URI          *)
(* "/host/service" that processReply makes up to reach one host.  A        *)
(* forwarder knows its backends by host and port only.                     *)
(*                                                                         *)
(* A definition X_Y is definition X with mistake Y in it.  The runs use    *)
(* only X; X_Y is there to show that they would notice the mistake.        *)
(***************************************************************************)
EXTENDS Integers, Sequences, FiniteSets, SequencesExt

CONSTANTS
    Backend,            \* host:port of each backend
    Service,            \* the URIs backends announce
    Offer,              \* Offer[b]: the services b announces, in order
    Prefix,             \* Prefix[b]: those of them b announces as prefixes
    Under,              \* <<x, p>> \in Under: URI x is longer and starts with p
    InfoBackend,        \* the backends that announce an admin request
    Thread,             \* HTTP threads of the frontend
    RemoveService,      \* what removeBackend is told to remove from
    NoHost, AnyService, \* not a backend; not a service (theURI = "")
    SeqModulus,         \* heartbeat numbers are 0 .. SeqModulus-1 (65535)
    MaxSkippedCycles,   \* heartbeat.max_skipped_cycles
    InOrder,            \* the replies of one backend arrive in order
    MaxEntries,         \* bound: entries per URI, and admin requests
    MaxUnanswered       \* bound: connections a sentinel counts

ASSUME BackendAssumption == NoHost \notin Backend
ASSUME OfferAssumption == /\ Offer \in [Backend -> Seq(Service)]
                          /\ Prefix \in [Backend -> SUBSET Service]
                          /\ InfoBackend \subseteq Backend
ASSUME RemoveAssumption == /\ AnyService \notin Service
                           /\ RemoveService \subseteq Service \cup {AnyService}
ASSUME CycleAssumption == /\ SeqModulus \in Nat
                          /\ MaxSkippedCycles \in Nat
                          /\ MaxSkippedCycles + 1 < SeqModulus
                          /\ InOrder \in BOOLEAN
ASSUME BoundAssumption == MaxEntries \in Nat /\ MaxUnanswered \in Nat

VARIABLES
    lists,      \* itsServicesByURI, first: the services under each URI
    fwd,        \* itsServicesByURI, second: itsBackendInfos of the forwarder
    prefixMap,  \* itsPrefixMap: the ids registered under each prefix
    info,       \* itsBackendInfoRequests, of one admin request, as a set
    sentinel,   \* itsSentinels: connections since the last sign of life
    writing,    \* what the holder of itsMutex for writing is doing
    it,         \* the position its loop over the list of each URI is at
    http,       \* where each HTTP thread is
    reply,      \* the reply processReply is working on
    cur,        \* itsFrontendSequence
    skipped,    \* itsSkippedCycles
    heard,      \* itsReceivedResponses > 0
    expected,   \* the heartbeats whose answers may still come
    answered,   \* the backends whose answer to heartbeat cur has come
    retired     \* history: the backends that failed a request after they
                \* last answered a heartbeat in time

tableVars == <<lists, fwd, prefixMap, info>>
cycleVars == <<cur, skipped, heard, expected, answered, retired>>
vars == <<lists, fwd, prefixMap, info, sentinel, writing, it, http, reply,
          cur, skipped, heard, expected, answered, retired>>

SeqNum == 0 .. SeqModulus - 1
Entry == [be : Backend, seq : SeqNum]

Uri == [host : Backend \cup {NoHost}, svc : Service]
Public(s) == [host |-> NoHost, svc |-> s]
Direct(b, s) == [host |-> b, svc |-> s]

\* The prefixes of a URI are prefixes of each other, down to the shortest.
StartsWith(r, p) == r = p \/ <<r, p>> \in Under
ASSUME UnderAssumption ==
    \A r \in Uri : \A P \in SUBSET {p \in Uri : StartsWith(r, p)} :
        P # {} => \E p \in P : \A q \in P : StartsWith(q, p)

\* The absence of a sentinel.
Unknown == -1

Nothing == [op |-> "none"]
Idle == [pc |-> "idle"]

NextSeq_NoWrap(s) == s + 1
NextSeq(s) == (s + 1) % SeqModulus

\* The URIs and backends of a frontend that has heard nobody yet.
NoEntries == [u \in Uri |-> <<>>]
NoPrefixes == [u \in Uri |-> {}]
NoSentinels == [b \in Backend |-> Unknown]
AllIdle == [t \in Thread |-> Idle]

\* The loops of a writer start at the first entry of every list.
Begin == [u \in Uri |-> 1]

Init ==
    /\ lists = NoEntries
    /\ fwd = NoEntries
    /\ prefixMap = NoPrefixes
    /\ info = {}
    /\ sentinel = NoSentinels
    /\ writing = Nothing
    /\ it = Begin
    /\ http = AllIdle
    /\ reply = Nothing
    /\ cur = NextSeq(0)
    /\ skipped = 0
    /\ heard = FALSE
    /\ expected = {NextSeq(0)}
    /\ answered = {}
    /\ retired = {}

-----------------------------------------------------------------------------
(* itsMutex *)

CanRead == writing = Nothing
CanWrite == writing = Nothing /\ \A t \in Thread : http[t].pc # "slot"

-----------------------------------------------------------------------------
(* The io thread: replies. *)

\* The URIs processReply registers for a backend, in the order it does.
AddOrder(b) ==
    [i \in 1 .. 2 * Len(Offer[b]) |->
        IF i % 2 = 1 THEN Public(Offer[b][(i + 1) \div 2])
                     ELSE Direct(b, Offer[b][i \div 2])]

\* processReply starts on a reply of b to heartbeat s, which may be late or a
\* duplicate.
ProcessReply(b, s) ==
    /\ reply = Nothing
    /\ writing.op # "prune"
    /\ Offer[b] # <<>>
    /\ InOrder /\ s # cur => b \notin answered
    /\ \A u \in Uri : Len(lists[u]) < MaxEntries
    /\ Cardinality(info) < MaxEntries
    /\ reply' = [op |-> "reply", be |-> b, seq |-> s, done |-> 0]
    /\ IF s = cur THEN answered' = answered \cup {b} /\ retired' = retired \ {b}
                  ELSE UNCHANGED <<answered, retired>>
    /\ UNCHANGED <<tableVars, sentinel, writing, it, http, cur, skipped, heard, expected>>

\* URIPrefixMap::addPrefix.
AddPrefix(u, id) == [prefixMap EXCEPT ![u] = @ \cup {id}]

\* BackendForwarder::addBackend.
ForwarderAddBackend(f, b) == Append(f, b)

\* BackendSentinel's constructor: nothing is unanswered yet.
NewSentinel == 0

\* Services::addService, the next one of the reply.
AddService ==
    /\ reply.op = "reply"
    /\ CanWrite
    /\ reply.done < Len(AddOrder(reply.be))
    /\ LET b == reply.be
           u == AddOrder(b)[reply.done + 1]
           e == [be |-> b, seq |-> reply.seq]
       IN /\ prefixMap' = IF u.svc \in Prefix[b] THEN AddPrefix(u, e)
                                                 ELSE prefixMap
          /\ lists' = [lists EXCEPT ![u] = Append(@, e)]
          /\ fwd' = [fwd EXCEPT ![u] = ForwarderAddBackend(@, b)]
          /\ sentinel' = [sentinel EXCEPT ![b] = NewSentinel]
    /\ reply' = [reply EXCEPT !.done = @ + 1]
    /\ UNCHANGED <<info, writing, it, http, cycleVars>>

\* Services::addBackendInfoRequest.
AddBackendInfoRequest(e) == CanWrite /\ info' = info \cup {e}

\* The end of processReply: the admin requests, then the response counter.
FinishReply ==
    /\ reply.op = "reply"
    /\ reply.done = Len(AddOrder(reply.be))
    /\ \/ /\ reply.be \in InfoBackend
          /\ AddBackendInfoRequest([be |-> reply.be, seq |-> reply.seq])
       \/ /\ reply.be \notin InfoBackend
          /\ UNCHANGED info
    /\ reply' = Nothing
    /\ heard' = TRUE
    /\ UNCHANGED <<lists, fwd, prefixMap, sentinel, writing, it, http, cur,
                   skipped, expected, answered, retired>>

-----------------------------------------------------------------------------
(* Erasing entries, with itsMutex held. *)

\* The entries under URI u that the writer is removing.
Doomed(u, e) ==
    \/ writing.op = "prune" /\ e.seq # writing.seq
    \/ /\ writing.op = "remove"
       /\ e.be = writing.be
       /\ writing.svc \in {AnyService, u.svc}

DoomedAt(u) == {i \in DOMAIN lists[u] : Doomed(u, lists[u][i])}
FirstOf(I) == CHOOSE i \in I : \A j \in I : i <= j

\* BackendForwarder::removeBackend erases the first occurrence of b.
ForwarderRemoveBackend_All(f, b) == SelectSeq(f, LAMBDA x : x # b)
ForwarderRemoveBackend_Last(f, b) ==
    IF b \in ToSet(f)
      THEN RemoveAt(f, CHOOSE i \in DOMAIN f :
                           f[i] = b /\ \A j \in DOMAIN f : f[j] = b => j <= i)
      ELSE f
ForwarderRemoveBackend(f, b) ==
    IF b \in ToSet(f) THEN RemoveAt(f, FirstOf({i \in DOMAIN f : f[i] = b}))
                      ELSE f

\* The entry a loop is at, if it is not at the end of its list.
AtEnd(u) == it[u] > Len(lists[u])
Visited(u) == lists[u][it[u]]

\* The loop takes the entry out of the list and of the forwarder, and stays at
\* the position, or goes on.
Erasing(u) == ~AtEnd(u) /\ Doomed(u, Visited(u))
EraseList_Last(u) == IF Erasing(u) THEN Front(lists[u]) ELSE lists[u]
EraseList(u) == IF Erasing(u) THEN RemoveAt(lists[u], it[u]) ELSE lists[u]
EraseForwarder(u) ==
    IF Erasing(u) THEN ForwarderRemoveBackend(fwd[u], Visited(u).be) ELSE fwd[u]
Advance_AfterErase(u) == IF AtEnd(u) THEN it[u] ELSE it[u] + 1
Advance(u) == IF AtEnd(u) \/ Erasing(u) THEN it[u] ELSE it[u] + 1

\* URIPrefixMap::removeBackend, which removeBackend calls with the service it
\* is told about and every entry it visits: the ids of all the entries of the
\* table go, not only those of the backend it removes.  No prefix is "".
PrefixRemoveBackend ==
    IF writing.op = "remove" /\ writing.svc # AnyService
      THEN [prefixMap EXCEPT ![Public(writing.svc)] =
               @ \ {Visited(u) : u \in {v \in Uri : ~AtEnd(v)}}]
      ELSE prefixMap

\* One round of the loops of latestSequence and removeBackend.  The URIs are
\* independent of each other: each of their loops gets one round further.
Erase ==
    /\ writing # Nothing
    /\ \E u \in Uri : ~AtEnd(u)
    /\ prefixMap' = PrefixRemoveBackend
    /\ fwd' = [u \in Uri |-> EraseForwarder(u)]
    /\ lists' = [u \in Uri |-> EraseList(u)]
    /\ it' = [u \in Uri |-> Advance(u)]
    /\ UNCHANGED <<info, sentinel, writing, http, reply, cycleVars>>

\* All loops are through.
LoopsDone == \A u \in Uri : AtEnd(u)

-----------------------------------------------------------------------------
(* The io thread: response deadlines. *)

\* The next heartbeat is sent.  Answers to the last one may come late, by one
\* heartbeat at most.
NextHeartbeat ==
    /\ cur' = NextSeq(cur)
    /\ expected' = {cur, NextSeq(cur)}
    /\ heard' = FALSE
    /\ answered' = {}
    /\ UNCHANGED retired

\* handleDeadlineTimer calls latestSequence, which takes itsMutex.
LatestSequence ==
    /\ reply = Nothing
    /\ CanWrite
    /\ heard \/ skipped + 1 > MaxSkippedCycles
    /\ writing' = [op |-> "prune", seq |-> cur]
    /\ it' = Begin
    /\ UNCHANGED <<tableVars, sentinel, http, reply, cycleVars>>

\* The lists are done; the admin requests follow.
FinishLatestSequence_DropsSentinels ==
    /\ writing.op = "prune"
    /\ LoopsDone
    /\ info' = {e \in info : e.seq = writing.seq}
    /\ sentinel' = [b \in Backend |->
           IF \E u \in Uri : b \in ToSet(fwd[u]) THEN sentinel[b] ELSE Unknown]
    /\ writing' = Nothing
    /\ it' = Begin
    /\ skipped' = 0
    /\ NextHeartbeat
    /\ UNCHANGED <<lists, fwd, prefixMap, http, reply>>
FinishLatestSequence_KeepsInfo ==
    /\ writing.op = "prune"
    /\ LoopsDone
    /\ writing' = Nothing
    /\ it' = Begin
    /\ skipped' = 0
    /\ NextHeartbeat
    /\ UNCHANGED <<lists, fwd, prefixMap, info, sentinel, http, reply>>
FinishLatestSequence ==
    /\ writing.op = "prune"
    /\ LoopsDone
    /\ info' = {e \in info : e.seq = writing.seq}
    /\ writing' = Nothing
    /\ it' = Begin
    /\ skipped' = 0
    /\ NextHeartbeat
    /\ UNCHANGED <<lists, fwd, prefixMap, sentinel, http, reply>>

\* handleDeadlineTimer leaves the table alone when nobody has answered.
SkipCycle ==
    /\ reply = Nothing
    /\ writing.op # "prune"
    /\ ~heard
    /\ skipped + 1 <= MaxSkippedCycles
    /\ skipped' = skipped + 1
    /\ NextHeartbeat
    /\ UNCHANGED <<tableVars, sentinel, writing, it, http, reply>>

-----------------------------------------------------------------------------
(* The HTTP threads. *)

\* URIPrefixMap::operator(): the first prefix of r in the order of the map.
\* All prefixes of r are prefixes of each other; the shortest comes first.
Translate(r) ==
    LET match == {p \in Uri : prefixMap[p] # {} /\ StartsWith(r, p)}
    IN IF match = {} THEN r
       ELSE CHOOSE p \in match : \A q \in match : StartsWith(q, p)

\* BackendForwarder::getBackend: which slot the forwarder of u picks is up to
\* its balancing strategy.
Slots(u) == DOMAIN fwd[u]

\* getService: the forwarder of the translated URI picks a slot.
GetSlot_NoLock(t, r) ==
    /\ http[t].pc = "idle"
    /\ lists[Translate(r)] # <<>>
    /\ \E i \in Slots(Translate(r)) :
          http' = [http EXCEPT ![t] =
                      [pc |-> "slot", uri |-> Translate(r), slot |-> i]]
    /\ UNCHANGED <<tableVars, sentinel, writing, it, reply, cycleVars>>
GetSlot(t, r) ==
    /\ http[t].pc = "idle"
    /\ CanRead
    /\ lists[Translate(r)] # <<>>
    /\ \E i \in Slots(Translate(r)) :
          http' = [http EXCEPT ![t] =
                      [pc |-> "slot", uri |-> Translate(r), slot |-> i]]
    /\ UNCHANGED <<tableVars, sentinel, writing, it, reply, cycleVars>>

\* getService returns the entry in that slot, and gives itsMutex back.
GetService(t) ==
    /\ http[t].pc = "slot"
    /\ http' = [http EXCEPT ![t] =
                   [pc |-> "holding", be |-> lists[@.uri][@.slot].be]]
    /\ UNCHANGED <<tableVars, sentinel, writing, it, reply, cycleVars>>

\* getInfoRequestBackendList.
InfoRequestBackends == {e.be : e \in info}

\* BackendSentinel::signalSentConnection and BackendSentinel::setAlive.
SignalSentConnection(b) == sentinel' = [sentinel EXCEPT ![b] = @ + 1]
SetAlive(b) == sentinel' = [sentinel EXCEPT ![b] = 0]

\* signalBackendConnection: the request is sent to the backend.
SignalBackendConnection(t) ==
    /\ http[t].pc = "holding"
    /\ sentinel[http[t].be] \in 0 .. MaxUnanswered - 1
    /\ SignalSentConnection(http[t].be)
    /\ UNCHANGED <<tableVars, writing, it, http, reply, cycleVars>>

\* The backend-connection hook: EXIT_OK is a sign of life for the sentinel,
\* if there is one; any other status changes nothing.
SetBackendAlive(t) ==
    /\ http[t].pc = "holding"
    /\ \/ sentinel[http[t].be] # Unknown /\ SetAlive(http[t].be)
       \/ UNCHANGED sentinel
    /\ http' = [http EXCEPT ![t] = Idle]
    /\ UNCHANGED <<tableVars, writing, it, reply, cycleVars>>

\* The request failed: removeBackend takes itsMutex, however long ago the
\* backend was looked up.
RemoveBackend(t, s) ==
    /\ http[t].pc = "holding"
    /\ CanWrite
    /\ writing' = [op |-> "remove", be |-> http[t].be, svc |-> s]
    /\ it' = Begin
    /\ http' = [http EXCEPT ![t] = Idle]
    /\ retired' = retired \cup {http[t].be}
    /\ UNCHANGED <<tableVars, sentinel, reply, cur, skipped, heard, expected,
                   answered>>

\* removeBackend is done and something is left.
FinishRemove ==
    /\ writing.op = "remove"
    /\ LoopsDone
    /\ \E u \in Uri : lists[u] # <<>>
    /\ writing' = Nothing
    /\ it' = Begin
    /\ UNCHANGED <<tableVars, sentinel, http, reply, cycleVars>>

\* Nothing is left: SIGKILL.  The process starts anew.
Restart ==
    /\ writing.op = "remove"
    /\ LoopsDone
    /\ \A u \in Uri : lists[u] = <<>>
    /\ fwd' = NoEntries
    /\ prefixMap' = NoPrefixes
    /\ info' = {}
    /\ sentinel' = NoSentinels
    /\ writing' = Nothing
    /\ it' = Begin
    /\ http' = AllIdle
    /\ reply' = Nothing
    /\ cur' = NextSeq(0)
    /\ skipped' = 0
    /\ heard' = FALSE
    /\ expected' = {NextSeq(0)}
    /\ answered' = {}
    /\ retired' = {}
    /\ UNCHANGED lists

-----------------------------------------------------------------------------

IoNext ==
    \/ \E b \in Backend, s \in expected : ProcessReply(b, s)
    \/ AddService
    \/ FinishReply
    \/ LatestSequence
    \/ FinishLatestSequence
    \/ SkipCycle

HttpNext ==
    \E t \in Thread :
        \/ \E r \in Uri : GetSlot(t, r)
        \/ GetService(t)
        \/ SignalBackendConnection(t)
        \/ SetBackendAlive(t)
        \/ \E s \in RemoveService : RemoveBackend(t, s)

Next == IoNext \/ HttpNext \/ Erase \/ FinishRemove \/ Restart

Spec == Init /\ [][Next]_vars

-----------------------------------------------------------------------------
(* Properties. *)

\* The containers of Services and the state of its threads have their types.
TypeOK ==
    /\ lists \in [Uri -> Seq(Entry)]
    /\ fwd \in [Uri -> Seq(Backend)]
    /\ prefixMap \in [Uri -> SUBSET Entry]
    /\ info \subseteq Entry
    /\ sentinel \in [Backend -> {Unknown} \cup 0 .. MaxUnanswered]
    /\ writing \in {Nothing} \cup [op : {"prune"}, seq : SeqNum]
                  \cup [op : {"remove"}, be : Backend,
                        svc : Service \cup {AnyService}]
    /\ it \in [Uri -> Nat \ {0}]
    /\ http \in [Thread -> {Idle} \cup [pc : {"slot"}, uri : Uri, slot : Nat]
                                \cup [pc : {"holding"}, be : Backend]]
    /\ reply \in {Nothing} \cup [op : {"reply"}, be : Backend, seq : SeqNum,
                                 done : Nat]
    /\ cur \in SeqNum
    /\ skipped \in 0 .. MaxSkippedCycles
    /\ heard \in BOOLEAN
    /\ expected \subseteq SeqNum
    /\ answered \subseteq Backend
    /\ retired \subseteq Backend

\* A forwarder has exactly the backends of its list, each as often as the
\* list, although it erases the first occurrence of a host and not the one
\* that latestSequence or removeBackend is erasing.
SameBackends ==
    \A u \in Uri, b \in Backend :
        Cardinality({i \in DOMAIN lists[u] : lists[u][i].be = b})
            = Cardinality({i \in DOMAIN fwd[u] : fwd[u][i] = b})

\* getService: the slot the forwarder picked still exists when the list is
\* indexed with it, whatever the other threads do (std::vector::at would
\* throw otherwise).
SlotInRange ==
    \A t \in Thread : http[t].pc = "slot" =>
        http[t].slot \in DOMAIN lists[http[t].uri]

\* BackendForwarder.h:50 "Get a backend (using its index in the Broadcast
\* service list)": the backend the forwarder picked is the one getService
\* returns.
ChosenIsReturned ==
    \A t \in Thread : http[t].pc = "slot" =>
        lists[http[t].uri][http[t].slot].be = fwd[http[t].uri][http[t].slot]

\* When latestSequence has cleaned up, a backend that answered the current
\* heartbeat, and has not failed a request since, is active in the list and
\* in the forwarder of each of its services, whether or not it was there in
\* the cycle before (the comment at BackendForwarder.cpp:79 fears otherwise).
ActiveAtOnce ==
    writing.op = "prune" /\ LoopsDone =>
        \A b \in answered \ retired : \A u \in ToSet(AddOrder(b)) :
            /\ [be |-> b, seq |-> cur] \in ToSet(lists[u])
            /\ b \in ToSet(fwd[u])

\* While the io thread is between two datagrams, getInfoRequestBackendList
\* lists every backend that services are routed to, and no other except those
\* that removeBackend has retired (it leaves itsBackendInfoRequests alone):
\* although latestSequence cleans the two tables in separate loops.
InfoMatchesRoutes ==
    reply = Nothing /\ writing = Nothing =>
        \A b \in InfoBackend :
            LET routed == \E u \in Uri : b \in ToSet(fwd[u])
            IN /\ routed => b \in InfoRequestBackends
               /\ b \in InfoRequestBackends => routed \/ b \in retired

\* Services.cpp:145 "Unknown backend, this should not happen": a backend that
\* getService has returned has a sentinel.
SentinelKnown ==
    \A t \in Thread :
        http[t].pc = "holding" => sentinel[http[t].be] # Unknown

\* FEATURES.md:50 "backends can register URI prefixes": a backend that stays
\* listed under a URI that it announced as a prefix has the prefix registered.
PrefixRegistered ==
    \A u \in Uri : \A e \in ToSet(lists[u]) :
        u.svc \in Prefix[e.be] /\ ~Doomed(u, e) => e \in prefixMap[u]

\* Services.cpp:47 "could happen if all backends fail to respond": getService
\* finds an empty backend list only if no backend serves the requested URI.
EmptyOnlyIfUnserved ==
    \A r \in Uri : CanRead /\ lists[Translate(r)] = <<>> => lists[r] = <<>>

\* When latestSequence or removeBackend gives itsMutex back, their loops, which
\* erase from the lists they iterate over, have missed nothing: no entry is left
\* that they were to remove, and whoever a forwarder may still choose has an
\* entry that they were not.
NothingMissed ==
    [][ writing # Nothing /\ writing' = Nothing =>
          \A u \in Uri :
              /\ DoomedAt(u) = {}
              /\ \A b \in ToSet(fwd[u]) :
                     \E e \in ToSet(lists[u]) : e.be = b /\ ~Doomed(u, e) ]_vars

\* Services implements the table it stands for: the routes, in which the
\* entries a writer has yet to erase are gone as soon as it holds itsMutex.
Routes == UNION {{[uri |-> u, be |-> e.be, seq |-> e.seq] :
                    e \in {f \in ToSet(lists[u]) : ~Doomed(u, f)}} : u \in Uri}

Table == INSTANCE Registry WITH routes <- Routes

TableSpec == Table!Spec
=============================================================================
