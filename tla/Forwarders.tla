----------------------------- MODULE Forwarders -----------------------------
(***************************************************************************)
(* The seven balancing strategies of a Sputnik frontend                    *)
(* (BackendForwarder.cpp and the classes derived from it), as one          *)
(* forwarder whose strategy the configuration fixes.                       *)
(*                                                                         *)
(* A strategy draws a position of its backend list from a distribution     *)
(* computed earlier, or computes its choice anew for every request.  Of a  *)
(* distribution only the positions with a positive weight matter here.     *)
(* The connections of the backends are counted by Spine::Reactor and       *)
(* change at any time.  A forwarder's own itsMutex makes each of its       *)
(* operations one step.                                                    *)
(*                                                                         *)
(* A definition X_Y is definition X with mistake Y in it.  The runs use    *)
(* only X; X_Y is there to show that they would notice the mistake.        *)
(***************************************************************************)
EXTENDS Integers, Sequences, FiniteSets

CONSTANTS
    Backend,            \* host:port of each backend
    Config,             \* settings of "forwarding", "balance_factor" and
                        \* "sticky_cookie", which may be empty
    Client,             \* addresses of clients, as texts
    Agent,              \* values of User-Agent, its absence included
    Cookie,             \* values of the affinity cookie
    Score,              \* Score[k][b]: fnv1a(b, seed fnv1a(k))
    ConnectionSlack,    \* kConnectionSlack
    MaxInt,             \* the largest int
    OutOfRange,         \* what the build makes of an int that is larger
    Vanishing,          \* exp(-a * count) is 0 from this count on
    MaxInfos,           \* bound: entries of the backend list
    MaxConns            \* bound: connections of a backend

Modes == {"random", "doublerandom", "inverseload", "inverseconnections",
          "leastconnections", "exponentialconnections", "sticky"}

\* A text is a sequence of pieces.  A header or a cookie that is absent is as
\* good as one that is empty.
Empty == <<>>

\* What StickyForwarder looks at in a request, parsed, and the keys it makes
\* of that.
Request == [cookie : Cookie \cup {Empty}, forwardedFor : Client \cup {Empty},
            peer : Client, agent : Agent]
CookieKey(value) == <<"c:">> \o value
ClientKey(ip, agent) == <<"u:">> \o ip \o <<"|">> \o agent
Key == {CookieKey(c) : c \in Cookie} \cup {ClientKey(ip, ua) : ip \in Client, ua \in Agent}

ASSUME ConfigAssumption ==
    Config \subseteq [mode : Modes, num : Nat, den : Nat \ {0}, cookie : BOOLEAN]
ASSUME ScoreAssumption == Score \in [Key -> [Backend -> Nat]]
ASSUME LimitAssumption == /\ ConnectionSlack \in Nat
                          /\ Vanishing \in Nat \ {0}
                          /\ MaxInt \in Nat
                          /\ OutOfRange \in Int
                          /\ MaxInfos \in Nat
                          /\ MaxConns \in Nat

VARIABLES
    config,     \* itsFwdMode, itsBalancingCoefficient (num/den) and
                \* whether itsCookieName is set
    infos,      \* itsBackendInfos
    dist,       \* the positions with positive weight in itsDistribution
    conns,      \* Reactor::getBackendRequestStatus()
    slot        \* history: what getBackend returned since infos changed, or 0

vars == <<config, infos, dist, conns, slot>>

mode == config.mode

\* "connections[info.hostName][info.port]": of the backend in position i.
Count(list, i) == conns[list[i]]

\* The least number of connections of the listed backends.
Counts(list) == {Count(list, i) : i \in DOMAIN list}
MinCount(list) == CHOOSE m \in Counts(list) : \A n \in Counts(list) : m <= n

-----------------------------------------------------------------------------
(* Weights: redistribute of the strategies that use itsDistribution. *)

\* LeastConnectionsForwarder: the least loaded share the weight.
LeastConnections(list) ==
    {i \in DOMAIN list : Count(list, i) = MinCount(list)}

\* InverseConnectionsForwarder: 1/(1 + a * count) is positive.
InverseConnections(list) == DOMAIN list

\* InverseLoadForwarder: so is 1/(1 + a * max(1, load)).
InverseLoad(list) == DOMAIN list

\* ExponentialConnectionsForwarder: the weight of a busy backend vanishes in
\* single precision.  If all do, the sum is 0 and every weight not a number,
\* of which boost::random makes equal weights.
ExponentialConnections(list) ==
    LET heavy == {i \in DOMAIN list : Count(list, i) < Vanishing}
    IN IF heavy = {} THEN DOMAIN list ELSE heavy

\* What boost::random makes of no weights at all.
FirstOnly == {1}

Weights(list) ==
    IF list = <<>> THEN FirstOnly
    ELSE CASE mode = "leastconnections" -> LeastConnections(list)
           [] mode = "exponentialconnections" -> ExponentialConnections(list)
           [] mode = "inverseload" -> InverseLoad(list)
           [] OTHER -> InverseConnections(list)

\* The strategies that override redistribute, and those that also override
\* rebalance.  The others do not draw from itsDistribution.
Weighted == {"inverseload", "inverseconnections", "leastconnections",
             "exponentialconnections"}
Rebalanced == Weighted \ {"inverseload"}

Redistribute(list) == dist' = IF mode \in Weighted THEN Weights(list) ELSE dist

-----------------------------------------------------------------------------
(* StickyForwarder. *)

\* extractKey: the cookie wins; otherwise it is the address the client says it
\* has, or has, with its User-Agent.
ClientAddress(r) == IF r.forwardedFor # Empty THEN r.forwardedFor ELSE r.peer
ExtractKey(r) ==
    IF config.cookie /\ r.cookie # Empty
      THEN CookieKey(r.cookie)
      ELSE ClientKey(ClientAddress(r), r.agent)

\* The balance factor, unless it is 1 or less.
Factor == IF config.num > config.den THEN <<config.num, config.den>> ELSE <<2, 1>>

\* A backend with more connections than this is a hotspot.  The conversion to
\* int drops the fraction; a number that no int holds is undefined behaviour
\* (the conversion of x86-64 makes a negative number of it).
Scaled(list) == (Factor[1] * MinCount(list)) \div Factor[2]
Fits(list) == Scaled(list) + ConnectionSlack <= MaxInt
Threshold(list) == IF Fits(list) THEN Scaled(list) + ConnectionSlack ELSE OutOfRange

Eligible(list) ==
    {i \in DOMAIN list : Count(list, i) <= Threshold(list)}

\* The loop of getBackend after i rounds: the best position so far, or 0.  It
\* returns the first position if it finds only hotspots.
BestIndex_Modulo(list, k) ==
    LET eligible == Eligible(list)
        place == Score[k][list[1]] % Cardinality(eligible)
    IN IF eligible = {} THEN 1
       ELSE CHOOSE i \in eligible : Cardinality({j \in eligible : j < i}) = place
BestIndex_NoExclusion(list, k) ==
    CHOOSE i \in DOMAIN list : \A j \in DOMAIN list :
        /\ Score[k][list[j]] <= Score[k][list[i]]
        /\ j < i => Score[k][list[j]] < Score[k][list[i]]
BestIndex(list, k) ==
    LET eligible == Eligible(list)
        best[i \in 0 .. Len(list)] ==
            IF i = 0 THEN 0
            ELSE IF /\ i \in eligible
                    /\ \/ best[i - 1] = 0
                       \/ Score[k][list[i]] > Score[k][list[best[i - 1]]]
                   THEN i
                   ELSE best[i - 1]
    IN IF best[Len(list)] = 0 THEN 1 ELSE best[Len(list)]

-----------------------------------------------------------------------------
(* The operations of a forwarder. *)

\* setForwarding has fixed the strategy and addService makes a forwarder for
\* a new URI.
Init ==
    /\ config \in Config
    /\ infos = <<>>
    /\ dist = FirstOnly
    /\ conns \in [Backend -> 0 .. MaxConns]
    /\ slot = 0

AddBackend(b) ==
    /\ Len(infos) < MaxInfos
    /\ infos' = Append(infos, b)
    /\ Redistribute(infos')
    /\ slot' = 0
    /\ UNCHANGED <<config, conns>>

Without(list, i) == SubSeq(list, 1, i - 1) \o SubSeq(list, i + 1, Len(list))
Occurrences(b) == {i \in DOMAIN infos : infos[i] = b}

\* Just one occurrence of b is erased, the first.
RemoveBackend_KeepsWeights(b) ==
    /\ Occurrences(b) # {}
    /\ infos' = Without(infos, CHOOSE i \in Occurrences(b) :
                                   \A j \in Occurrences(b) : i <= j)
    /\ slot' = 0
    /\ UNCHANGED <<config, dist, conns>>
RemoveBackend(b) ==
    /\ Occurrences(b) # {}
    /\ infos' = Without(infos, CHOOSE i \in Occurrences(b) :
                                   \A j \in Occurrences(b) : i <= j)
    /\ Redistribute(infos')
    /\ slot' = 0
    /\ UNCHANGED <<config, conns>>

\* BackendForwarder::getBackend: the weights are brought up to date, by the
\* strategies that do so for every request, and a position is drawn.
Rebalance_Never == UNCHANGED dist
Rebalance == IF mode \in Rebalanced THEN Redistribute(infos) ELSE UNCHANGED dist

GetBackend ==
    /\ infos # <<>>
    /\ mode \in Weighted
    /\ Rebalance
    /\ slot' \in dist'
    /\ UNCHANGED <<config, infos, conns>>

GetRandomBackend ==
    /\ infos # <<>>
    /\ mode = "random"
    /\ slot' \in DOMAIN infos
    /\ UNCHANGED <<config, infos, dist, conns>>

\* Of two random candidates the one with fewer connections, the first if equal.
GetDoubleRandomBackend ==
    /\ infos # <<>>
    /\ mode = "doublerandom"
    /\ \E i, j \in DOMAIN infos :
          slot' = IF Count(infos, i) <= Count(infos, j) THEN i ELSE j
    /\ UNCHANGED <<config, infos, dist, conns>>

GetStickyBackend(r) ==
    /\ infos # <<>>
    /\ mode = "sticky"
    /\ slot' = BestIndex(infos, ExtractKey(r))
    /\ UNCHANGED <<config, infos, dist, conns>>

\* Requests to a backend begin and end.
ChangeConnections(b) ==
    /\ \E n \in {conns[b] - 1, conns[b] + 1} \cap (0 .. MaxConns) :
          conns' = [conns EXCEPT ![b] = n]
    /\ UNCHANGED <<config, infos, dist, slot>>

-----------------------------------------------------------------------------

Next ==
    \/ \E b \in Backend : AddBackend(b) \/ RemoveBackend(b) \/ ChangeConnections(b)
    \/ GetBackend
    \/ GetRandomBackend
    \/ GetDoubleRandomBackend
    \/ \E r \in Request : GetStickyBackend(r)

Spec == Init /\ [][Next]_vars

-----------------------------------------------------------------------------
(* Properties. *)

\* The members of the forwarder have their types.
TypeOK ==
    /\ config \in Config
    /\ infos \in Seq(Backend)
    /\ dist \subseteq Nat
    /\ conns \in [Backend -> 0 .. MaxConns]
    /\ slot \in 0 .. Len(infos)

\* A strategy that draws from itsDistribution can only draw positions the
\* list has, and can draw one, also when it does not look at its weights
\* again before the next request (inverseload), and when the weights of all
\* backends vanish (exponentialconnections).
DistInRange ==
    mode \in Weighted /\ infos # <<>> => dist # {} /\ dist \subseteq DOMAIN infos

\* FEATURES.md:70 "Pick the backend with fewest active connections": at the
\* time of the request, although connections come and go between the
\* computations of the weights.
FewestConnections ==
    [][ mode = "leastconnections" /\ GetBackend =>
          \A i \in DOMAIN infos : Count(infos, slot') <= Count(infos, i) ]_vars

\* StickyForwarder.h:27 "backends whose active-connection count is
\* significantly higher than the least-loaded backend are excluded from
\* selection entirely": unless the threshold overflows, getBackend finds a
\* backend that is no hotspot, for any number of connections (StickyForwarder.cpp:127
\* "the eligible set below is provably non-empty"), and none of those that are no
\* hotspots scores higher.
StickyIsRendezvous ==
    mode = "sticky" /\ infos # <<>> /\ Fits(infos) => \A k \in Key :
        LET p == BestIndex(infos, k)
        IN /\ p \in Eligible(infos)
           /\ \A i \in Eligible(infos) : Score[k][infos[i]] <= Score[k][infos[p]]

\* StickyForwarder.h:14 "Routes a client to the same backend as long as the
\* backend set is unchanged" and line 29 "their keys spill deterministically":
\* while connections come and go, a client is moved only because its backend
\* has become a hotspot, or to one that has just ceased to be one; never
\* because others have.
OnlyHotspotsSpill ==
    [][ mode = "sticky" /\ infos # <<>> /\ (\E b \in Backend : ChangeConnections(b)) =>
        \A k \in Key :
          LET before == BestIndex(infos, k)
              after == BestIndex(infos, k)'
          IN \/ after = before
             \/ before \notin Eligible(infos)'
             \/ after \notin Eligible(infos) ]_vars

\* StickyForwarder.h:24 "adding or removing one backend only remaps the keys
\* that were pinned to the changed backend", as long as the least number of
\* connections stays what it was, so that nobody becomes or ceases to be a
\* hotspot.
OnlyChangedRemaps ==
    [][ mode = "sticky" /\ infos # <<>> /\ infos' # <<>> /\ infos' # infos
        /\ MinCount(infos) = MinCount(infos') =>
          \A k \in Key :
              LET before == infos[BestIndex(infos, k)]
                  after == infos'[BestIndex(infos', k)]
              IN before = after \/ AddBackend(after) \/ RemoveBackend(before)
      ]_vars

\* Whatever the strategy, a forwarder is a list of backends from which it
\* picks positions: the step of GetSlot in Services allows every strategy.
List == INSTANCE Chooser WITH backends <- infos

ListSpec == List!Spec
=============================================================================
