-------------------------- MODULE ForwardersProofs --------------------------
(* Theorems about Forwarders: for every number of backends and connections,
   every slack and balance factor, and every scoring of keys. *)
EXTENDS Forwarders, ListLemmas

\* The variables that the weights depend on have their types.  (That a position
\* of the list is picked follows from DistInRange and from StickyForwarder's
\* loop: see SlotInv.)
Typed ==
    /\ config \in Config
    /\ infos \in Seq(Backend)
    /\ conns \in [Backend -> 0 .. MaxConns]

\* What the operations of a forwarder preserve.
WeightInv == Typed /\ DistInRange

-----------------------------------------------------------------------------
(* The least loaded backend. *)

\* The first loop of redistribute finds a number of connections that some
\* listed backend has and none is below.
LEMMA MinCountIsLeast ==
    ASSUME Typed, NEW list \in Seq(Backend), list # <<>>
    PROVE  /\ MinCount(list) \in Nat
           /\ \E i \in DOMAIN list : Count(list, i) = MinCount(list)
           /\ \A i \in DOMAIN list : MinCount(list) <= Count(list, i)
<1>1. \A i \in DOMAIN list : Count(list, i) \in Nat
  BY ElementOfSeq, LimitAssumption DEF Typed, Count
<1>2. Counts(list) \in SUBSET Nat
  BY <1>1 DEF Counts
<1>3. 1 \in DOMAIN list
  BY EmptySeq, LenProperties
<1>4. Counts(list) # {}
  BY <1>3 DEF Counts
<1>5. \E m \in Counts(list) : \A n \in Counts(list) : m <= n
  BY <1>2, <1>4, LeastNumber
<1>6. /\ MinCount(list) \in Counts(list)
      /\ \A n \in Counts(list) : MinCount(list) <= n
  BY <1>5 DEF MinCount
<1> QED
  BY <1>2, <1>6 DEF Counts

-----------------------------------------------------------------------------
(* Weights. *)

\* The strategies that override redistribute give a positive weight to some
\* position of the list, and to no other.
LEMMA WeightsInRange ==
    ASSUME Typed, NEW list \in Seq(Backend), list # <<>>
    PROVE  Weights(list) # {} /\ Weights(list) \subseteq DOMAIN list
<1>1. 1 \in DOMAIN list
  BY EmptySeq, LenProperties
<1>2. LeastConnections(list) # {} /\ LeastConnections(list) \subseteq DOMAIN list
  BY MinCountIsLeast DEF LeastConnections
<1>3. /\ ExponentialConnections(list) # {}
      /\ ExponentialConnections(list) \subseteq DOMAIN list
  BY <1>1 DEF ExponentialConnections
<1>4. InverseLoad(list) = DOMAIN list /\ InverseConnections(list) = DOMAIN list
  BY DEF InverseLoad, InverseConnections
<1> QED
  BY <1>1, <1>2, <1>3, <1>4 DEF Weights

\* Erasing a position leaves a list of backends.
LEMMA WithoutIsList ==
    ASSUME NEW list \in Seq(Backend), NEW i \in DOMAIN list
    PROVE  Without(list, i) \in Seq(Backend)
BY RemoveAtProperties DEF Without, RemoveAt

\* removeBackend erases the first occurrence.
LEMMA RemovesFirst ==
    ASSUME infos \in Seq(Backend), NEW b \in Backend, RemoveBackend(b)
    PROVE  \E i \in DOMAIN infos :
               /\ infos[i] = b
               /\ \A j \in DOMAIN infos : infos[j] = b => i <= j
               /\ infos' = Without(infos, i)
<1> DEFINE First(i) == \A j \in Occurrences(b) : i <= j
<1>1. Occurrences(b) \in SUBSET Nat /\ Occurrences(b) # {}
  BY LenProperties DEF RemoveBackend, Occurrences
<1>2. \E i \in Occurrences(b) : First(i)
  BY <1>1, LeastNumber
<1>3. PICK i \in Occurrences(b) : First(i) /\ infos' = Without(infos, i)
  BY <1>2 DEF RemoveBackend
<1> QED
  BY <1>3 DEF Occurrences

\* addBackend and removeBackend recompute the weights for the new list, so
\* that a strategy may draw from them without looking again.
LEMMA RedistributeKeepsInv ==
    ASSUME WeightInv, infos' \in Seq(Backend), Redistribute(infos'),
           UNCHANGED <<config, conns>>
    PROVE  WeightInv'
<1>1. Typed'
  BY DEF WeightInv, Typed
<1>2. ASSUME mode \in Weighted, infos' # <<>>
      PROVE  dist' # {} /\ dist' \subseteq DOMAIN infos'
  <2>1. dist' = Weights(infos')
    BY <1>2 DEF Redistribute
  <2> QED
    BY <1>2, <2>1, WeightsInRange DEF WeightInv
<1>3. mode' = mode
  BY DEF mode
<1> QED
  BY <1>1, <1>2, <1>3 DEF WeightInv, DistInRange

LEMMA NextKeepsInv == WeightInv /\ [Next]_vars => WeightInv'
<1> SUFFICES ASSUME WeightInv, [Next]_vars PROVE WeightInv'
  OBVIOUS
<1>1. ASSUME NEW b \in Backend, AddBackend(b) PROVE WeightInv'
  <2>1. infos' \in Seq(Backend)
    BY <1>1, AppendProperties DEF AddBackend, WeightInv, Typed
  <2> QED
    BY <1>1, <2>1, RedistributeKeepsInv DEF AddBackend
<1>2. ASSUME NEW b \in Backend, RemoveBackend(b) PROVE WeightInv'
  <2>1. PICK i \in DOMAIN infos : infos' = Without(infos, i)
    BY <1>2, RemovesFirst DEF WeightInv, Typed
  <2>2. infos' \in Seq(Backend)
    BY <2>1, WithoutIsList DEF WeightInv, Typed
  <2> QED
    BY <1>2, <2>2, RedistributeKeepsInv DEF RemoveBackend
<1>3. ASSUME NEW b \in Backend, ChangeConnections(b) PROVE WeightInv'
  <2>1. conns' \in [Backend -> 0 .. MaxConns]
    BY <1>3 DEF ChangeConnections, WeightInv, Typed
  <2> QED
    BY <1>3, <2>1 DEF ChangeConnections, WeightInv, Typed, DistInRange, mode
<1>4. CASE GetBackend
  <2>1. CASE mode \in Rebalanced
    <3>1. Redistribute(infos')
      BY <1>4, <2>1 DEF GetBackend, Rebalance
    <3> QED
      BY <1>4, <3>1, RedistributeKeepsInv DEF GetBackend, WeightInv, Typed
  <2>2. CASE mode \notin Rebalanced
    BY <1>4, <2>2 DEF GetBackend, Rebalance, WeightInv, Typed, DistInRange, mode
  <2> QED
    BY <2>1, <2>2
<1>5. ASSUME UNCHANGED <<config, infos, dist, conns>> PROVE WeightInv'
  BY <1>5 DEF WeightInv, Typed, DistInRange, mode
<1>6. ASSUME GetRandomBackend \/ GetDoubleRandomBackend
             \/ (\E r \in Request : GetStickyBackend(r)) \/ UNCHANGED vars
      PROVE  UNCHANGED <<config, infos, dist, conns>>
  BY <1>6 DEF GetRandomBackend, GetDoubleRandomBackend, GetStickyBackend, vars
<1> QED
  BY <1>1, <1>2, <1>3, <1>4, <1>5, <1>6 DEF Next

LEMMA InvAlways == Spec => []WeightInv
<1>1. Init => WeightInv
  BY EmptySeq DEF Init, WeightInv, Typed, DistInRange
<1> QED
  BY <1>1, NextKeepsInv, PTL DEF Spec

-----------------------------------------------------------------------------
(* StickyForwarder's exclusion of hotspots. *)

\* The conversion of factor * count to int does not go below the count.
LEMMA ScaledAtLeast ==
    ASSUME NEW n \in Nat, NEW d \in Nat \ {0}, NEW m \in Nat, n >= d
    PROVE  (n * m) \div d \in Int /\ m <= (n * m) \div d
<1> DEFINE q == (n * m) \div d
<1>1. n * m \in Nat /\ d * m <= n * m
  OBVIOUS
<1>2. q \in Int /\ n * m < d * (q + 1)
  BY <1>1
<1>3. ASSUME q < m PROVE FALSE
  <2>1. d * (q + 1) <= d * m
    BY <1>2, <1>3
  <2> QED
    BY <1>1, <1>2, <2>1
<1> QED
  BY <1>2, <1>3

\* The factor is more than 1, whatever is configured.
LEMMA FactorValue ==
    ASSUME config \in Config
    PROVE  Factor[1] \in Nat /\ Factor[2] \in Nat \ {0} /\ Factor[1] >= Factor[2]
BY ConfigAssumption DEF Factor

\* The threshold is not below the least number of connections, so the least
\* loaded backend is never excluded, unless the threshold overflows.
LEMMA LeastLoadedEligible ==
    ASSUME Typed, NEW list \in Seq(Backend), list # <<>>, Fits(list)
    PROVE  Eligible(list) # {}
<1>1. PICK i \in DOMAIN list : Count(list, i) = MinCount(list)
  BY MinCountIsLeast
<1>2. MinCount(list) \in Nat
  BY MinCountIsLeast
<1>3. Scaled(list) \in Int /\ MinCount(list) <= Scaled(list)
  BY <1>2, FactorValue, ScaledAtLeast DEF Typed, Scaled
<1>4. MinCount(list) <= Threshold(list)
  BY <1>2, <1>3, LimitAssumption DEF Threshold
<1> QED
  BY <1>1, <1>4 DEF Eligible

-----------------------------------------------------------------------------
(* The loop of StickyForwarder::getBackend. *)

\* What a round makes of the best position so far.
Round(list, k, best, i) ==
    IF /\ i \in Eligible(list)
       /\ best = 0 \/ Score[k][list[i]] > Score[k][list[best]]
      THEN i
      ELSE best

\* f[i] is the best position after i rounds, for the first n.
IsLoop(f, list, k, n) ==
    f = [i \in 0 .. n |-> IF i = 0 THEN 0 ELSE Round(list, k, f[i - 1], i)]

\* The loop runs: otherwise there is a first round that it does not reach.
LEMMA LoopExists ==
    ASSUME NEW list, NEW k, NEW n \in Nat
    PROVE  \E f : IsLoop(f, list, k, n)
<1> DEFINE T == {m \in Nat : ~ \E f : IsLoop(f, list, k, m)}
<1> SUFFICES ASSUME T # {}
             PROVE  FALSE
  OBVIOUS
<1>1. PICK m \in T : \A l \in T : m <= l
  BY LeastNumber
<1>2. CASE m = 0
  <2>1. IsLoop([i \in 0 .. 0 |-> 0], list, k, 0)
    BY DEF IsLoop
  <2> QED
    BY <1>2, <2>1
<1>3. CASE m # 0
  <2>1. m - 1 \in Nat /\ m - 1 \notin T
    BY <1>1, <1>3
  <2>2. PICK f : IsLoop(f, list, k, m - 1)
    BY <2>1
  <2> DEFINE g == [i \in 0 .. m |-> IF i = m THEN Round(list, k, f[m - 1], m)
                                             ELSE f[i]]
             h == [i \in 0 .. m |-> IF i = 0 THEN 0
                                             ELSE Round(list, k, g[i - 1], i)]
  <2>3. ASSUME NEW i \in 0 .. m
        PROVE  g[i] = h[i]
    <3>1. \A j \in 0 .. m - 1 :
              f[j] = IF j = 0 THEN 0 ELSE Round(list, k, f[j - 1], j)
      BY <2>2 DEF IsLoop
    <3>2. CASE i = m
      <4>1. g[m - 1] = f[m - 1]
        BY <2>1
      <4> QED
        BY <1>3, <3>2, <4>1
    <3>3. CASE i # m /\ i # 0
      <4>1. i \in 0 .. m - 1 /\ i - 1 \in 0 .. m /\ i - 1 # m
        BY <1>1, <3>3
      <4>2. g[i] = f[i] /\ g[i - 1] = f[i - 1]
        BY <3>3, <4>1
      <4> QED
        BY <3>1, <3>3, <4>1, <4>2
    <3>4. CASE i # m /\ i = 0
      BY <2>1, <3>1, <3>4
    <3> QED
      BY <3>2, <3>3, <3>4
  <2>4. g = h
    <3> HIDE DEF h
    <3>1. h = [i \in 0 .. m |-> h[i]]
      BY DEF h
    <3> QED
      BY <2>3, <3>1
  <2> HIDE DEF g
  <2>5. IsLoop(g, list, k, m)
    BY <2>4 DEF IsLoop
  <2> QED
    BY <1>1, <2>5
<1> QED
  BY <1>2, <1>3

LEMMA BestIndexIsLoop ==
    ASSUME NEW list \in Seq(Backend), NEW k
    PROVE  \E f : /\ IsLoop(f, list, k, Len(list))
                  /\ BestIndex(list, k) = IF f[Len(list)] = 0 THEN 1 ELSE f[Len(list)]
<1> DEFINE f == CHOOSE best : IsLoop(best, list, k, Len(list))
<1>1. IsLoop(f, list, k, Len(list))
  BY LoopExists, LenProperties
<1>2. BestIndex(list, k) = IF f[Len(list)] = 0 THEN 1 ELSE f[Len(list)]
  BY DEF BestIndex, IsLoop, Round
<1> QED
  BY <1>1, <1>2

LEMMA ScoreType ==
    ASSUME NEW list \in Seq(Backend), NEW k \in Key, NEW i \in DOMAIN list
    PROVE  Score[k][list[i]] \in Nat
<1>1. list[i] \in Backend
  BY ElementOfSeq, LenProperties
<1> QED
  BY <1>1, ScoreAssumption

\* Of the first n positions, p is the first of those with the highest score
\* among the backends that are no hotspots, or 0 if all are.
BestOfFirst(list, k, n, p) ==
    \/ p = 0 /\ \A j \in 1 .. n : j \notin Eligible(list)
    \/ /\ p \in 1 .. n /\ p \in Eligible(list)
       /\ \A j \in Eligible(list) : j \in 1 .. n =>
              /\ Score[k][list[j]] <= Score[k][list[p]]
              /\ j < p => Score[k][list[j]] < Score[k][list[p]]

\* So it is after every round: otherwise there is a first round that breaks it.
LEMMA LoopFindsBest ==
    ASSUME NEW list \in Seq(Backend), NEW k \in Key,
           NEW f, IsLoop(f, list, k, Len(list)), NEW n \in 0 .. Len(list)
    PROVE  BestOfFirst(list, k, n, f[n])
<1> DEFINE T == {m \in 0 .. Len(list) : ~BestOfFirst(list, k, m, f[m])}
<1> SUFFICES ASSUME T # {}
             PROVE  FALSE
  OBVIOUS
<1>1. Len(list) \in Nat /\ DOMAIN list = 1 .. Len(list)
  BY LenProperties
<1>2. PICK m \in T : \A l \in T : m <= l
  <2>1. T \in SUBSET Nat
    BY <1>1
  <2> HIDE DEF T
  <2> QED
    BY <2>1, LeastNumber
<1>3. \A i \in 0 .. Len(list) :
          f[i] = IF i = 0 THEN 0 ELSE Round(list, k, f[i - 1], i)
  BY DEF IsLoop
<1>4. CASE m = 0
  <2>1. f[0] = 0
    BY <1>1, <1>3
  <2> QED
    BY <1>2, <1>4, <2>1 DEF BestOfFirst
<1>5. CASE m # 0
  <2>1. m \in 1 .. Len(list) /\ m - 1 \in 0 .. Len(list) /\ m - 1 \notin T
    BY <1>1, <1>2, <1>5
  <2> DEFINE p == f[m - 1]
  <2>2. BestOfFirst(list, k, m - 1, p) /\ f[m] = Round(list, k, p, m)
    BY <1>3, <1>5, <2>1
  <2> HIDE DEF p, T
  <2>3. \A j \in DOMAIN list : Score[k][list[j]] \in Nat
    BY ScoreType
  <2>4. \A j \in 1 .. m : j \in 1 .. m - 1 \/ j = m
    BY <2>1
  <2>5. 1 .. m \subseteq DOMAIN list
    BY <1>1, <2>1
  <2>6. CASE m \notin Eligible(list)
    <3>1. f[m] = p
      BY <2>2, <2>6 DEF Round
    <3>2. BestOfFirst(list, k, m, p)
      BY <2>1, <2>2, <2>4, <2>6 DEF BestOfFirst
    <3> QED
      BY <1>2, <3>1, <3>2 DEF T
  <2>7. CASE m \in Eligible(list) /\ p = 0
    <3>1. f[m] = m
      BY <2>2, <2>7 DEF Round
    <3>2. \A j \in Eligible(list) : j \in 1 .. m => j = m
      BY <2>1, <2>2, <2>4, <2>7 DEF BestOfFirst
    <3>3. BestOfFirst(list, k, m, m)
      BY <2>1, <2>3, <2>5, <2>7, <3>2 DEF BestOfFirst
    <3> QED
      BY <1>2, <3>1, <3>3 DEF T
  <2>8. CASE m \in Eligible(list) /\ p # 0
    <3>1. /\ p \in 1 .. m - 1 /\ p \in Eligible(list)
          /\ \A j \in Eligible(list) : j \in 1 .. m - 1 =>
                 /\ Score[k][list[j]] <= Score[k][list[p]]
                 /\ j < p => Score[k][list[j]] < Score[k][list[p]]
      BY <2>2, <2>8 DEF BestOfFirst
    <3>2. p \in DOMAIN list /\ m \in DOMAIN list
      BY <1>1, <2>1, <3>1
    <3>3. Score[k][list[p]] \in Nat /\ Score[k][list[m]] \in Nat
      BY <2>3, <3>2
    <3>4. CASE Score[k][list[m]] > Score[k][list[p]]
      <4>1. f[m] = m
        BY <2>2, <2>8, <3>4 DEF Round
      <4>2. ASSUME NEW j \in Eligible(list), j \in 1 .. m
            PROVE  /\ Score[k][list[j]] <= Score[k][list[m]]
                   /\ j < m => Score[k][list[j]] < Score[k][list[m]]
        <5>1. Score[k][list[j]] \in Nat
          BY <2>3, <2>5, <4>2
        <5>2. j \in 1 .. m - 1 \/ j = m
          BY <2>4, <4>2
        <5>3. CASE j \in 1 .. m - 1
          <6>1. Score[k][list[j]] <= Score[k][list[p]]
            BY <3>1, <5>3
          <6>2. Score[k][list[j]] < Score[k][list[m]]
            BY <3>3, <3>4, <5>1, <6>1
          <6> QED
            BY <3>3, <5>1, <6>2
        <5>4. CASE j = m
          BY <2>1, <3>3, <5>4
        <5> QED
          BY <5>2, <5>3, <5>4
      <4>3. BestOfFirst(list, k, m, m)
        BY <2>1, <2>8, <4>2 DEF BestOfFirst
      <4> QED
        BY <1>2, <4>1, <4>3 DEF T
    <3>5. CASE ~(Score[k][list[m]] > Score[k][list[p]])
      <4>1. f[m] = p
        BY <2>2, <2>8, <3>5 DEF Round
      <4>2. ASSUME NEW j \in Eligible(list), j \in 1 .. m
            PROVE  /\ Score[k][list[j]] <= Score[k][list[p]]
                   /\ j < p => Score[k][list[j]] < Score[k][list[p]]
        <5>1. j \in 1 .. m - 1 \/ j = m
          BY <2>4, <4>2
        <5>2. CASE j = m
          BY <2>1, <3>1, <3>3, <3>5, <5>2
        <5> QED
          BY <3>1, <5>1, <5>2
      <4>3. p \in 1 .. m
        BY <2>1, <3>1
      <4>4. BestOfFirst(list, k, m, p)
        BY <3>1, <4>2, <4>3 DEF BestOfFirst
      <4> QED
        BY <1>2, <4>1, <4>4 DEF T
    <3> QED
      BY <3>4, <3>5
  <2> QED
    BY <2>6, <2>7, <2>8
<1> QED
  BY <1>4, <1>5

\* p is the first of the positions of list with the highest score among the
\* backends that are no hotspots.
IsBest(list, k, p) ==
    /\ p \in Eligible(list)
    /\ \A j \in Eligible(list) :
           /\ Score[k][list[j]] <= Score[k][list[p]]
           /\ j < p => Score[k][list[j]] < Score[k][list[p]]

\* That is the position getBackend returns, or the first if all are hotspots.
LEMMA BestIndexIsBest ==
    ASSUME NEW list \in Seq(Backend), list # <<>>, NEW k \in Key
    PROVE  /\ BestIndex(list, k) \in DOMAIN list
           /\ \/ IsBest(list, k, BestIndex(list, k))
              \/ Eligible(list) = {} /\ BestIndex(list, k) = 1
<1> DEFINE n == Len(list)
<1>1. n \in Nat /\ DOMAIN list = 1 .. n /\ 1 \in DOMAIN list
  BY LenProperties, EmptySeq
<1>2. PICK f : /\ IsLoop(f, list, k, n)
               /\ BestIndex(list, k) = IF f[n] = 0 THEN 1 ELSE f[n]
  BY BestIndexIsLoop
<1>3. BestOfFirst(list, k, n, f[n])
  BY <1>1, <1>2, LoopFindsBest
<1>4. Eligible(list) \subseteq 1 .. n /\ 0 \notin 1 .. n
  BY <1>1 DEF Eligible
<1>5. CASE f[n] = 0
  BY <1>1, <1>2, <1>3, <1>4, <1>5 DEF BestOfFirst
<1>6. CASE f[n] # 0
  <2>1. IsBest(list, k, f[n])
    BY <1>3, <1>4, <1>6 DEF BestOfFirst, IsBest
  <2> QED
    BY <1>1, <1>2, <1>4, <1>6, <2>1 DEF IsBest
<1> QED
  BY <1>5, <1>6

\* There is only one such position.
LEMMA BestIsUnique ==
    ASSUME NEW list \in Seq(Backend), NEW k \in Key,
           NEW p, IsBest(list, k, p), NEW q, IsBest(list, k, q)
    PROVE  p = q
<1>1. p \in DOMAIN list /\ q \in DOMAIN list /\ p \in Int /\ q \in Int
  BY LenProperties DEF IsBest, Eligible
<1>2. Score[k][list[p]] \in Nat /\ Score[k][list[q]] \in Nat
  BY <1>1, ScoreType
<1>3. ~(p < q) /\ ~(q < p)
  BY <1>2 DEF IsBest
<1> QED
  BY <1>1, <1>3

\* Every request has a key.
LEMMA KeyOfRequest ==
    ASSUME NEW r \in Request
    PROVE  ExtractKey(r) \in Key
<1>1. /\ r.cookie # Empty => r.cookie \in Cookie
      /\ ClientAddress(r) \in Client /\ r.agent \in Agent
  BY DEF Request, ClientAddress
<1> QED
  BY <1>1 DEF Key, ExtractKey

\* Who is a hotspot depends on the backends listed only through the least
\* number of connections.
LEMMA SameThreshold ==
    ASSUME NEW list, NEW other, MinCount(list) = MinCount(other)
    PROVE  Threshold(list) = Threshold(other)
BY DEF Threshold, Fits, Scaled

\* Adding a backend changes the choice to that backend, or not at all.
LEMMA BestAfterAdd ==
    ASSUME Typed, NEW list \in Seq(Backend), list # <<>>, NEW b \in Backend,
           MinCount(list) = MinCount(Append(list, b)), NEW k \in Key
    PROVE  LET longer == Append(list, b)
           IN longer[BestIndex(longer, k)] \in {list[BestIndex(list, k)], b}
<1> DEFINE longer == Append(list, b)
           n == Len(list)
           q == BestIndex(longer, k)
<1>1. n \in Nat /\ DOMAIN list = 1 .. n
  BY LenProperties
<1>2. /\ longer \in Seq(Backend) /\ longer # <<>> /\ Len(longer) = n + 1
      /\ \A j \in 1 .. n : longer[j] = list[j]
      /\ longer[n + 1] = b
  BY AppendProperties
<1>3. DOMAIN longer = 1 .. n + 1
  BY <1>2, LenProperties
<1>4. Threshold(list) = Threshold(longer)
  BY SameThreshold
<1> HIDE DEF longer, n
<1>5. /\ q \in DOMAIN longer
      /\ IsBest(longer, k, q) \/ (Eligible(longer) = {} /\ q = 1)
  BY <1>2, BestIndexIsBest
<1> HIDE DEF q
<1>6. CASE q = n + 1
  BY <1>2, <1>6 DEF longer, q
<1>7. CASE q # n + 1
  <2>1. q \in 1 .. n
    BY <1>1, <1>3, <1>5, <1>7
  <2>2. \A j \in 1 .. n : j \in Eligible(list) <=> j \in Eligible(longer)
    BY <1>1, <1>2, <1>3, <1>4 DEF Eligible, Count
  <2>3. Eligible(list) \subseteq 1 .. n
    BY <1>1 DEF Eligible
  <2>4. ASSUME IsBest(longer, k, q) PROVE q = BestIndex(list, k)
    <3>1. IsBest(list, k, q)
      BY <1>2, <2>1, <2>2, <2>3, <2>4 DEF IsBest
    <3> QED
      BY <3>1, BestIndexIsBest, BestIsUnique DEF IsBest
  <2>5. ASSUME Eligible(longer) = {}, q = 1 PROVE q = BestIndex(list, k)
    <3>1. Eligible(list) = {}
      BY <2>2, <2>3, <2>5
    <3> QED
      BY <2>5, <3>1, BestIndexIsBest DEF IsBest
  <2>6. q = BestIndex(list, k)
    BY <1>5, <2>4, <2>5
  <2> QED
    BY <1>2, <2>1, <2>6 DEF longer, q
<1> QED
  BY <1>6, <1>7

\* Erasing a position that is not chosen does not change the choice.
LEMMA BestAfterRemove ==
    ASSUME Typed, NEW list \in Seq(Backend), NEW i \in DOMAIN list,
           Without(list, i) # <<>>, MinCount(list) = MinCount(Without(list, i)),
           NEW k \in Key, BestIndex(list, k) # i
    PROVE  LET shorter == Without(list, i)
           IN shorter[BestIndex(shorter, k)] = list[BestIndex(list, k)]
<1> DEFINE shorter == Without(list, i)
           n == Len(list)
           p == BestIndex(list, k)
           from(j) == IF j < i THEN j ELSE j + 1
           q == IF p < i THEN p ELSE p - 1
<1>1. n \in Nat /\ DOMAIN list = 1 .. n /\ i \in 1 .. n /\ list # <<>>
  BY LenProperties, EmptySeq
<1>2. /\ shorter \in Seq(Backend) /\ Len(shorter) = n - 1
      /\ \A j \in 1 .. n - 1 : shorter[j] = list[from(j)]
  <2>1. shorter = RemoveAt(list, i)
    BY DEF Without, RemoveAt
  <2>2. /\ RemoveAt(list, i) \in Seq(Backend) /\ Len(RemoveAt(list, i)) = n - 1
        /\ \A j \in 1 .. n - 1 : RemoveAt(list, i)[j] = IF j < i THEN list[j]
                                                        ELSE list[j + 1]
    BY RemoveAtProperties
  <2> HIDE DEF shorter, n
  <2> QED
    BY <2>1, <2>2
<1>3. DOMAIN shorter = 1 .. n - 1
  BY <1>2, LenProperties
<1>4. Threshold(list) = Threshold(shorter)
  BY SameThreshold
<1> HIDE DEF shorter, n
<1>5. /\ p \in 1 .. n
      /\ IsBest(list, k, p) \/ (Eligible(list) = {} /\ p = 1)
  BY <1>1, BestIndexIsBest
<1> HIDE DEF p
<1>6. p # i
  BY DEF p
<1>7. q \in 1 .. n - 1 /\ from(q) = p
  BY <1>1, <1>5, <1>6
<1> HIDE DEF q
<1>8. ASSUME NEW j \in 1 .. n - 1
      PROVE  /\ from(j) \in 1 .. n
             /\ j \in Eligible(shorter) <=> from(j) \in Eligible(list)
             /\ j < q => from(j) < from(q)
  <2>1. from(j) \in 1 .. n /\ (j < q => from(j) < from(q))
    BY <1>1, <1>7
  <2> HIDE DEF from
  <2> QED
    BY <1>1, <1>2, <1>3, <1>4, <2>1 DEF Eligible, Count
<1> HIDE DEF from
<1>9. Eligible(shorter) \subseteq 1 .. n - 1
  BY <1>3 DEF Eligible
<1>10. ASSUME IsBest(list, k, p) PROVE q = BestIndex(shorter, k)
  <2>1. q \in Eligible(shorter)
    BY <1>7, <1>8, <1>10 DEF IsBest
  <2>2. ASSUME NEW j \in Eligible(shorter)
        PROVE  /\ Score[k][shorter[j]] <= Score[k][shorter[q]]
               /\ j < q => Score[k][shorter[j]] < Score[k][shorter[q]]
    <3>1. j \in 1 .. n - 1
      BY <1>9, <2>2
    <3>2. shorter[j] = list[from(j)] /\ shorter[q] = list[p]
      BY <1>2, <1>7, <3>1
    <3>3. from(j) \in Eligible(list) /\ (j < q => from(j) < p)
      BY <1>7, <1>8, <2>2, <3>1
    <3> QED
      BY <1>10, <3>2, <3>3 DEF IsBest
  <2>3. IsBest(shorter, k, q)
    BY <2>1, <2>2 DEF IsBest
  <2>4. shorter \in Seq(Backend) /\ shorter # <<>>
    BY <1>2 DEF shorter
  <2>5. IsBest(shorter, k, BestIndex(shorter, k))
    BY <2>1, <2>4, BestIndexIsBest
  <2> QED
    BY <2>3, <2>4, <2>5, BestIsUnique
<1>11. ASSUME Eligible(list) = {}, p = 1 PROVE q = BestIndex(shorter, k)
  <2>1. Eligible(shorter) = {} /\ q = 1
    BY <1>1, <1>6, <1>7, <1>8, <1>9, <1>11 DEF q
  <2> QED
    BY <1>2, <2>1, BestIndexIsBest DEF shorter, IsBest
<1>12. q = BestIndex(shorter, k)
  BY <1>5, <1>10, <1>11
<1> QED
  BY <1>2, <1>7, <1>12 DEF shorter, p

-----------------------------------------------------------------------------
(* The position that is picked. *)

\* Every strategy picks a position of the list.
LEMMA PicksPosition ==
    ASSUME WeightInv,
           \/ GetBackend \/ GetRandomBackend \/ GetDoubleRandomBackend
           \/ \E r \in Request : GetStickyBackend(r)
    PROVE  slot' \in DOMAIN infos /\ infos' = infos
<1>1. CASE GetBackend
  <2>1. WeightInv'
    BY <1>1, NextKeepsInv DEF Next
  <2>2. infos' = infos /\ infos # <<>> /\ mode' \in Weighted /\ slot' \in dist'
    BY <1>1 DEF GetBackend, mode
  <2> QED
    BY <2>1, <2>2 DEF WeightInv, DistInRange
<1>2. CASE GetRandomBackend
  BY <1>2 DEF GetRandomBackend
<1>3. CASE GetDoubleRandomBackend
  BY <1>3 DEF GetDoubleRandomBackend
<1>4. ASSUME NEW r \in Request, GetStickyBackend(r)
      PROVE  slot' \in DOMAIN infos /\ infos' = infos
  <2>1. /\ slot' = BestIndex(infos, ExtractKey(r)) /\ infos' = infos
        /\ infos # <<>> /\ infos \in Seq(Backend)
    BY <1>4 DEF GetStickyBackend, WeightInv, Typed
  <2>2. ExtractKey(r) \in Key
    BY KeyOfRequest
  <2> QED
    BY <2>1, <2>2, BestIndexIsBest DEF WeightInv
<1> QED
  BY <1>1, <1>2, <1>3, <1>4

\* The distribution and the position picked are positions; the latter one of
\* the list, until it changes.
SlotInv == dist \subseteq Nat /\ slot \in 0 .. Len(infos)

LEMMA SlotStep ==
    ASSUME WeightInv, SlotInv, [Next]_vars
    PROVE  SlotInv'
<1>1. WeightInv' /\ infos \in Seq(Backend) /\ infos' \in Seq(Backend)
  BY NextKeepsInv DEF WeightInv, Typed
<1>2. DOMAIN infos = 1 .. Len(infos) /\ Len(infos) \in Nat /\ Len(infos') \in Nat
  BY <1>1, LenProperties
<1>3. dist' \subseteq Nat
  <2>1. \A list \in Seq(Backend) : Redistribute(list) => dist' \subseteq Nat
    <3> SUFFICES ASSUME NEW list \in Seq(Backend), Redistribute(list)
                 PROVE  dist' \subseteq Nat
      OBVIOUS
    <3>1. DOMAIN list \subseteq Nat
      BY LenProperties
    <3>2. Weights(list) \subseteq Nat
      <4>1. CASE list = <<>>
        BY <4>1 DEF Weights, FirstOnly
      <4>2. CASE list # <<>>
        BY <3>1, <4>2, WeightsInRange DEF WeightInv
      <4> QED
        BY <4>1, <4>2
    <3> QED
      BY <3>2 DEF Redistribute, SlotInv
  <2>2. Redistribute(infos') \/ Redistribute(infos) \/ dist' = dist
    BY DEF Next, AddBackend, RemoveBackend, ChangeConnections, GetBackend,
           Rebalance, GetRandomBackend, GetDoubleRandomBackend,
           GetStickyBackend, vars
  <2> QED
    BY <1>1, <2>1, <2>2 DEF SlotInv
<1>4. slot' \in 0 .. Len(infos')
  <2>1. CASE slot' = 0
    BY <1>2, <2>1
  <2>2. CASE slot' = slot /\ infos' = infos
    BY <2>2 DEF SlotInv
  <2>3. CASE slot' \in DOMAIN infos /\ infos' = infos
    BY <1>2, <2>3
  <2> QED
    BY <2>1, <2>2, <2>3, PicksPosition
       DEF Next, AddBackend, RemoveBackend, ChangeConnections, vars
<1> QED
  BY <1>3, <1>4 DEF SlotInv

LEMMA SlotInvariant == Spec => [](WeightInv /\ SlotInv)
<1>1. Init => SlotInv
  BY EmptySeq DEF Init, SlotInv, FirstOnly
<1>2. WeightInv /\ SlotInv /\ [Next]_vars => SlotInv'
  BY SlotStep
<1> QED
  BY <1>1, <1>2, InvAlways, PTL DEF Spec

-----------------------------------------------------------------------------

\* After any sequence of additions and removals, duplicates included, and with
\* any number of connections, the distribution offers a position of the list.
THEOREM DistInRangeAlways == Spec => []DistInRange
<1>1. WeightInv => DistInRange
  BY DEF WeightInv
<1> QED
  BY <1>1, InvAlways, PTL

\* LeastConnectionsForwarder draws a backend that has the fewest connections
\* at the time of the request.
THEOREM FewestConnectionsAlways == Spec => FewestConnections
<1>1. ASSUME WeightInv, mode = "leastconnections", GetBackend
      PROVE  \A i \in DOMAIN infos : Count(infos, slot') <= Count(infos, i)
  <2>1. infos \in Seq(Backend) /\ infos # <<>> /\ infos' = infos
    BY <1>1 DEF WeightInv, Typed, GetBackend
  <2>2. dist' = LeastConnections(infos)
    BY <1>1, <2>1 DEF GetBackend, Rebalance, Rebalanced, Weighted,
       Redistribute, Weights
  <2>3. slot' \in LeastConnections(infos)
    BY <1>1, <2>2 DEF GetBackend
  <2> QED
    BY <1>1, <2>1, <2>3, MinCountIsLeast DEF WeightInv, LeastConnections
<1>2. WeightInv /\ [Next]_vars =>
        [ mode = "leastconnections" /\ GetBackend =>
            \A i \in DOMAIN infos : Count(infos, slot') <= Count(infos, i) ]_vars
  BY <1>1
<1> QED
  BY <1>2, InvAlways, PTL DEF Spec, FewestConnections

\* The members of a forwarder keep their types; the position picked is one of
\* the list, which for StickyForwarder is a fact about its loop.
THEOREM TypeCorrect == Spec => []TypeOK
<1>1. WeightInv /\ SlotInv => TypeOK
  BY DEF WeightInv, Typed, SlotInv, TypeOK
<1> QED
  BY <1>1, SlotInvariant, PTL

\* Unless the threshold overflows, StickyForwarder::getBackend picks a backend
\* that is no hotspot, and the one with the highest score of these.
THEOREM StickyIsRendezvousAlways == Spec => []StickyIsRendezvous
<1>1. ASSUME WeightInv, infos # <<>>, Fits(infos), NEW k \in Key
      PROVE  IsBest(infos, k, BestIndex(infos, k))
  BY <1>1, BestIndexIsBest, LeastLoadedEligible DEF WeightInv, Typed
<1>2. WeightInv => StickyIsRendezvous
  BY <1>1 DEF StickyIsRendezvous, IsBest
<1> QED
  BY <1>2, InvAlways, PTL

\* While connections come and go, a client leaves its backend only when that
\* becomes a hotspot, or for one that has just ceased to be one, also when
\* the threshold overflows.
THEOREM OnlyHotspotsSpillAlways == Spec => OnlyHotspotsSpill
<1> DEFINE Choice ==
      infos # <<>> => \A k \in Key :
          /\ BestIndex(infos, k) \in DOMAIN infos
          /\ IsBest(infos, k, BestIndex(infos, k)) \/ Eligible(infos) = {}
<1>1. WeightInv => Choice
  BY BestIndexIsBest DEF WeightInv, Typed
<1>2. ASSUME WeightInv, Choice, Choice', infos # <<>>, infos' = infos,
             NEW k \in Key,
             BestIndex(infos, k) \in Eligible(infos)',
             BestIndex(infos, k)' \in Eligible(infos)
      PROVE  BestIndex(infos, k) = BestIndex(infos, k)'
  <2> DEFINE p == BestIndex(infos, k)
             q == BestIndex(infos, k)'
  <2>1. p \in DOMAIN infos /\ IsBest(infos, k, p)
    BY <1>2
  <2>2. /\ q \in DOMAIN infos
        /\ \A j \in Eligible(infos)' :
               /\ Score[k][infos[j]] <= Score[k][infos[q]]
               /\ j < q => Score[k][infos[j]] < Score[k][infos[q]]
    BY <1>2 DEF IsBest
  <2>3. p \in Eligible(infos)' /\ q \in Eligible(infos)
    BY <1>2
  <2> HIDE DEF p, q
  <2>4. /\ Score[k][infos[p]] \in Nat /\ Score[k][infos[q]] \in Nat
        /\ p \in Int /\ q \in Int
    BY <1>2, <2>1, <2>2, ScoreType, LenProperties DEF WeightInv, Typed
  <2>5. /\ Score[k][infos[q]] <= Score[k][infos[p]]
        /\ q < p => Score[k][infos[q]] < Score[k][infos[p]]
    BY <2>1, <2>3 DEF IsBest
  <2>6. /\ Score[k][infos[p]] <= Score[k][infos[q]]
        /\ p < q => Score[k][infos[p]] < Score[k][infos[q]]
    BY <2>2, <2>3
  <2>7. p = q
    BY <2>4, <2>5, <2>6
  <2> QED
    BY <2>7 DEF p, q
<1> HIDE DEF Choice
<1>3. WeightInv /\ Choice /\ Choice' /\ [Next]_vars =>
        [ mode = "sticky" /\ infos # <<>> /\ (\E b \in Backend : ChangeConnections(b)) =>
            \A k \in Key :
              LET before == BestIndex(infos, k)
                  after == BestIndex(infos, k)'
              IN \/ after = before
                 \/ before \notin Eligible(infos)'
                 \/ after \notin Eligible(infos) ]_vars
  BY <1>2 DEF ChangeConnections
<1> QED
  BY <1>1, <1>3, InvAlways, PTL DEF Spec, OnlyHotspotsSpill

\* StickyForwarder.cpp:13 "every frontend computes the same key->backend
\* mapping": two frontends that list the same backends, in whatever order and
\* however often, and see the same connections (each frontend counts its own)
\* send a key to backends with the same score, hence to the same backend unless
\* two scores collide or the threshold overflows.
THEOREM FrontendsAgree ==
    ASSUME Typed, NEW s \in Seq(Backend), NEW t \in Seq(Backend),
           s # <<>>, t # <<>>, Fits(s),
           {s[i] : i \in DOMAIN s} = {t[i] : i \in DOMAIN t}, NEW k \in Key
    PROVE  LET b == s[BestIndex(s, k)]
               c == t[BestIndex(t, k)]
           IN /\ Score[k][b] = Score[k][c]
              /\ (\A d, e \in Backend : Score[k][d] = Score[k][e] => d = e) => b = c
<1> DEFINE p == BestIndex(s, k)
           q == BestIndex(t, k)
<1>1. Counts(s) = Counts(t)
  <2>1. \A i \in DOMAIN s : \E j \in DOMAIN t : t[j] = s[i]
    OBVIOUS
  <2>2. \A j \in DOMAIN t : \E i \in DOMAIN s : s[i] = t[j]
    OBVIOUS
  <2> QED
    BY <2>1, <2>2 DEF Counts, Count
<1>2. Threshold(s) = Threshold(t) /\ Fits(t)
  BY <1>1, SameThreshold DEF MinCount, Fits, Scaled
<1>3. /\ IsBest(s, k, p) /\ p \in DOMAIN s
      /\ IsBest(t, k, q) /\ q \in DOMAIN t
  BY <1>2, BestIndexIsBest, LeastLoadedEligible
<1> HIDE DEF p, q
<1>4. s[p] \in Backend /\ t[q] \in Backend
  BY <1>3, ElementOfSeq, LenProperties
<1>5. Score[k][s[p]] \in Nat /\ Score[k][t[q]] \in Nat
  BY <1>3, ScoreType
<1>6. PICK j \in DOMAIN t : t[j] = s[p]
  BY <1>3
<1>7. PICK i \in DOMAIN s : s[i] = t[q]
  BY <1>3
<1>8. j \in Eligible(t) /\ i \in Eligible(s)
  BY <1>2, <1>3, <1>6, <1>7 DEF IsBest, Eligible, Count
<1>9. Score[k][s[p]] <= Score[k][t[q]] /\ Score[k][t[q]] <= Score[k][s[p]]
  BY <1>3, <1>6, <1>7, <1>8 DEF IsBest
<1>10. Score[k][s[p]] = Score[k][t[q]]
  BY <1>5, <1>9
<1> QED
  BY <1>4, <1>10 DEF p, q

\* Adding or removing a backend remaps only the keys of that backend.
THEOREM OnlyChangedRemapsAlways == Spec => OnlyChangedRemaps
<1> DEFINE Chosen(list, k) == list[BestIndex(list, k)]
           Kept(k) == \/ Chosen(infos, k) = Chosen(infos', k)
                      \/ AddBackend(Chosen(infos', k))
                      \/ RemoveBackend(Chosen(infos, k))
<1>1. ASSUME WeightInv, Next, infos # <<>>, infos' # <<>>,
             MinCount(infos) = MinCount(infos'), NEW k \in Key
      PROVE  Kept(k)
  <2>1. Typed /\ infos \in Seq(Backend)
    BY <1>1 DEF WeightInv, Typed
  <2>2. ASSUME NEW b \in Backend, AddBackend(b) PROVE Kept(k)
    <3>1. infos' = Append(infos, b)
      BY <2>2 DEF AddBackend
    <3>2. Chosen(infos', k) \in {Chosen(infos, k), b}
      BY <1>1, <2>1, <3>1, BestAfterAdd
    <3> QED
      BY <2>2, <3>2
  <2>3. ASSUME NEW b \in Backend, RemoveBackend(b) PROVE Kept(k)
    <3>1. PICK i \in DOMAIN infos : infos[i] = b /\ infos' = Without(infos, i)
      BY <2>1, <2>3, RemovesFirst
    <3>2. CASE BestIndex(infos, k) = i
      BY <2>3, <3>1, <3>2
    <3>3. CASE BestIndex(infos, k) # i
      BY <1>1, <2>1, <3>1, <3>3, BestAfterRemove
    <3> QED
      BY <3>2, <3>3
  <2>4. CASE infos' = infos
    BY <2>4
  <2> HIDE DEF Kept
  <2> QED
    BY <1>1, <2>2, <2>3, <2>4
       DEF Next, ChangeConnections, GetBackend, GetRandomBackend,
           GetDoubleRandomBackend, GetStickyBackend
<1>2. WeightInv /\ [Next]_vars =>
        [ mode = "sticky" /\ infos # <<>> /\ infos' # <<>> /\ infos' # infos
          /\ MinCount(infos) = MinCount(infos') =>
            \A k \in Key :
                LET before == infos[BestIndex(infos, k)]
                    after == infos'[BestIndex(infos', k)]
                IN before = after \/ AddBackend(after) \/ RemoveBackend(before)
        ]_vars
  BY <1>1
<1> QED
  BY <1>2, InvAlways, PTL DEF Spec, OnlyChangedRemaps

\* Every step of a forwarder, whatever its strategy, is a step of Chooser or
\* changes nothing that Chooser shows.
THEOREM ForwardersImplementChooser == Spec => ListSpec
<1>1. Init => List!Init
  BY DEF Init, List!Init
<1>2. WeightInv /\ [Next]_vars => [List!Next]_(List!vars)
  <2> SUFFICES ASSUME WeightInv, [Next]_vars PROVE [List!Next]_(List!vars)
    OBVIOUS
  <2>1. infos \in Seq(Backend)
    BY DEF WeightInv, Typed
  <2>2. ASSUME NEW b \in Backend, AddBackend(b) PROVE List!Next
    BY <2>2 DEF AddBackend, List!Add, List!Next
  <2>3. ASSUME NEW b \in Backend, RemoveBackend(b) PROVE List!Next
    <3>1. PICK i \in DOMAIN infos :
              /\ infos[i] = b
              /\ \A j \in DOMAIN infos : infos[j] = b => i <= j
              /\ infos' = Without(infos, i)
      BY <2>1, <2>3, RemovesFirst
    <3>2. DOMAIN infos = 1 .. Len(infos) /\ Len(infos) \in Nat
      BY <2>1, LenProperties
    <3>3. List!IsFirst(i, b)
      <4>1. ASSUME NEW j \in 1 .. i - 1 PROVE infos[j] # b
        BY <3>1, <3>2
      <4> QED
        BY <3>1, <4>1 DEF List!IsFirst
    <3>4. slot' = 0
      BY <2>3 DEF RemoveBackend
    <3>5. List!Remove(b)
      BY <3>1, <3>3, <3>4 DEF List!Remove, Without
    <3> QED
      BY <3>5 DEF List!Next
  <2>4. ASSUME \/ GetBackend \/ GetRandomBackend \/ GetDoubleRandomBackend
               \/ \E r \in Request : GetStickyBackend(r)
        PROVE  List!Next
    BY <2>4, PicksPosition DEF List!Pick, List!Next
  <2>5. ASSUME NEW b \in Backend, ChangeConnections(b)
        PROVE  UNCHANGED List!vars
    BY <2>5 DEF ChangeConnections, List!vars
  <2>6. ASSUME UNCHANGED vars PROVE UNCHANGED List!vars
    BY <2>6 DEF vars, List!vars
  <2> QED
    BY <2>2, <2>3, <2>4, <2>5, <2>6 DEF Next
<1> QED
  BY <1>1, <1>2, InvAlways, PTL DEF Spec, ListSpec, List!Spec
=============================================================================
