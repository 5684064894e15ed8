----------------------------- MODULE ListLemmas -----------------------------
(* Facts about lists from which entries are erased, and about least elements,
   which the proofs about Services, Forwarders and FrontendIo have in common. *)
EXTENDS Integers, SequencesExt, SequenceTheorems, FiniteSetTheorems,
        FunctionTheorems, TLAPS

\* The positions of s that hold a member of T.
Positions(s, T) == {i \in DOMAIN s : s[i] \in T}

-----------------------------------------------------------------------------

\* Every nonempty set of natural numbers has a least element.
LEMMA LeastNumber ==
    ASSUME NEW T \in SUBSET Nat, T # {}
    PROVE  \E m \in T : \A n \in T : m <= n
<1>1. PICK m \in T : \A n \in T : ~ (<<n, m>> \in OpToRel(<, Nat))
  BY NatLessThanWellFounded, WFMin
<1>2. m \in T /\ \A n \in T : ~ (n < m)
  BY <1>1, Zenon DEF OpToRel
<1> QED
  BY <1>2

\* What is left when position i is erased.
LEMMA RemoveAtProperties ==
    ASSUME NEW S, NEW s \in Seq(S), NEW i \in DOMAIN s
    PROVE  /\ RemoveAt(s, i) \in Seq(S)
           /\ Len(RemoveAt(s, i)) = Len(s) - 1
           /\ \A j \in 1 .. Len(s) - 1 :
                  RemoveAt(s, i)[j] = IF j < i THEN s[j] ELSE s[j + 1]
<1> DEFINE l == SubSeq(s, 1, i - 1)
           r == SubSeq(s, i + 1, Len(s))
<1>1. Len(s) \in Nat /\ i \in 1 .. Len(s) /\ \A j \in 1 .. Len(s) : s[j] \in S
  BY LenProperties, ElementOfSeq
<1>2. /\ l \in Seq(S) /\ Len(l) = i - 1
      /\ \A j \in 1 .. i - 1 : l[j] = s[j]
  BY <1>1, SubSeqProperties
<1>3. /\ r \in Seq(S) /\ Len(r) = Len(s) - i
      /\ \A j \in 1 .. Len(s) - i : r[j] = s[j + i]
  <2>1. \A j \in i + 1 .. Len(s) : s[j] \in S
    BY <1>1
  <2>2. /\ r \in Seq(S)
        /\ Len(r) = IF i + 1 <= Len(s) THEN Len(s) - (i + 1) + 1 ELSE 0
        /\ \A j \in 1 .. Len(s) - (i + 1) + 1 : r[j] = s[i + 1 + j - 1]
    BY <1>1, <2>1, SubSeqProperties
  <2> QED
    BY <1>1, <2>2
<1> HIDE DEF l, r
<1> DEFINE t == RemoveAt(s, i)
<1>4. /\ t \in Seq(S)
      /\ Len(t) = Len(l) + Len(r)
      /\ \A j \in 1 .. Len(l) + Len(r) :
             t[j] = IF j <= Len(l) THEN l[j] ELSE r[j - Len(l)]
  BY <1>2, <1>3, ConcatProperties DEF RemoveAt, l, r
<1> HIDE DEF t
<1>5. ASSUME NEW j \in 1 .. Len(s) - 1
      PROVE  t[j] = IF j < i THEN s[j] ELSE s[j + 1]
  <2> HIDE DEF l, r
  <2>0. /\ i \in Int /\ j \in Int /\ Len(s) \in Int /\ Len(l) = i - 1
        /\ Len(r) = Len(s) - i /\ j \in 1 .. Len(l) + Len(r)
    BY <1>1, <1>2, <1>3
  <2>1. CASE j < i
    <3>1. j \in 1 .. i - 1 /\ j <= Len(l)
      BY <2>0, <2>1
    <3> QED
      BY <1>2, <1>4, <2>0, <2>1, <3>1
  <2>2. CASE ~ (j < i)
    <3>1. t[j] = r[j - (i - 1)] /\ j - (i - 1) \in 1 .. Len(s) - i
      <4>1. ~ (j <= Len(l))
        BY <2>0, <2>2
      <4>2. t[j] = r[j - Len(l)]
        BY <1>4, <2>0, <4>1
      <4>3. j - Len(l) = j - (i - 1)
        BY <2>0
      <4>4. j - (i - 1) \in 1 .. Len(s) - i
        <5>1. j <= Len(s) - 1 /\ i <= j
          BY <2>0, <2>2
        <5> HIDE DEF t
        <5> QED
          BY <2>0, <5>1, SMTT(30)
      <4> QED
        BY <4>2, <4>3, <4>4
    <3>2. r[j - (i - 1)] = s[(j - (i - 1)) + i]
      BY <1>3, <3>1
    <3>3. (j - (i - 1)) + i = j + 1
      BY <1>1
    <3> QED
      BY <2>2, <3>1, <3>2, <3>3
  <2> QED
    BY <2>1, <2>2
<1> QED
  BY <1>1, <1>2, <1>3, <1>4, <1>5 DEF t

-----------------------------------------------------------------------------
(* Counting. *)

LEMMA PositionsFinite ==
    ASSUME NEW S, NEW s \in Seq(S), NEW T
    PROVE  /\ Positions(s, T) \in SUBSET (1 .. Len(s))
           /\ IsFiniteSet(Positions(s, T))
           /\ Cardinality(Positions(s, T)) \in Nat
<1>1. Len(s) \in Nat /\ DOMAIN s = 1 .. Len(s)
  BY LenProperties
<1>2. Positions(s, T) \in SUBSET (1 .. Len(s))
  BY <1>1 DEF Positions
<1>3. IsFiniteSet(1 .. Len(s))
  BY <1>1, FS_Interval
<1> QED
  BY <1>2, <1>3, FS_Subset, FS_CardinalityType

\* A new last entry counts one, or nothing.
LEMMA CountAppend ==
    ASSUME NEW S, NEW s \in Seq(S), NEW e \in S, NEW T
    PROVE  Cardinality(Positions(Append(s, e), T))
             = Cardinality(Positions(s, T)) + IF e \in T THEN 1 ELSE 0
<1>1. /\ Len(s) \in Nat /\ DOMAIN s = 1 .. Len(s)
      /\ DOMAIN Append(s, e) = 1 .. Len(s) + 1
      /\ \A i \in 1 .. Len(s) : Append(s, e)[i] = s[i]
      /\ Append(s, e)[Len(s) + 1] = e
  BY LenProperties, AppendProperties
<1>2. /\ IsFiniteSet(Positions(s, T))
      /\ Positions(s, T) \in SUBSET (1 .. Len(s))
      /\ Cardinality(Positions(s, T)) \in Nat
  BY PositionsFinite
<1>3. CASE e \in T
  <2>1. Positions(Append(s, e), T) = Positions(s, T) \cup {Len(s) + 1}
    BY <1>1, <1>3 DEF Positions
  <2>2. Len(s) + 1 \notin Positions(s, T)
    BY <1>1, <1>2
  <2> QED
    BY <1>2, <1>3, <2>1, <2>2, FS_AddElement
<1>4. CASE e \notin T
  <2>1. Positions(Append(s, e), T) = Positions(s, T)
    BY <1>1, <1>4 DEF Positions
  <2> QED
    BY <1>2, <1>4, <2>1
<1> QED
  BY <1>3, <1>4

\* The positions left when position i is erased are the others, those behind
\* it one less.
LEMMA CountRemoveAt ==
    ASSUME NEW S, NEW s \in Seq(S), NEW i \in DOMAIN s, NEW T
    PROVE  Cardinality(Positions(RemoveAt(s, i), T))
             = Cardinality(Positions(s, T)) - IF s[i] \in T THEN 1 ELSE 0
<1> DEFINE t == RemoveAt(s, i)
           P == Positions(t, T)
           Q == Positions(s, T) \ {i}
           f == [j \in P |-> IF j < i THEN j ELSE j + 1]
<1>1. /\ Len(s) \in Nat /\ DOMAIN s = 1 .. Len(s) /\ i \in 1 .. Len(s)
      /\ t \in Seq(S) /\ DOMAIN t = 1 .. Len(s) - 1
      /\ \A j \in 1 .. Len(s) - 1 : t[j] = IF j < i THEN s[j] ELSE s[j + 1]
  BY LenProperties, RemoveAtProperties
<1>2. /\ IsFiniteSet(P) /\ IsFiniteSet(Positions(s, T))
      /\ Cardinality(Positions(s, T)) \in Nat
  BY <1>1, PositionsFinite
<1> HIDE DEF t
<1>3. \A j \in P : j \in 1 .. Len(s) - 1 /\ t[j] \in T
  BY <1>1 DEF Positions
<1>4. \A j \in Q : j \in 1 .. Len(s) /\ s[j] \in T /\ j # i
  BY <1>1 DEF Positions
<1>5. f \in [P -> Q]
  <2>1. ASSUME NEW j \in P
        PROVE  (IF j < i THEN j ELSE j + 1) \in Q
    BY <1>1, <1>3 DEF Positions
  <2> QED
    BY <2>1
<1>6. \A a, b \in P : f[a] = f[b] => a = b
  BY <1>1, <1>3
<1>7. ASSUME NEW k \in Q
      PROVE  \E j \in P : f[j] = k
  <2>1. CASE k < i
    <3>1. k \in P
      BY <1>1, <1>4, <2>1 DEF Positions
    <3> QED
      BY <2>1, <3>1
  <2>2. CASE ~ (k < i)
    <3>1. k - 1 \in 1 .. Len(s) - 1 /\ ~ (k - 1 < i) /\ (k - 1) + 1 = k
      BY <1>1, <1>4, <2>2
    <3>2. k - 1 \in P
      BY <1>1, <1>4, <3>1 DEF Positions
    <3> QED
      BY <3>1, <3>2
  <2> QED
    BY <2>1, <2>2
<1>8. Cardinality(P) = Cardinality(Q)
  <2>1. f \in Bijection(P, Q)
    BY <1>5, <1>6, <1>7, Fun_IsBij
  <2>2. ExistsBijection(P, Q)
    BY <2>1, Fun_ExistsBij
  <2> QED
    BY <1>2, <2>2, FS_Bijection
<1>9. Cardinality(Q) = Cardinality(Positions(s, T))
                         - IF i \in Positions(s, T) THEN 1 ELSE 0
  <2> HIDE DEF P, f
  <2>1. Cardinality(Positions(s, T) \ {i})
          = IF i \in Positions(s, T) THEN Cardinality(Positions(s, T)) - 1
            ELSE Cardinality(Positions(s, T))
    BY <1>2, FS_RemoveElement, Zenon
  <2> QED
    BY <1>2, <2>1
<1>10. i \in Positions(s, T) <=> s[i] \in T
  BY DEF Positions
<1> QED
  BY <1>8, <1>9, <1>10 DEF t
=============================================================================
