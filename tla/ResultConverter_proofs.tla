------------------------ MODULE ResultConverter_proofs ------------------------
(***************************************************************************)
(* What the sort, the choice of the exemplar and the conversion of         *)
(* ResultConverter give, for results of every length.  No induction is     *)
(* needed: the elements that go before a later one strictly include those  *)
(* that go before an earlier one, so ranks are distinct, and n distinct    *)
(* ranks between 1 and n are all of them.                                  *)
(***************************************************************************)
EXTENDS ResultConverter, SequencesExt, FiniteSetTheorems, SequenceTheorems, TLAPS

\* order is a strict total order of 1..n.
StrictOrder(order, n) ==
    /\ \A i \in 1..n : <<i, i>> \notin order
    /\ \A i, k \in 1..n : i # k => <<i, k>> \in order \/ <<k, i>> \in order
    /\ \A i, k, l \in 1..n :
           <<i, k>> \in order /\ <<k, l>> \in order => <<i, l>> \in order

\* Those that go before i.
Earlier(order, n, i) == {k \in 1..n : <<k, i>> \in order}

-----------------------------------------------------------------------------
\* Ranks are between 1 and n, and smaller for what goes before.
LEMMA Ranks ==
    ASSUME NEW n \in Nat, NEW order, StrictOrder(order, n)
    PROVE  /\ \A i \in 1..n : Rank(order, n, i) \in 1..n
           /\ \A i, k \in 1..n : <<i, k>> \in order => Rank(order, n, i) < Rank(order, n, k)
<1>0. IsFiniteSet(1..n) /\ Cardinality(1..n) = n
  BY FS_Interval
<1> DEFINE E(i) == Earlier(order, n, i)
<1>1. \A i \in 1..n : E(i) \in SUBSET (1..n) /\ i \notin E(i)
  BY DEF Earlier, StrictOrder
<1>2. \A i \in 1..n : Rank(order, n, i) = Cardinality(E(i)) + 1
  BY DEF Rank, Earlier
<1>3. ASSUME NEW i \in 1..n
      PROVE  IsFiniteSet(E(i)) /\ Cardinality(E(i)) \in 0..(n - 1)
  <2>1. E(i) \in SUBSET (1..n) /\ i \notin E(i)
    BY <1>1
  <2> HIDE DEF E
  <2>2. IsFiniteSet(E(i)) /\ Cardinality(E(i)) <= n
    BY <1>0, <2>1, FS_Subset
  <2>3. Cardinality(E(i)) # n
    BY <1>0, <2>1, FS_Subset
  <2>4. Cardinality(E(i)) \in Nat
    BY <2>2, FS_CardinalityType
  <2>5. QED
    BY <2>2, <2>3, <2>4
<1>4. ASSUME NEW i \in 1..n, NEW k \in 1..n, <<i, k>> \in order
      PROVE  Cardinality(E(i)) < Cardinality(E(k))
  <2>1. E(i) \in SUBSET E(k)
    BY <1>4 DEF Earlier, StrictOrder
  <2>2. i \in E(k) /\ i \notin E(i)
    BY <1>4, <1>1 DEF Earlier
  <2>3. /\ IsFiniteSet(E(k))
        /\ Cardinality(E(k)) \in 0..(n - 1) /\ Cardinality(E(i)) \in 0..(n - 1)
    BY <1>3
  <2> HIDE DEF E
  <2>4. Cardinality(E(i)) <= Cardinality(E(k)) /\ Cardinality(E(i)) # Cardinality(E(k))
    BY <2>1, <2>2, <2>3, FS_Subset
  <2>5. QED
    BY <2>3, <2>4
<1>5. QED
  <2> HIDE DEF E
  <2>1. ASSUME NEW i \in 1..n PROVE Rank(order, n, i) \in 1..n
    BY <1>2, <1>3
  <2>2. ASSUME NEW i \in 1..n, NEW k \in 1..n, <<i, k>> \in order
        PROVE  Rank(order, n, i) < Rank(order, n, k)
    BY <1>2, <1>3, <1>4, <2>2
  <2>3. QED
    BY <2>1, <2>2

\* Every rank is that of one element, and of one only.
LEMMA RankOnto ==
    ASSUME NEW n \in Nat, NEW order, StrictOrder(order, n), NEW r \in 1..n
    PROVE  \E i \in 1..n : /\ Rank(order, n, i) = r
                           /\ \A k \in 1..n : Rank(order, n, k) = r => k = i
<1> DEFINE f == [i \in 1..n |-> Rank(order, n, i)]
<1>1. \A i, k \in 1..n : i # k => Rank(order, n, i) # Rank(order, n, k)
  <2> SUFFICES ASSUME NEW i \in 1..n, NEW k \in 1..n, i # k
               PROVE  Rank(order, n, i) # Rank(order, n, k)
    OBVIOUS
  <2>1. Rank(order, n, i) \in 1..n /\ Rank(order, n, k) \in 1..n
    BY Ranks
  <2>2. <<i, k>> \in order \/ <<k, i>> \in order
    BY DEF StrictOrder
  <2>3. Rank(order, n, i) < Rank(order, n, k) \/ Rank(order, n, k) < Rank(order, n, i)
    BY <2>2, Ranks
  <2>4. QED
    BY <2>1, <2>3
<1>2. f \in [1..n -> 1..n]
  BY Ranks
<1>3. f \in Injection(1..n, 1..n)
  BY <1>1, <1>2 DEF Injection, IsInjective
<1>4. f \in Surjection(1..n, 1..n)
  <2>1. IsFiniteSet(1..n)
    BY FS_Interval
  <2> HIDE DEF f
  <2>2. QED
    BY <1>3, <2>1, FS_Injection
<1>5. PICK i \in 1..n : f[i] = r
  BY <1>4 DEF Surjection
<1>6. Rank(order, n, i) = r
  BY <1>5
<1>7. QED
  BY <1>1, <1>6

\* Where the elements of a sorted sequence come from: one place each, all of
\* the places, in their order.
Sorts(p, order, n) ==
    /\ p \in [1..n -> 1..n]
    /\ \A i \in 1..n : \E r \in 1..n : p[r] = i
    /\ \A q, r \in 1..n : q < r => <<p[q], p[r]>> \in order

LEMMA SortedByRank ==
    ASSUME NEW n \in Nat, NEW order, StrictOrder(order, n)
    PROVE  Sorts([r \in 1..n |-> CHOOSE i \in 1..n : Rank(order, n, i) = r], order, n)
<1> DEFINE p == [r \in 1..n |-> CHOOSE i \in 1..n : Rank(order, n, i) = r]
<1>1. \A r \in 1..n : p[r] \in 1..n /\ Rank(order, n, p[r]) = r
  <2> SUFFICES ASSUME NEW r \in 1..n PROVE p[r] \in 1..n /\ Rank(order, n, p[r]) = r
    OBVIOUS
  <2>1. \E i \in 1..n : Rank(order, n, i) = r
    BY RankOnto
  <2>2. p[r] = CHOOSE i \in 1..n : Rank(order, n, i) = r
    OBVIOUS
  <2> HIDE DEF p
  <2>3. QED
    BY <2>1, <2>2
<1>2. p \in [1..n -> 1..n]
  BY <1>1
<1> HIDE DEF p
<1>3. ASSUME NEW i \in 1..n PROVE \E r \in 1..n : p[r] = i
  <2>1. Rank(order, n, i) \in 1..n
    BY Ranks
  <2>2. PICK h \in 1..n : h = Rank(order, n, i)
    BY <2>1
  <2>3. PICK k \in 1..n : /\ Rank(order, n, k) = h
                          /\ \A l \in 1..n : Rank(order, n, l) = h => l = k
    BY RankOnto
  <2>4. p[h] = k /\ i = k
    BY <1>1, <2>2, <2>3
  <2>5. QED
    BY <2>4
<1>4. ASSUME NEW q \in 1..n, NEW r \in 1..n, q < r PROVE <<p[q], p[r]>> \in order
  <2>1. /\ p[q] \in 1..n /\ p[r] \in 1..n
        /\ Rank(order, n, p[q]) = q /\ Rank(order, n, p[r]) = r
    BY <1>1
  <2>2. p[q] # p[r] /\ <<p[r], p[q]>> \notin order
    BY <1>4, <2>1, Ranks
  <2>3. QED
    BY <2>1, <2>2 DEF StrictOrder
<1>5. Sorts(p, order, n)
  BY <1>2, <1>3, <1>4 DEF Sorts
<1>6. QED
  BY <1>5 DEF p

\* A map that sorts is one to one and onto.
LEMMA SortsOneToOne ==
    ASSUME NEW n \in Nat, NEW order, StrictOrder(order, n), NEW p, Sorts(p, order, n)
    PROVE  p \in Bijection(1..n, 1..n)
<1>1. p \in [1..n -> 1..n] /\ \A i \in 1..n : \E r \in 1..n : p[r] = i
  BY DEF Sorts
<1>2. ASSUME NEW q \in 1..n, NEW r \in 1..n, q # r PROVE p[q] # p[r]
  <2>1. <<p[q], p[r]>> \in order \/ <<p[r], p[q]>> \in order
    BY <1>2 DEF Sorts
  <2>2. <<p[q], p[q]>> \notin order
    BY <1>1 DEF StrictOrder
  <2>3. QED
    BY <2>1, <2>2
<1>3. QED
  BY <1>1, <1>2 DEF Bijection, Injection, Surjection, IsInjective

\* The detections of a track come out in the order of their frames, and they are
\* the same detections, each as often.
LEMMA DetectionsSorted ==
    ASSUME NEW s \in Seq(Detections), NEW t, t = StableSort(s, ByFrame(s))
    PROVE  /\ t \in Seq(Detections)
           /\ Rearranges(t, s)
           /\ \A q, r \in 1..Len(t) : q < r => t[q].frame <= t[r].frame
<1> DEFINE n == Len(s)
           order == StableOrder(ByFrame(s), n)
           p == [r \in 1..n |-> CHOOSE i \in 1..n : Rank(order, n, i) = r]
<1>1. n \in Nat /\ DOMAIN s = 1..n /\ \A i \in 1..n : s[i] \in Detections
  OBVIOUS
<1>2. \A i, k \in 1..n : <<i, k>> \in order <=>
          \/ s[i].frame < s[k].frame
          \/ ~(s[k].frame < s[i].frame) /\ i < k
  BY <1>1 DEF StableOrder, ByFrame
<1>3. \A i \in 1..n : s[i].frame \in Int
  BY <1>1 DEF Detections
<1>4. t = [r \in 1..n |-> s[p[r]]]
  BY <1>1 DEF StableSort
<1> HIDE DEF order, n
<1>5. StrictOrder(order, n)
  BY <1>1, <1>2, <1>3 DEF StrictOrder
<1>6. Sorts(p, order, n)
  BY <1>1, <1>5, SortedByRank
<1> HIDE DEF p
<1>7. t \in Seq(Detections) /\ Len(t) = n /\ DOMAIN t = 1..n
  <2>1. \A r \in 1..n : s[p[r]] \in Detections
    BY <1>1, <1>6 DEF Sorts
  <2>2. t \in [1..n -> Detections]
    BY <1>4, <2>1
  <2>3. QED
    BY <1>1, <2>2
<1>8. Rearranges(t, s)
  <2>1. p \in Bijection(1..n, 1..n)
    BY <1>1, <1>5, <1>6, SortsOneToOne
  <2>2. \A r \in 1..n : t[r] = s[p[r]]
    BY <1>4
  <2>3. Len(t) = Len(s)
    BY <1>7 DEF n
  <2>4. QED
    BY <1>1, <1>7, <2>1, <2>2, <2>3 DEF Rearranges
<1>9. ASSUME NEW q \in 1..n, NEW r \in 1..n, q < r PROVE t[q].frame <= t[r].frame
  <2>1. t[q] = s[p[q]] /\ t[r] = s[p[r]] /\ p[q] \in 1..n /\ p[r] \in 1..n
    BY <1>4, <1>6 DEF Sorts
  <2>2. <<p[q], p[r]>> \in order
    BY <1>6, <1>9 DEF Sorts
  <2>3. PICK i \in 1..n, k \in 1..n : i = p[q] /\ k = p[r]
    BY <2>1
  <2>4. s[i].frame < s[k].frame \/ ~(s[k].frame < s[i].frame)
    <3>1. <<i, k>> \in order
      BY <2>2, <2>3
    <3>2. QED
      BY <1>2, <3>1
  <2>5. s[i].frame <= s[k].frame
    BY <1>3, <2>4
  <2>6. QED
    BY <2>1, <2>3, <2>5
<1>10. QED
  BY <1>7, <1>8, <1>9 DEF n

\* Sorted tracks are the tracks there were, each in one place, and none goes
\* before an earlier one.
LEMMA TracksSorted ==
    ASSUME NEW n \in Nat, NEW s, DOMAIN s = 1..n, Len(s) = n,
           \A i \in 1..n : s[i].start \in Int /\ s[i].confidence \in Int,
           NEW t, t = StableSort(s, ByStart(s))
    PROVE  /\ t = [r \in 1..n |-> t[r]]
           /\ \E p \in Bijection(1..n, 1..n) : \A r \in 1..n : t[r] = s[p[r]]
           /\ \A q, r \in 1..n : q < r => ~TrackBefore(t[r], t[q])
<1> DEFINE order == StableOrder(ByStart(s), n)
           p == [r \in 1..n |-> CHOOSE i \in 1..n : Rank(order, n, i) = r]
<1>1. \A i, k \in 1..n : <<i, k>> \in order <=>
          \/ s[i].start < s[k].start
          \/ s[i].start = s[k].start /\ s[i].confidence < s[k].confidence
          \/ s[i].start = s[k].start /\ s[i].confidence = s[k].confidence /\ i < k
  <2> SUFFICES ASSUME NEW i \in 1..n, NEW k \in 1..n
               PROVE  <<i, k>> \in order <=>
                        \/ s[i].start < s[k].start
                        \/ s[i].start = s[k].start /\ s[i].confidence < s[k].confidence
                        \/ s[i].start = s[k].start /\ s[i].confidence = s[k].confidence /\ i < k
    OBVIOUS
  <2>1. <<i, k>> \in order <=> \/ TrackBefore(s[i], s[k])
                               \/ ~TrackBefore(s[k], s[i]) /\ i < k
    BY DEF StableOrder, ByStart
  <2>2. /\ s[i].start \in Int /\ s[i].confidence \in Int
        /\ s[k].start \in Int /\ s[k].confidence \in Int
    OBVIOUS
  <2> HIDE DEF order
  <2>3. QED
    BY <2>1, <2>2 DEF TrackBefore
<1>2. t = [r \in 1..n |-> s[p[r]]]
  BY DEF StableSort
<1> HIDE DEF order
<1>3. StrictOrder(order, n)
  <2>1. \A i, k \in 1..n : i # k => <<i, k>> \in order \/ <<k, i>> \in order
    BY <1>1
  <2>2. \A i \in 1..n : <<i, i>> \notin order
    BY <1>1
  <2>3. ASSUME NEW i \in 1..n, NEW k \in 1..n, NEW l \in 1..n,
               <<i, k>> \in order, <<k, l>> \in order
        PROVE  <<i, l>> \in order
    BY <1>1, <2>3
  <2>4. QED
    BY <2>1, <2>2, <2>3 DEF StrictOrder
<1>4. Sorts(p, order, n)
  BY <1>3, SortedByRank
<1> HIDE DEF p
<1>5. p \in Bijection(1..n, 1..n)
  BY <1>3, <1>4, SortsOneToOne
<1>6. ASSUME NEW q \in 1..n, NEW r \in 1..n, q < r PROVE ~TrackBefore(t[r], t[q])
  <2>1. t[q] = s[p[q]] /\ t[r] = s[p[r]] /\ p[q] \in 1..n /\ p[r] \in 1..n
    BY <1>2, <1>4 DEF Sorts
  <2>2. <<p[q], p[r]>> \in order
    BY <1>4, <1>6 DEF Sorts
  <2>3. PICK i \in 1..n, k \in 1..n : i = p[q] /\ k = p[r]
    BY <2>1
  <2>4. /\ s[i].start \in Int /\ s[i].confidence \in Int
        /\ s[k].start \in Int /\ s[k].confidence \in Int
    OBVIOUS
  <2>5. s[i].start < s[k].start \/ (s[i].start = s[k].start /\ s[i].confidence <= s[k].confidence)
    <3>1. <<i, k>> \in order
      BY <2>2, <2>3
    <3>2. \/ s[i].start < s[k].start
          \/ s[i].start = s[k].start /\ s[i].confidence < s[k].confidence
          \/ s[i].start = s[k].start /\ s[i].confidence = s[k].confidence /\ i < k
      BY <1>1, <3>1
    <3>3. QED
      BY <3>2, <2>4
  <2>6. ~TrackBefore(s[k], s[i])
    BY <2>5, <2>4 DEF TrackBefore
  <2>7. QED
    BY <2>1, <2>3, <2>6
<1>7. QED
  BY <1>2, <1>5, <1>6

\* max with a key gives the first of the greatest, and nothing only for nothing.
LEMMA MostConfidentIsFirst ==
    ASSUME NEW s \in Seq(Detections)
    PROVE  /\ s = <<>> => MostConfident(s) = <<>>
           /\ s # <<>> => \E i \in 1..Len(s) :
                  /\ MostConfident(s) = <<s[i]>>
                  /\ \A k \in 1..Len(s) :
                         \/ s[k].confidence < s[i].confidence
                         \/ s[k].confidence = s[i].confidence /\ i <= k
<1> DEFINE n == Len(s)
           order == {p \in (1..n) \X (1..n) :
                        \/ s[p[2]].confidence < s[p[1]].confidence
                        \/ s[p[2]].confidence = s[p[1]].confidence /\ p[1] < p[2]}
           First(i) == \A k \in 1..n : \/ s[k].confidence < s[i].confidence
                                       \/ s[k].confidence = s[i].confidence /\ i <= k
<1> SUFFICES ASSUME s # <<>>
             PROVE  \E i \in 1..n : MostConfident(s) = <<s[i]>> /\ First(i)
  BY DEF MostConfident
<1>1. n \in Nat /\ n # 0 /\ DOMAIN s = 1..n /\ \A i \in 1..n : s[i].confidence \in Int
  <2>1. n \in Nat /\ DOMAIN s = 1..n /\ \A i \in 1..n : s[i] \in Detections
    OBVIOUS
  <2>2. n # 0
    BY EmptySeq
  <2>3. \A d \in Detections : d.confidence \in Int
    BY DEF Detections
  <2>4. QED
    BY <2>1, <2>2, <2>3
<1>2. \A i, k \in 1..n : <<i, k>> \in order <=>
          \/ s[k].confidence < s[i].confidence
          \/ s[k].confidence = s[i].confidence /\ i < k
  OBVIOUS
<1>3. MostConfident(s) = <<s[CHOOSE i \in 1..n : First(i)]>>
  BY <1>1 DEF MostConfident
<1> HIDE DEF order, n
<1>4. StrictOrder(order, n)
  BY <1>1, <1>2 DEF StrictOrder
<1>5. PICK i \in 1..n : Rank(order, n, i) = 1
  <2>1. 1 \in 1..n
    BY <1>1
  <2>2. QED
    BY <1>1, <1>4, <2>1, RankOnto
<1>6. First(i)
  <2> SUFFICES ASSUME NEW k \in 1..n
               PROVE  \/ s[k].confidence < s[i].confidence
                      \/ s[k].confidence = s[i].confidence /\ i <= k
    OBVIOUS
  <2>1. CASE k = i
    BY <1>1, <2>1
  <2>2. CASE k # i
    <3>1. <<k, i>> \notin order
      BY <1>1, <1>4, <1>5, Ranks
    <3>2. <<i, k>> \in order
      BY <1>4, <2>2, <3>1 DEF StrictOrder
    <3>3. QED
      BY <1>1, <1>2, <3>2
  <2>3. QED
    BY <2>1, <2>2
<1>7. QED
  BY <1>3, <1>6

-----------------------------------------------------------------------------
\* A sequence has what its rearrangement has.
LEMMA SameElements ==
    ASSUME NEW s, NEW t, Rearranges(s, t)
    PROVE  /\ \A i \in DOMAIN s : s[i] \in Range(t)
           /\ \A d \in Range(t) : \E i \in DOMAIN s : s[i] = d
<1>1. PICK place \in Bijection(DOMAIN s, DOMAIN t) : \A i \in DOMAIN s : s[i] = t[place[i]]
  BY DEF Rearranges
<1>2. /\ \A i \in DOMAIN s : place[i] \in DOMAIN t
      /\ \A k \in DOMAIN t : \E i \in DOMAIN s : place[i] = k
  BY DEF Bijection, Injection, Surjection
<1>3. QED
  BY <1>1, <1>2 DEF Range

\* The dict of one track: its detections are all there, each once and in order, and
\* the exemplar is the earliest of the most confident of them, because max takes
\* the first of the sorted ones.
LEMMA TrackDictExemplary ==
    ASSUME NEW t \in Tracks
    PROVE  Exemplary(TrackDict(t), t)
<1> DEFINE sorted == StableSort(t.locations, ByFrame(t.locations))
           dict == TrackDict(t)
<1>1. t.locations \in Seq(Detections)
  BY DEF Tracks
<1>2. /\ dict.start = t.start /\ dict.confidence = t.confidence
      /\ dict.detections = sorted /\ dict.exemplar = MostConfident(sorted)
  BY DEF TrackDict
<1> HIDE DEF dict, sorted
<1>3. /\ sorted \in Seq(Detections)
      /\ Rearranges(sorted, t.locations)
      /\ \A q, r \in 1..Len(sorted) : q < r => sorted[q].frame <= sorted[r].frame
  BY <1>1, DetectionsSorted DEF sorted
<1>4. Len(sorted) = Len(t.locations) /\ DOMAIN sorted = 1..Len(sorted)
  BY <1>3 DEF Rearranges
<1>5. /\ \A i \in 1..Len(sorted) : sorted[i] \in Range(t.locations)
      /\ \A d \in Range(t.locations) : \E i \in 1..Len(sorted) : sorted[i] = d
  BY <1>3, <1>4, SameElements
<1>6. CASE t.locations = <<>>
  <2>1. sorted = <<>>
    BY <1>1, <1>3, <1>4, <1>6, EmptySeq
  <2>2. dict.exemplar = <<>>
    BY <1>2, <1>3, <2>1, MostConfidentIsFirst
  <2>3. QED
    BY <1>2, <1>3, <1>4, <1>6, <2>2 DEF Exemplary, dict
<1>7. CASE t.locations # <<>>
  <2>1. sorted # <<>>
    BY <1>1, <1>3, <1>4, <1>7, EmptySeq
  <2>2. PICK i \in 1..Len(sorted) :
            /\ MostConfident(sorted) = <<sorted[i]>>
            /\ \A k \in 1..Len(sorted) :
                   \/ sorted[k].confidence < sorted[i].confidence
                   \/ sorted[k].confidence = sorted[i].confidence /\ i <= k
    BY <1>3, <2>1, MostConfidentIsFirst
  <2>3. ASSUME NEW d \in Range(t.locations)
        PROVE  \/ d.confidence < sorted[i].confidence
               \/ d.confidence = sorted[i].confidence /\ sorted[i].frame <= d.frame
    <3>1. PICK k \in 1..Len(sorted) : d = sorted[k]
      BY <1>5
    <3>2. sorted[i].frame \in Int /\ i \in Int /\ k \in Int
      <4>1. Len(sorted) \in Nat /\ sorted[i] \in Detections
        BY <1>3
      <4>2. QED
        BY <4>1 DEF Detections
    <3>3. i <= k => sorted[i].frame <= sorted[k].frame
      <4>1. CASE i < k
        BY <1>3, <4>1
      <4>2. CASE i = k
        BY <3>2, <4>2
      <4>3. QED
        BY <3>2, <4>1, <4>2
    <3>4. QED
      BY <2>2, <3>1, <3>3
  <2>4. sorted[i] \in Range(t.locations) /\ dict.exemplar = <<sorted[i]>>
    BY <1>2, <1>5, <2>2
  <2>5. Exemplary(dict, t)
    BY <1>2, <1>3, <1>4, <2>3, <2>4 DEF Exemplary
  <2>6. QED
    BY <2>5 DEF dict
<1>8. QED
  BY <1>6, <1>7

\* What a component returns is written whole: every track once, in the order of
\* the tracks' keys, with each of its detections once, in the order of their
\* frames, and with the earliest of the most confident of them as its exemplar,
\* however many tracks and detections there are and however they came
\* (ComponentResultToDictConverter.convert).
THEOREM ConvertIsFaithful ==
    ASSUME NEW tracks \in Seq(Tracks)
    PROVE  Faithful(Convert(tracks), tracks)
<1> DEFINE n == Len(tracks)
           dicts == [i \in DOMAIN tracks |-> TrackDict(tracks[i])]
           t == Convert(tracks)
<1>1. n \in Nat /\ DOMAIN tracks = 1..n /\ \A i \in 1..n : tracks[i] \in Tracks
  OBVIOUS
<1>2. t = StableSort(dicts, ByStart(dicts))
  BY DEF Convert
<1>3. DOMAIN dicts = 1..n /\ Len(dicts) = n /\ \A i \in 1..n : dicts[i] = TrackDict(tracks[i])
  BY <1>1
<1> HIDE DEF dicts, t, n
<1>4. \A i \in 1..n : dicts[i].start \in Int /\ dicts[i].confidence \in Int
  BY <1>1, <1>3 DEF TrackDict, Tracks
<1>5. /\ t = [r \in 1..n |-> t[r]]
      /\ \A q, r \in 1..n : q < r => ~TrackBefore(t[r], t[q])
      /\ \E p \in Bijection(1..n, 1..n) : \A r \in 1..n : t[r] = dicts[p[r]]
  BY <1>1, <1>2, <1>3, <1>4, TracksSorted
<1>6. DOMAIN t = 1..n /\ Len(t) = n
  BY <1>1, <1>5
<1>7. PICK p \in Bijection(1..n, 1..n) : \A r \in 1..n : t[r] = dicts[p[r]]
  BY <1>5
<1>8. ASSUME NEW r \in 1..n PROVE Exemplary(t[r], tracks[p[r]])
  <2>1. p[r] \in 1..n
    BY DEF Bijection, Injection
  <2>2. QED
    BY <1>1, <1>3, <1>7, <2>1, TrackDictExemplary
<1>9. Faithful(t, tracks)
  BY <1>1, <1>5, <1>6, <1>7, <1>8 DEF Faithful, n
<1>10. QED
  BY <1>9 DEF t

=============================================================================
