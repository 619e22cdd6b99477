--------------------------- MODULE FingerprintLemmas ---------------------------
(***************************************************************************)
(* What the operators of FingerprintArtifact compute, for any ids, hits    *)
(* and options.                                                            *)
(***************************************************************************)
EXTENDS FingerprintArtifact, FiniteSetTheorems, TLAPS

\* A proper part of a finite set is smaller.
LEMMA SmallerSubset ==
  ASSUME NEW S, IsFiniteSet(S), NEW T \in SUBSET S
  PROVE  /\ IsFiniteSet(T)
         /\ Cardinality(T) \in Nat
         /\ Cardinality(S) \in Nat
         /\ Cardinality(T) <= Cardinality(S)
         /\ T # S => Cardinality(T) < Cardinality(S)
<1>1. IsFiniteSet(T) /\ Cardinality(T) <= Cardinality(S)
  BY FS_Subset
<1>2. Cardinality(T) = Cardinality(S) => T = S
  BY FS_Subset
<1>3. Cardinality(T) \in Nat /\ Cardinality(S) \in Nat
  BY <1>1, FS_CardinalityType
<1>4. QED
  BY <1>1, <1>2, <1>3

-----------------------------------------------------------------------------
(* Distances.  *)

\* Over a whole that is not empty a share has an exact unit, at least 1.
LEMMA UnitOfWhole ==
  ASSUME NEW whole \in SUBSET HitIds, whole # {}
  PROVE  /\ Cardinality(whole) \in Nat \ {0}
         /\ Scale \div Cardinality(whole) \in Nat \ {0}
         /\ Scale = (Scale \div Cardinality(whole)) * Cardinality(whole)
<1> DEFINE w == Cardinality(whole)
<1>1. IsFiniteSet(whole) /\ w <= Cardinality(HitIds)
  BY FS_Subset, ScaleAssumption
<1>2. w \in Nat /\ w # 0 /\ Cardinality(HitIds) \in Nat
  BY <1>1, FS_CardinalityType, FS_EmptySet, ScaleAssumption
<1>3. w \in 1..Cardinality(HitIds)
  BY <1>1, <1>2
<1>4. Scale % w = 0 /\ Scale \in Nat /\ Scale > 0
  BY <1>3, ScaleAssumption
<1> HIDE DEF w
<1>5. Scale = (Scale \div w) * w /\ Scale \div w \in Nat
  BY <1>2, <1>4
<1>6. Scale \div w # 0
  BY <1>2, <1>4, <1>5
<1>7. QED
  BY <1>2, <1>5, <1>6 DEF w

\* A share lies between nothing and the full distance, and is nothing only
\* for an empty part.
LEMMA ShareBounds ==
  ASSUME NEW whole \in SUBSET HitIds, NEW part \in SUBSET whole
  PROVE  /\ Share(part, whole) \in Nat
         /\ Share(part, whole) <= Scale
         /\ Share(part, whole) = 0 <=> part = {}
<1>1. CASE whole = {}
  BY <1>1, ScaleAssumption DEF Share
<1>2. CASE whole # {}
  <2> DEFINE w == Cardinality(whole)
             p == Cardinality(part)
             u == Scale \div w
  <2>1. w \in Nat \ {0} /\ u \in Nat \ {0} /\ Scale = u * w
    BY <1>2, UnitOfWhole
  <2>2. IsFiniteSet(whole)
    BY FS_Subset, ScaleAssumption
  <2>3. p \in Nat /\ p <= w /\ (p = 0 <=> part = {})
    BY <2>2, FS_Subset, FS_CardinalityType, FS_EmptySet
  <2>4. Share(part, whole) = u * p
    BY <1>2 DEF Share
  <2> HIDE DEF w, p, u
  <2>5. u * p \in Nat /\ u * p <= u * w /\ (u * p = 0 <=> p = 0)
    BY <2>1, <2>3
  <2>6. QED
    BY <2>1, <2>3, <2>4, <2>5
<1>3. QED
  BY <1>1, <1>2

\* A distance of two fingerprints is at most 1.0.
LEMMA DistanceBounds ==
  ASSUME NEW s \in QueryFingerprint, NEW t \in QueryFingerprint
  PROVE  /\ StableDistance(s, t) \in 0..Scale
         /\ FlipRate(s, t) \in 0..Scale
         /\ BoundaryDistance(s, t) \in 0..Scale
<1>1. \A A, B \in SUBSET HitIds : JaccardDistance(A, B) \in 0..Scale
  <2> SUFFICES ASSUME NEW A \in SUBSET HitIds, NEW B \in SUBSET HitIds
               PROVE  JaccardDistance(A, B) \in 0..Scale
    OBVIOUS
  <2>1. A \union B \in SUBSET HitIds /\ Differing(A, B) \in SUBSET (A \union B)
    BY DEF Differing
  <2>2. QED
    BY <2>1, ShareBounds, ScaleAssumption DEF JaccardDistance
<1>2. FlipRate(s, t) \in 0..Scale
  <2> DEFINE candidates == s.boundary \union t.boundary
  <2>1. candidates \in SUBSET HitIds
    BY DEF QueryFingerprint
  <2>2. Differing(s.topK, t.topK) \intersect candidates \in SUBSET candidates
    OBVIOUS
  <2>3. QED
    BY <2>1, <2>2, ShareBounds, ScaleAssumption DEF FlipRate, BoundaryFlipRate
<1>3. QED
  BY <1>1, <1>2 DEF StableDistance, BoundaryDistance, QueryFingerprint

\* No distance at all means equal stable neighbours, equal candidates, and no
\* candidate that crossed the cutoff.
LEMMA ZeroDistance ==
  ASSUME NEW s \in QueryFingerprint, NEW t \in QueryFingerprint
  PROVE  /\ StableDistance(s, t) = 0 <=> s.stable = t.stable
         /\ BoundaryDistance(s, t) = 0 <=> s.boundary = t.boundary
         /\ FlipRate(s, t) = 0 <=>
                Differing(s.topK, t.topK) \intersect (s.boundary \union t.boundary) = {}
<1>1. \A A, B \in SUBSET HitIds : JaccardDistance(A, B) = 0 <=> A = B
  <2> SUFFICES ASSUME NEW A \in SUBSET HitIds, NEW B \in SUBSET HitIds
               PROVE  JaccardDistance(A, B) = 0 <=> A = B
    OBVIOUS
  <2>1. A \union B \in SUBSET HitIds /\ Differing(A, B) \in SUBSET (A \union B)
    BY DEF Differing
  <2>2. JaccardDistance(A, B) = 0 <=> Differing(A, B) = {}
    BY <2>1, ShareBounds DEF JaccardDistance
  <2>3. Differing(A, B) = {} <=> A = B
    BY DEF Differing
  <2>4. QED
    BY <2>2, <2>3
<1>2. s.stable \in SUBSET HitIds /\ t.stable \in SUBSET HitIds
  BY DEF QueryFingerprint
<1>3. s.boundary \in SUBSET HitIds /\ t.boundary \in SUBSET HitIds
  BY DEF QueryFingerprint
<1>4. FlipRate(s, t) = 0 <=>
        Differing(s.topK, t.topK) \intersect (s.boundary \union t.boundary) = {}
  <2> DEFINE candidates == s.boundary \union t.boundary
             flipped == Differing(s.topK, t.topK) \intersect candidates
  <2>1. candidates \in SUBSET HitIds /\ flipped \in SUBSET candidates
    BY <1>3
  <2>2. FlipRate(s, t) = Share(flipped, candidates)
    BY DEF FlipRate, BoundaryFlipRate
  <2>3. QED
    BY <2>1, <2>2, ShareBounds
<1>5. QED
  BY <1>1, <1>2, <1>3, <1>4 DEF StableDistance, BoundaryDistance

-----------------------------------------------------------------------------
(* The sort by rank.  *)

\* A response is a finite list of hits with a rank and an id.
LEMMA ResponseShape ==
  ASSUME NEW hits \in Seq(SearchHit)
  PROVE  /\ Len(hits) \in Nat
         /\ DOMAIN hits = 1..Len(hits)
         /\ \A i \in DOMAIN hits : hits[i] \in SearchHit
         /\ \A i \in DOMAIN hits : hits[i].rank \in Int /\ hits[i].id \in HitIds
         /\ IsFiniteSet(DOMAIN hits)
         /\ Cardinality(DOMAIN hits) = Len(hits)
<1>1. Len(hits) \in Nat /\ DOMAIN hits = 1..Len(hits)
  OBVIOUS
<1>2. \A i \in DOMAIN hits : hits[i] \in SearchHit
  OBVIOUS
<1>3. \A hit \in SearchHit : hit.rank \in Int /\ hit.id \in HitIds
  BY DEF SearchHit
<1>4. \A n \in Nat : IsFiniteSet(1..n) /\ Cardinality(1..n) = n
  BY FS_Interval
<1>5. QED
  BY <1>1, <1>2, <1>3, <1>4

\* Places are positions of the list and no two hits share one.
LEMMA PlacesAreDistinct ==
  ASSUME NEW hits \in Seq(SearchHit)
  PROVE  /\ \A i \in DOMAIN hits : Place(hits, i) \in 1..Len(hits)
         /\ \A i, j \in DOMAIN hits : Place(hits, i) = Place(hits, j) => i = j
<1> DEFINE Ahead(i) == {j \in DOMAIN hits : Before(hits, j, i)}
<1>1. /\ Len(hits) \in Nat
      /\ DOMAIN hits = 1..Len(hits)
      /\ \A i \in DOMAIN hits : hits[i].rank \in Int
  BY ResponseShape
<1>2. IsFiniteSet(DOMAIN hits) /\ Cardinality(DOMAIN hits) = Len(hits)
  BY ResponseShape
<1>3. \A i, j \in DOMAIN hits :
        Before(hits, i, j) => Ahead(i) \subseteq Ahead(j) /\ Ahead(i) # Ahead(j)
  BY <1>1 DEF Before
<1>4. \A i \in DOMAIN hits : Ahead(i) \subseteq DOMAIN hits /\ Ahead(i) # DOMAIN hits
  BY <1>1 DEF Before
<1>5. \A i, j \in DOMAIN hits : i = j \/ Before(hits, i, j) \/ Before(hits, j, i)
  BY <1>1 DEF Before
<1>6. \A i \in DOMAIN hits : Place(hits, i) = 1 + Cardinality(Ahead(i))
  BY DEF Place
<1> HIDE DEF Ahead
<1>7. \A i \in DOMAIN hits :
        IsFiniteSet(Ahead(i)) /\ Cardinality(Ahead(i)) \in 0..(Len(hits) - 1)
  BY <1>1, <1>2, <1>4, SmallerSubset
<1>8. \A i, j \in DOMAIN hits : Before(hits, i, j) => Cardinality(Ahead(i)) < Cardinality(Ahead(j))
  BY <1>3, <1>7, SmallerSubset
<1>9. QED
  BY <1>1, <1>5, <1>6, <1>7, <1>8

\* The sort moves every hit to its place and loses none.
LEMMA SortIsPermutation ==
  ASSUME NEW hits \in Seq(SearchHit)
  PROVE  /\ ByRank(hits) \in Seq(SearchHit)
         /\ Len(ByRank(hits)) = Len(hits)
         /\ \A i \in DOMAIN hits : ByRank(hits)[Place(hits, i)] = hits[i]
         /\ \A p \in DOMAIN hits : \E i \in DOMAIN hits :
                Place(hits, i) = p /\ ByRank(hits)[p] = hits[i]
<1> DEFINE place == [i \in DOMAIN hits |-> Place(hits, i)]
<1>1. /\ Len(hits) \in Nat
      /\ DOMAIN hits = 1..Len(hits)
      /\ \A i \in DOMAIN hits : hits[i] \in SearchHit
  BY ResponseShape
<1>2. place \in [1..Len(hits) -> 1..Len(hits)]
  BY <1>1, PlacesAreDistinct
<1>3. \A i, j \in 1..Len(hits) : place[i] = place[j] => i = j
  BY <1>1, PlacesAreDistinct
<1>4. \A p \in 1..Len(hits) : \E i \in 1..Len(hits) : place[i] = p
  <2> HIDE DEF place
  <2>1. place \in Injection(1..Len(hits), 1..Len(hits))
    BY <1>2, <1>3 DEF Injection, IsInjective
  <2>2. IsFiniteSet(1..Len(hits))
    BY ResponseShape
  <2>3. place \in Surjection(1..Len(hits), 1..Len(hits))
    BY <2>1, <2>2, FS_Injection
  <2>4. QED
    BY <2>3 DEF Surjection
<1>5. \A p \in DOMAIN hits : \E i \in DOMAIN hits : Place(hits, i) = p
  BY <1>1, <1>2, <1>4
<1>6. \A p \in DOMAIN hits : \E i \in DOMAIN hits :
        Place(hits, i) = p /\ ByRank(hits)[p] = hits[i]
  BY <1>5 DEF ByRank
<1>7. \A i \in DOMAIN hits : ByRank(hits)[Place(hits, i)] = hits[i]
  BY <1>1, <1>6, PlacesAreDistinct
<1>8. ByRank(hits) \in [1..Len(hits) -> SearchHit]
  BY <1>1, <1>6 DEF ByRank
<1>9. ByRank(hits) \in Seq(SearchHit) /\ Len(ByRank(hits)) = Len(hits)
  BY <1>1, <1>8
<1>10. QED
  BY <1>6, <1>7, <1>9

\* Hits that come with their positions as ranks are where they belong.
LEMMA PlaceOfRanked ==
  ASSUME NEW hits \in Seq(SearchHit), \A i \in DOMAIN hits : hits[i].rank = i,
         NEW i \in DOMAIN hits
  PROVE  Place(hits, i) = i
<1>1. Len(hits) \in Nat /\ DOMAIN hits = 1..Len(hits)
  BY ResponseShape
<1>2. i \in Nat \ {0} /\ i <= Len(hits)
  BY <1>1
<1>3. {j \in DOMAIN hits : Before(hits, j, i)} = 1..(i - 1)
  BY <1>1, <1>2 DEF Before
<1>4. i - 1 \in Nat
  BY <1>2
<1>5. Cardinality(1..(i - 1)) = i - 1
  <2>1. \A n \in Nat : Cardinality(1..n) = n
    BY FS_Interval
  <2>2. QED
    BY <1>4, <2>1
<1>6. Place(hits, i) = 1 + (i - 1)
  BY <1>3, <1>5 DEF Place
<1>7. QED
  BY <1>2, <1>6
=============================================================================
