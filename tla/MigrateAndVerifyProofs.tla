------------------------ MODULE MigrateAndVerifyProofs ------------------------
(***************************************************************************)
(* Proofs about migrate-and-verify, for any rows, queries, flags and       *)
(* distances.                                                              *)
(***************************************************************************)
EXTENDS MigrateAndVerify, VectorMigrationProofs

FL == INSTANCE FingerprintLemmas WITH HitIds <- Ids

-----------------------------------------------------------------------------
(* The answers of a search.  *)

\* What Nearest promises of an answer, spelled out.
LEMMA NearestShape ==
  ASSUME NEW C \in SUBSET Record, IsFiniteSet(C), NEW limitK \in Nat,
         NEW far \in [Vectors -> Nat], NEW pick \in Nearest(C, limitK, far)
  PROVE  /\ Cardinality(C) \in Nat
         /\ \E n \in Nat :
              /\ n = IF Cardinality(C) <= limitK THEN Cardinality(C) ELSE limitK
              /\ pick \in [1..n -> C]
         /\ \A i \in DOMAIN pick : pick[i] \in C /\ pick[i].id \in Ids /\ far[pick[i].vec] \in Nat
         /\ \A i, j \in DOMAIN pick : i < j =>
              pick[i] # pick[j] /\ far[pick[i].vec] <= far[pick[j].vec]
         /\ \A c \in C : (\A i \in DOMAIN pick : pick[i] # c) =>
              \A i \in DOMAIN pick : far[pick[i].vec] <= far[c.vec]
<1>1. Cardinality(C) \in Nat
  BY FS_CardinalityType
<1> DEFINE n == IF Cardinality(C) <= limitK THEN Cardinality(C) ELSE limitK
<1>2. n \in Nat
  BY <1>1
<1>3. /\ pick \in [1..n -> C]
      /\ \A i, j \in 1..n : i < j =>
            pick[i] # pick[j] /\ far[pick[i].vec] <= far[pick[j].vec]
      /\ \A c \in C : (\A i \in 1..n : pick[i] # c) =>
            \A i \in 1..n : far[pick[i].vec] <= far[c.vec]
  BY DEF Nearest
<1>4. \E k \in Nat :
        /\ k = IF Cardinality(C) <= limitK THEN Cardinality(C) ELSE limitK
        /\ pick \in [1..k -> C]
  BY <1>2, <1>3
<1> HIDE DEF n
<1>5. DOMAIN pick = 1..n
  BY <1>3
<1>6. \A c \in C : c.id \in Ids /\ far[c.vec] \in Nat
  BY DEF Record
<1>7. \A i \in DOMAIN pick : pick[i] \in C
  BY <1>3, <1>5
<1>8. QED
  BY <1>1, <1>3, <1>4, <1>5, <1>6, <1>7

\* Without ties, a place in an answer says how many candidates are closer.
LEMMA PlaceInAnswer ==
  ASSUME NEW C \in SUBSET Record, IsFiniteSet(C), NEW limitK \in Nat,
         NEW far \in [Vectors -> Nat], NEW pick \in Nearest(C, limitK, far),
         \A a, b \in C : far[a.vec] = far[b.vec] => a = b,
         NEW i \in DOMAIN pick
  PROVE  Cardinality({c \in C : far[c.vec] < far[pick[i].vec]}) = i - 1
<1> DEFINE Closer == {c \in C : far[c.vec] < far[pick[i].vec]}
           first == [j \in 1..(i - 1) |-> pick[j]]
<1>1. PICK n \in Nat : pick \in [1..n -> C]
  BY NearestShape
<1>2. /\ DOMAIN pick = 1..n
      /\ i \in Nat /\ i - 1 \in Nat
      /\ \A j \in 1..(i - 1) : j \in DOMAIN pick /\ j < i
      /\ \A j \in DOMAIN pick : j \in Int /\ (j < i \/ j = i \/ i < j)
      /\ \A j \in DOMAIN pick : j < i => j \in 1..(i - 1)
      /\ \A j \in 1..(i - 1) : j \in Int
  BY <1>1
<1>3. /\ \A j \in DOMAIN pick : pick[j] \in C
      /\ \A j, k \in DOMAIN pick : j < k =>
            pick[j] # pick[k] /\ far[pick[j].vec] <= far[pick[k].vec]
      /\ \A c \in C : (\A j \in DOMAIN pick : pick[j] # c) =>
            \A j \in DOMAIN pick : far[pick[j].vec] <= far[c.vec]
  BY NearestShape
<1>4. \A c \in C : far[c.vec] \in Nat
  BY DEF Record
<1>5. \A j \in 1..(i - 1) : pick[j] \in Closer
  <2> SUFFICES ASSUME NEW j \in 1..(i - 1) PROVE pick[j] \in Closer
    OBVIOUS
  <2>1. j \in DOMAIN pick /\ j < i /\ pick[j] \in C /\ pick[i] \in C
    BY <1>2, <1>3
  <2>2. pick[j] # pick[i] /\ far[pick[j].vec] <= far[pick[i].vec]
    BY <1>3, <2>1
  <2>3. far[pick[j].vec] # far[pick[i].vec]
    BY <2>1, <2>2
  <2>4. far[pick[j].vec] < far[pick[i].vec]
    BY <1>4, <2>1, <2>2, <2>3
  <2>5. QED
    BY <2>1, <2>4
<1>6. \A c \in Closer : \E j \in 1..(i - 1) : pick[j] = c
  <2> SUFFICES ASSUME NEW c \in Closer PROVE \E j \in 1..(i - 1) : pick[j] = c
    OBVIOUS
  <2>1. c \in C /\ far[c.vec] < far[pick[i].vec] /\ far[c.vec] \in Nat /\ far[pick[i].vec] \in Nat
    BY <1>3, <1>4
  <2>2. PICK j \in DOMAIN pick : pick[j] = c
    BY <1>3, <2>1
  <2>3. j # i /\ ~(i < j)
    BY <1>3, <2>1, <2>2
  <2>4. QED
    BY <1>2, <2>2, <2>3
<1>7. first \in Injection(1..(i - 1), Closer)
  <2>1. first \in [1..(i - 1) -> Closer]
    BY <1>5
  <2>2. \A j, k \in 1..(i - 1) : first[j] = first[k] => j = k
    <3>1. \A j, k \in 1..(i - 1) : j = k \/ j < k \/ k < j
      BY <1>2
    <3>2. QED
      BY <1>2, <1>3, <3>1
  <2>3. QED
    BY <2>1, <2>2 DEF Injection, IsInjective
<1>8. first \in Surjection(1..(i - 1), Closer)
  BY <1>6, <1>7 DEF Injection, Surjection
<1>9. IsFiniteSet(Closer)
  BY FS_Subset
<1> HIDE DEF first, Closer
<1>10. Cardinality(1..(i - 1)) = Cardinality(Closer)
  BY <1>7, <1>8, <1>9, FS_Injection
<1>11. Cardinality(1..(i - 1)) = i - 1
  <2>1. \A k \in Nat : Cardinality(1..k) = k
    BY FS_Interval
  <2>2. QED
    BY <1>2, <2>1
<1>12. QED
  BY <1>10, <1>11 DEF Closer

\* So two answers over the same candidates agree wherever both have a hit.
LEMMA SameRanking ==
  ASSUME NEW C \in SUBSET Record, IsFiniteSet(C),
         NEW far \in [Vectors -> Nat],
         \A a, b \in C : far[a.vec] = far[b.vec] => a = b,
         NEW limitK \in Nat, NEW pick \in Nearest(C, limitK, far),
         NEW otherK \in Nat, NEW other \in Nearest(C, otherK, far),
         NEW i \in (DOMAIN pick) \intersect (DOMAIN other)
  PROVE  pick[i] = other[i]
<1> DEFINE Closer(x) == {c \in C : far[c.vec] < far[x.vec]}
<1>1. pick[i] \in C /\ other[i] \in C
  BY NearestShape
<1>2. Cardinality(Closer(pick[i])) = i - 1 /\ Cardinality(Closer(other[i])) = i - 1
  BY PlaceInAnswer
<1>3. \A c \in C : far[c.vec] \in Nat
  BY DEF Record
<1>4. ASSUME NEW x \in C, NEW y \in C, far[x.vec] < far[y.vec]
      PROVE  Cardinality(Closer(x)) # Cardinality(Closer(y))
  <2>1. Closer(x) \subseteq Closer(y) /\ x \in Closer(y) /\ x \notin Closer(x)
    BY <1>3, <1>4
  <2>2. IsFiniteSet(Closer(y))
    BY FS_Subset
  <2> HIDE DEF Closer
  <2>3. QED
    BY <2>1, <2>2, FS_Subset
<1>5. ~(far[pick[i].vec] < far[other[i].vec]) /\ ~(far[other[i].vec] < far[pick[i].vec])
  BY <1>1, <1>2, <1>4
<1>6. far[pick[i].vec] = far[other[i].vec]
  BY <1>1, <1>3, <1>5
<1>7. QED
  BY <1>1, <1>6

-----------------------------------------------------------------------------
(* Fingerprints of such answers, and their distances.  *)

Hit == [id: Ids, rank: Nat]

\* The modules that are instantiated count alike.
LEMMA SameCounts ==
  \A S : /\ FP!Cardinality(S) = Cardinality(S)
         /\ FL!Cardinality(S) = Cardinality(S)
         /\ FL!IsFiniteSet(S) = IsFiniteSet(S)
BY DEF FP!Cardinality, FL!Cardinality, Cardinality, FL!IsFiniteSet, IsFiniteSet

\* What the lemmas about fingerprints ask of the constants.
LEMMA ScaleHolds == FL!ScaleAssumption
BY VerifyAssumption, SameCounts DEF FL!ScaleAssumption

\* Hits that are ranked by position need no sorting.
LEMMA RankedFingerprint ==
  ASSUME NEW hits \in Seq(Hit), \A j \in DOMAIN hits : hits[j].rank = j, NEW f
  PROVE  /\ Len(hits) \in Nat /\ DOMAIN hits = 1..Len(hits)
         /\ FP!Fingerprint(hits, f) =
              [stable |-> {hits[j].id : j \in 1..f.stableK},
               boundary |-> {hits[j].id : j \in FP!BoundaryPlaces(f, Len(hits))},
               topK |-> {hits[j].id : j \in 1..f.topK}]
<1>1. Len(hits) \in Nat /\ DOMAIN hits = 1..Len(hits) /\ hits \in [1..Len(hits) -> Hit]
  OBVIOUS
<1>2. Hit \subseteq FL!SearchHit
  BY DEF Hit, FL!SearchHit
<1>3. hits \in Seq(FL!SearchHit)
  BY <1>1, <1>2
<1>4. \A i \in DOMAIN hits : FP!Place(hits, i) = i
  <2>1. \A i \in DOMAIN hits : FL!Place(hits, i) = i
    BY <1>3, ScaleHolds, FL!PlaceOfRanked
  <2>2. \A i \in DOMAIN hits : FP!Place(hits, i) = FL!Place(hits, i)
    BY SameCounts DEF FP!Place, FP!Before, FL!Place, FL!Before
  <2>3. QED
    BY <2>1, <2>2
<1>5. ASSUME NEW p \in DOMAIN hits PROVE FP!ByRank(hits)[p] = hits[p]
  <2> DEFINE here == CHOOSE i \in DOMAIN hits : FP!Place(hits, i) = p
  <2>1. here = p
    BY <1>4
  <2>2. FP!ByRank(hits)[p] = hits[here]
    BY DEF FP!ByRank
  <2>3. QED
    BY <2>1, <2>2
<1>6. FP!ByRank(hits) = hits
  <2>1. DOMAIN FP!ByRank(hits) = DOMAIN hits
    BY DEF FP!ByRank
  <2>2. FP!ByRank(hits) = [p \in DOMAIN hits |-> FP!ByRank(hits)[p]]
    BY <2>1 DEF FP!ByRank
  <2>3. hits = [p \in DOMAIN hits |-> hits[p]]
    BY <1>1
  <2>4. QED
    BY <1>5, <2>2, <2>3
<1>7. QED
  BY <1>1, <1>6 DEF FP!Fingerprint, FP!IdsAt

Prints ==
    LET IdSet == SUBSET (Ids \ {EmptyId})
    IN  [stable: IdSet, boundary: IdSet, topK: IdSet]

\* The fingerprint of hits that the builder accepts is made of their ids.
LEMMA FingerprintType ==
  ASSUME NEW hits \in Seq(Hit), \A j \in DOMAIN hits : hits[j].rank = j,
         NEW f \in FlagSet, FP!ValidOptions(f), Len(hits) >= f.topK,
         \A j \in DOMAIN hits : hits[j].id # EmptyId
  PROVE  FP!Fingerprint(hits, f) \in Prints
<1>1. /\ Len(hits) \in Nat /\ DOMAIN hits = 1..Len(hits)
      /\ FP!Fingerprint(hits, f) =
              [stable |-> {hits[j].id : j \in 1..f.stableK},
               boundary |-> {hits[j].id : j \in FP!BoundaryPlaces(f, Len(hits))},
               topK |-> {hits[j].id : j \in 1..f.topK}]
  BY RankedFingerprint
<1>2. \A j \in DOMAIN hits : hits[j].id \in Ids \ {EmptyId}
  <2>1. \A j \in 1..Len(hits) : hits[j] \in Hit
    OBVIOUS
  <2>2. QED
    BY <1>1, <2>1 DEF Hit
<1>3. f.topK \in Int /\ f.stableK \in Int /\ f.stableK <= f.topK
  BY DEF FlagSet, FP!ValidOptions
<1>4. /\ 1..f.stableK \subseteq DOMAIN hits
      /\ 1..f.topK \subseteq DOMAIN hits
      /\ FP!BoundaryPlaces(f, Len(hits)) \subseteq DOMAIN hits
  BY <1>1, <1>3 DEF FP!BoundaryPlaces
<1>5. \A places \in SUBSET DOMAIN hits : {hits[j].id : j \in places} \in SUBSET (Ids \ {EmptyId})
  BY <1>2
<1>6. /\ {hits[j].id : j \in 1..f.stableK} \in SUBSET (Ids \ {EmptyId})
      /\ {hits[j].id : j \in 1..f.topK} \in SUBSET (Ids \ {EmptyId})
      /\ {hits[j].id : j \in FP!BoundaryPlaces(f, Len(hits))} \in SUBSET (Ids \ {EmptyId})
  BY <1>4, <1>5
<1>7. QED
  BY <1>1, <1>6 DEF Prints

\* The distance of two fingerprints is a number, and is 0 only when stable
\* neighbours and candidates agree and no candidate crossed the cutoff.
LEMMA QueryDistanceShape ==
  ASSUME NEW s \in Prints, NEW t \in Prints
  PROVE  /\ QueryDistance(s, t) \in Nat
         /\ QueryDistance(s, t) = 0 <=>
              /\ s.stable = t.stable
              /\ s.boundary = t.boundary
              /\ FL!Differing(s.topK, t.topK) \intersect (s.boundary \union t.boundary) = {}
<1>1. s \in FL!QueryFingerprint /\ t \in FL!QueryFingerprint
  BY DEF Prints, FL!QueryFingerprint
<1>2. /\ FL!StableDistance(s, t) \in 0..Scale
      /\ FL!FlipRate(s, t) \in 0..Scale
      /\ FL!BoundaryDistance(s, t) \in 0..Scale
  BY <1>1, ScaleHolds, FL!DistanceBounds
<1>3. /\ FL!StableDistance(s, t) = 0 <=> s.stable = t.stable
      /\ FL!BoundaryDistance(s, t) = 0 <=> s.boundary = t.boundary
      /\ FL!FlipRate(s, t) = 0 <=>
            FL!Differing(s.topK, t.topK) \intersect (s.boundary \union t.boundary) = {}
  BY <1>1, ScaleHolds, FL!ZeroDistance
<1>4. FP!StableDistance(s, t) = FL!StableDistance(s, t)
  BY SameCounts DEF FP!StableDistance, FP!JaccardDistance, FP!Share, FP!Differing,
         FL!StableDistance, FL!JaccardDistance, FL!Share, FL!Differing
<1>5. FP!BoundaryDistance(s, t) = FL!BoundaryDistance(s, t)
  BY SameCounts DEF FP!BoundaryDistance, FP!JaccardDistance, FP!Share, FP!Differing,
         FL!BoundaryDistance, FL!JaccardDistance, FL!Share, FL!Differing
<1>6. FP!FlipRate(s, t) = FL!FlipRate(s, t)
  BY SameCounts DEF FP!FlipRate, FP!BoundaryFlipRate, FP!Share, FP!Differing,
         FL!FlipRate, FL!BoundaryFlipRate, FL!Share, FL!Differing
<1> DEFINE a == FP!StableDistance(s, t)
           b == FP!FlipRate(s, t)
           c == FP!BoundaryDistance(s, t)
<1>7. QueryDistance(s, t) = 2 * a + 2 * b + c
  BY DEF QueryDistance
<1>8. Scale \in Nat
  BY VerifyAssumption
<1>9. a \in 0..Scale /\ b \in 0..Scale /\ c \in 0..Scale
  BY <1>2, <1>4, <1>5, <1>6
<1> HIDE DEF a, b, c
<1>10. a \in Nat /\ b \in Nat /\ c \in Nat
  BY <1>8, <1>9
<1>11. 2 * a + 2 * b + c \in Nat /\ (2 * a + 2 * b + c = 0 <=> a = 0 /\ b = 0 /\ c = 0)
  BY <1>10
<1>12. QED
  BY <1>3, <1>4, <1>5, <1>6, <1>7, <1>11 DEF a, b, c

-----------------------------------------------------------------------------
(* What a run knows.  *)

After == {"source", "target", "compare", "scored"}

\* A run searches only once its migration succeeded, with valid flags.
Staged(r) ==
    /\ stage[r] = "migrate" => pc[r] \in Active /\ results[r] = NoResults
    /\ stage[r] \in After => pc[r] = "done"
    /\ stage[r] # "idle" => ValidFlags(flags[r])

\* The searches of a side that was built are all answered and accepted.
Built(r) ==
    \A side \in Sides :
        stage[r] \in {"compare", "scored"} \/ (side = "source" /\ stage[r] = "target") =>
            Len(results[r][side]) = Len(Queries) /\ CanBuild(r, side)

Ranked(r) ==
    \A side \in Sides : \A i \in DOMAIN results[r][side] :
        \A j \in DOMAIN results[r][side][i].hits : results[r][side][i].hits[j].rank = j

Compared(r) ==
    stage[r] = "scored" =>
        distance[r] = [q \in DOMAIN ArtifactOf(r, "source") |->
            QueryDistance(ArtifactOf(r, "source")[q], ArtifactOf(r, "target")[q])]

\* The hits of search i are an answer over these records.
AnswerOver(r, side, i, records) ==
    \E pick \in Nearest(records, flags[r].expandK, Far[flags[r].metric][Queries[i]]) :
        results[r][side][i].hits = Hits(pick)

\* The answers of an undisturbed run are still those of the two databases.
Truthful(r) ==
    stage[r] \in After /\ undisturbed[r] =>
        /\ \A i \in DOMAIN results[r]["source"] : \E S \in SUBSET RowSet :
            (sawAll[r] /\ UniqueIds => S = RowSet) /\ AnswerOver(r, "source", i, S)
        /\ \A i \in DOMAIN results[r]["target"] : AnswerOver(r, "target", i, WithVector(r))

RunInv(r) == Staged(r) /\ Built(r) /\ Ranked(r) /\ Compared(r) /\ Truthful(r)

VerifyInv == VerifyTypeOK /\ CompletenessInv /\ \A r \in Runners : RunInv(r)

SearchResults == [query: QueryIds, hits: Seq(Hit)]

\* The part of the type invariant that is about the command.
LEMMA VerifyTypes ==
  ASSUME VerifyTypeOK
  PROVE  /\ TypeOK
         /\ flags \in [Runners -> Flags]
         /\ stage \in [Runners -> {"migrate", "compare"} \union Sides \union Closed]
         /\ results \in [Runners -> [Sides -> Seq(SearchResults)]]
         /\ \A r \in Runners : \A side \in Sides :
              /\ results[r][side] \in Seq(SearchResults)
              /\ Len(results[r][side]) \in Nat
              /\ DOMAIN results[r][side] = 1..Len(results[r][side])
              /\ Len(results[r][side]) <= Len(Queries)
              /\ \A i \in DOMAIN results[r][side] :
                    /\ results[r][side][i].query = Queries[i]
                    /\ results[r][side][i].hits \in Seq(Hit)
         /\ distance \in [Runners -> Distances \union {NoDistance}]
<1>1. results \in [Runners -> [Sides -> Seq(SearchResults)]]
  BY DEF VerifyTypeOK, SearchResults, Hit
<1>2. ASSUME NEW r \in Runners, NEW side \in Sides
      PROVE  /\ results[r][side] \in Seq(SearchResults)
             /\ Len(results[r][side]) \in Nat
             /\ DOMAIN results[r][side] = 1..Len(results[r][side])
             /\ \A i \in DOMAIN results[r][side] : results[r][side][i].hits \in Seq(Hit)
  <2>1. results[r][side] \in Seq(SearchResults)
    BY <1>1
  <2>2. \A list \in Seq(SearchResults) :
          /\ Len(list) \in Nat /\ DOMAIN list = 1..Len(list)
          /\ \A i \in DOMAIN list : list[i] \in SearchResults
    OBVIOUS
  <2>3. \A entry \in SearchResults : entry.hits \in Seq(Hit)
    BY DEF SearchResults
  <2>4. QED
    BY <2>1, <2>2, <2>3
<1>3. /\ TypeOK
      /\ flags \in [Runners -> Flags]
      /\ stage \in [Runners -> {"migrate", "compare"} \union Sides \union Closed]
      /\ \A r \in Runners : \A side \in Sides :
            /\ Len(results[r][side]) <= Len(Queries)
            /\ \A i \in DOMAIN results[r][side] : results[r][side][i].query = Queries[i]
      /\ distance \in [Runners -> Distances \union {NoDistance}]
  BY DEF VerifyTypeOK
<1>4. QED
  BY <1>1, <1>2, <1>3

\* Valid flags are positive numbers, and a search reaches past both windows.
LEMMA FlagsShape ==
  ASSUME NEW f \in Flags, ValidFlags(f)
  PROVE  /\ f \in FlagSet /\ FP!ValidOptions(f)
         /\ f.topK \in Nat /\ f.stableK \in Nat /\ f.boundaryK \in Nat /\ f.expandK \in Nat
         /\ 0 < f.stableK /\ f.stableK <= f.topK /\ 0 < f.boundaryK
         /\ f.topK + f.boundaryK <= f.expandK
         /\ f.metric \in Metrics
<1>1. f \in FlagSet
  BY VerifyAssumption
<1>2. f.topK \in Int /\ f.stableK \in Int /\ f.boundaryK \in Int /\ f.expandK \in Int
      /\ f.metric \in Metrics
  BY <1>1 DEF FlagSet
<1>3. FP!ValidOptions(f) /\ f.expandK >= f.topK + f.boundaryK
  BY DEF ValidFlags
<1>4. f.topK > 0 /\ f.stableK > 0 /\ f.stableK <= f.topK /\ f.boundaryK > 0
  BY <1>3 DEF FP!ValidOptions
<1>5. QED
  BY <1>1, <1>2, <1>3, <1>4

\* What can be searched is a finite set of records.
LEMMA CandidatesAreRecords ==
  ASSUME VerifyTypeOK, NEW r \in Runners
  PROVE  /\ RowSet \in SUBSET Record /\ IsFiniteSet(RowSet)
         /\ WithVector(r) \in SUBSET Record /\ IsFiniteSet(WithVector(r))
<1>1. rows \in Seq(Record) /\ table \in [Ids -> Vectors \union {NoVector}]
  BY DEF VerifyTypeOK, TypeOK
<1>2. Len(rows) \in Nat /\ DOMAIN rows = 1..Len(rows) /\ \A i \in DOMAIN rows : rows[i] \in Record
  BY <1>1
<1>3. RowSet \in SUBSET Record
  BY <1>2 DEF RowSet
<1>4. IsFiniteSet(RowSet)
  <2>1. rows \in Surjection(1..Len(rows), RowSet)
    <3>1. rows \in [1..Len(rows) -> RowSet]
      BY <1>1, <1>2 DEF RowSet
    <3>2. \A rec \in RowSet : \E i \in 1..Len(rows) : rows[i] = rec
      BY <1>2 DEF RowSet
    <3>3. QED
      BY <3>1, <3>2 DEF Surjection
  <2>2. IsFiniteSet(1..Len(rows))
    BY <1>2, FS_Interval
  <2>3. QED
    BY <2>1, <2>2, FS_Surjection
<1> DEFINE held == {k \in Ids : Searched(r)[k] # NoVector}
           row == [k \in held |-> [id |-> k, vec |-> Searched(r)[k]]]
<1>5. Searched(r) \in [Ids -> Vectors \union {NoVector}]
  BY <1>1, VerifyAssumption DEF Searched
<1>6. WithVector(r) \in SUBSET Record
  BY <1>5 DEF WithVector, Record
<1>7. IsFiniteSet(WithVector(r))
  <2>1. row \in Surjection(held, WithVector(r))
    BY DEF Surjection, WithVector
  <2>2. IsFiniteSet(held)
    BY FS_Subset, VerifyAssumption
  <2>3. QED
    BY <2>1, <2>2, FS_Surjection
<1>8. QED
  BY <1>3, <1>4, <1>6, <1>7

\* The hits of an answer carry its ids, ranked by position.
LEMMA HitsShape ==
  ASSUME NEW C \in SUBSET Record, IsFiniteSet(C), NEW limitK \in Nat,
         NEW far \in [Vectors -> Nat], NEW pick \in Nearest(C, limitK, far)
  PROVE  /\ Hits(pick) \in Seq(Hit)
         /\ DOMAIN Hits(pick) = DOMAIN pick
         /\ \A j \in DOMAIN pick : Hits(pick)[j].id = pick[j].id /\ Hits(pick)[j].rank = j
         /\ DOMAIN pick = 1..Len(Hits(pick))
         /\ Len(Hits(pick)) = IF Cardinality(C) <= limitK THEN Cardinality(C) ELSE limitK
<1>1. PICK n \in Nat :
        /\ n = IF Cardinality(C) <= limitK THEN Cardinality(C) ELSE limitK
        /\ pick \in [1..n -> C]
  BY NearestShape
<1>2. \A j \in 1..n : pick[j].id \in Ids /\ j \in Nat
  BY <1>1 DEF Record
<1>3. Hits(pick) = [j \in 1..n |-> [id |-> pick[j].id, rank |-> j]]
  BY <1>1 DEF Hits
<1>4. Hits(pick) \in [1..n -> Hit]
  BY <1>2, <1>3 DEF Hit
<1>5. Hits(pick) \in Seq(Hit) /\ Len(Hits(pick)) = n
  BY <1>1, <1>4
<1>6. QED
  BY <1>1, <1>3, <1>5

\* With every row flushed and no id twice, a search in the source sees them all.
LEMMA AllFindable ==
  ASSUME VerifyTypeOK, flushed = Len(rows), UniqueIds, NEW S \in Findable
  PROVE  S = RowSet
<1>1. rows \in Seq(Record)
  BY DEF VerifyTypeOK, TypeOK
<1>2. DOMAIN rows = 1..Len(rows)
  BY <1>1
<1>3. S \subseteq RowSet /\ \A i \in DOMAIN rows : \E rec \in S : rec.id = rows[i].id
  BY <1>2 DEF Findable
<1>4. \A i \in DOMAIN rows : rows[i] \in S
  <2> SUFFICES ASSUME NEW i \in DOMAIN rows PROVE rows[i] \in S
    OBVIOUS
  <2>1. PICK rec \in S : rec.id = rows[i].id
    BY <1>3
  <2>2. PICK j \in DOMAIN rows : rows[j] = rec
    BY <1>3, <2>1 DEF RowSet
  <2>3. j = i
    BY <2>1, <2>2 DEF UniqueIds
  <2>4. QED
    BY <2>2, <2>3
<1>5. QED
  BY <1>3, <1>4 DEF RowSet

\* What a search may answer, and over what.
LEMMA AnswerShape ==
  ASSUME VerifyTypeOK, NEW r \in Runners, ValidFlags(flags[r]), NEW side \in Sides,
         NEW query \in QueryIds, NEW pick \in Answered(r, side, query)
  PROVE  /\ Hits(pick) \in Seq(Hit)
         /\ \A j \in DOMAIN Hits(pick) : Hits(pick)[j].rank = j
         /\ side = "source" => \E S \in Findable :
              pick \in Nearest(S, flags[r].expandK, Far[flags[r].metric][query])
         /\ side = "target" =>
              pick \in Nearest(WithVector(r), flags[r].expandK, Far[flags[r].metric][query])
<1>1. flags[r] \in Flags
  BY VerifyTypes
<1>2. flags[r].expandK \in Nat /\ flags[r].metric \in Metrics
  BY <1>1, FlagsShape
<1> DEFINE far == Far[flags[r].metric][query]
<1>3. far \in [Vectors -> Nat]
  BY <1>2, VerifyAssumption
<1>4. side = "source" => \E S \in Findable : pick \in Nearest(S, flags[r].expandK, far)
  BY DEF Answered, SourceAnswers
<1>5. side = "target" => pick \in Nearest(WithVector(r), flags[r].expandK, far)
  BY DEF Answered, TargetAnswers
<1>6. \E C \in SUBSET Record : IsFiniteSet(C) /\ pick \in Nearest(C, flags[r].expandK, far)
  <2>1. CASE side = "source"
    <3>1. PICK S \in Findable : pick \in Nearest(S, flags[r].expandK, far)
      BY <1>4, <2>1
    <3>2. S \in SUBSET RowSet
      BY DEF Findable
    <3>3. S \in SUBSET Record /\ IsFiniteSet(S)
      BY <3>2, CandidatesAreRecords, FS_Subset
    <3>4. QED
      BY <3>1, <3>3
  <2>2. CASE side = "target"
    BY <1>5, <2>2, CandidatesAreRecords
  <2>3. QED
    BY <2>1, <2>2 DEF Sides
<1> HIDE DEF far
<1>7. Hits(pick) \in Seq(Hit) /\ \A j \in DOMAIN Hits(pick) : Hits(pick)[j].rank = j
  BY <1>2, <1>3, <1>6, HitsShape
<1>8. QED
  BY <1>4, <1>5, <1>7 DEF far

\* A side that was built has one fingerprint per query, of the hits of its search.
LEMMA BuiltArtifact ==
  ASSUME VerifyTypeOK, NEW r \in Runners, NEW side \in Sides, Ranked(r),
         ValidFlags(flags[r]), Len(results[r][side]) = Len(Queries), CanBuild(r, side)
  PROVE  /\ DOMAIN ArtifactOf(r, side) = {Queries[i] : i \in DOMAIN Queries}
         /\ \A i \in DOMAIN Queries :
              /\ i \in DOMAIN results[r][side]
              /\ results[r][side][i].hits \in Seq(Hit)
              /\ \A j \in DOMAIN results[r][side][i].hits : results[r][side][i].hits[j].rank = j
              /\ Len(results[r][side][i].hits) >= flags[r].topK
              /\ ArtifactOf(r, side)[Queries[i]]
                    = FP!Fingerprint(results[r][side][i].hits, flags[r])
              /\ ArtifactOf(r, side)[Queries[i]] \in Prints
<1> DEFINE found == results[r][side]
<1>1. /\ found \in Seq(SearchResults)
      /\ DOMAIN found = 1..Len(found)
      /\ \A i \in DOMAIN found : found[i].query = Queries[i] /\ found[i].hits \in Seq(Hit)
      /\ flags[r] \in Flags
  BY VerifyTypes
<1>2. DOMAIN Queries = 1..Len(Queries)
  BY VerifyAssumption
<1>3. DOMAIN found = DOMAIN Queries
  BY <1>1, <1>2
<1>4. /\ FP!ValidOptions(flags[r])
      /\ \A i \in DOMAIN found : FP!ValidResult(found[i], flags[r])
      /\ \A i, j \in DOMAIN found : found[i].query = found[j].query => i = j
  BY DEF CanBuild, FP!CanBuild
<1>5. \A i \in DOMAIN found : \A j \in DOMAIN found[i].hits : found[i].hits[j].rank = j
  BY DEF Ranked
<1>6. \A i \in DOMAIN found :
        /\ Len(found[i].hits) >= flags[r].topK
        /\ \A j \in DOMAIN found[i].hits : found[i].hits[j].id # EmptyId
  BY <1>4 DEF FP!ValidResult
<1>7. ArtifactOf(r, side) =
        [q \in {found[i].query : i \in DOMAIN found} |->
            FP!Fingerprint(found[CHOOSE i \in DOMAIN found : found[i].query = q].hits, flags[r])]
  BY DEF ArtifactOf, FP!Artifact
<1>8. {found[i].query : i \in DOMAIN found} = {Queries[i] : i \in DOMAIN Queries}
  BY <1>1, <1>3
<1>9. flags[r] \in FlagSet
  BY <1>1, FlagsShape
<1> HIDE DEF found
<1>10. ASSUME NEW i \in DOMAIN Queries
       PROVE  /\ ArtifactOf(r, side)[Queries[i]] = FP!Fingerprint(found[i].hits, flags[r])
              /\ ArtifactOf(r, side)[Queries[i]] \in Prints
  <2>1. (CHOOSE k \in DOMAIN found : found[k].query = Queries[i]) = i
    BY <1>1, <1>3, <1>4
  <2>2. ArtifactOf(r, side)[Queries[i]] = FP!Fingerprint(found[i].hits, flags[r])
    BY <1>7, <1>8, <2>1
  <2>3. FP!Fingerprint(found[i].hits, flags[r]) \in Prints
    BY <1>1, <1>3, <1>4, <1>5, <1>6, <1>9, FingerprintType
  <2>4. QED
    BY <2>2, <2>3
<1>11. DOMAIN ArtifactOf(r, side) = {Queries[i] : i \in DOMAIN Queries}
  BY <1>7, <1>8
<1>12. QED
  BY <1>1, <1>3, <1>5, <1>6, <1>10, <1>11 DEF found

-----------------------------------------------------------------------------
(* What a step leaves alone.  *)

\* Searching, building and comparing move no data and no migration.
LEMMA SearchesMoveNothing ==
  ASSUME TypeOK, NEW r \in Runners,
         (\E side \in Sides : SearchQuery(r, side) \/ BuildArtifact(r, side))
           \/ Compare(r) \/ StepFails(r)
  PROVE  UNCHANGED migrationVars /\ faults' \in Nat
<1>1. faults \in Nat
  BY DEF TypeOK
<1>2. QED
  BY <1>1 DEF SearchQuery, BuildArtifact, Compare, StepFails

\* What is known of the migrations holds through every step of the command.
LEMMA MigrationsGoOn ==
  ASSUME VerifyTypeOK, CompletenessInv, [VerifyNext]_allVars
  PROVE  TypeOK' /\ CompletenessInv'
<1>0. TypeOK
  BY DEF VerifyTypeOK
<1>1. CASE [Next]_vars
  BY <1>0, <1>1, TypeStep, CompletenessStep
<1>2. CASE UNCHANGED migrationVars /\ faults' \in Nat
  <2>1. TypeOK'
    BY <1>0, <1>2 DEF TypeOK, migrationVars, sourceVars, targetVars, runnerVars, auxVars
  <2>2. CompletenessInv'
    BY <1>2 DEF CompletenessInv, Fresh, Current, Counted, Covered, Finished, PartialRunIsPrefix,
                RowSet, migrationVars, sourceVars, targetVars, runnerVars, auxVars
  <2>3. QED
    BY <2>1, <2>2
<1>3. ASSUME NEW r \in Runners, StartRun(r) \/ Migrate(r) PROVE [Next]_vars
  BY <1>3 DEF StartRun, Migrate, Next, RunnerStep
<1>4. ASSUME OtherClients PROVE [Next]_vars
  BY <1>4 DEF Next
<1>5. CASE UNCHANGED allVars
  BY <1>1, <1>5 DEF allVars
<1>6. QED
  BY <1>0, <1>1, <1>2, <1>3, <1>4, <1>5, SearchesMoveNothing DEF VerifyNext

Same(r) ==
    /\ flags'[r] = flags[r] /\ stage'[r] = stage[r] /\ pc'[r] = pc[r]
    /\ results'[r] = results[r] /\ distance'[r] = distance[r]

\* Only data nobody else moved stays undisturbed.
Still(r) == undisturbed'[r] => undisturbed[r] /\ sawAll'[r] = sawAll[r] /\ UNCHANGED <<rows, table>>

RunOf(q) ==
    \/ StartRun(q) \/ Migrate(q)
    \/ \E side \in Sides : SearchQuery(q, side) \/ BuildArtifact(q, side)
    \/ Compare(q) \/ StepFails(q)

\* A step of the migration of another run.
LEMMA OtherMigrations ==
  ASSUME TypeOK, NEW q \in Runners, NEW r \in Runners, q # r,
         Start(q) \/ Progress(q) \/ UpsertAnswerLost(q) \/ Crash(q)
  PROVE  pc'[r] = pc[r] /\ Still(r)
<1>0. /\ pc \in [Runners -> Active \union Ended]
      /\ undisturbed \in [Runners -> BOOLEAN]
      /\ sawAll \in [Runners -> BOOLEAN]
  BY DEF TypeOK
<1> USE DEF Goto, Still, sourceVars, targetVars, runnerVars, auxVars
<1>1. CASE Start(q)
  BY <1>0, <1>1 DEF Start
<1>2. CASE CountRows(q)
  BY <1>0, <1>2 DEF CountRows
<1>3. CASE QueryRows(q)
  BY <1>0, <1>3 DEF QueryRows
<1>4. CASE Validate(q)
  BY <1>0, <1>4 DEF Validate
<1>5. CASE ConnectTarget(q)
  BY <1>0, <1>5 DEF ConnectTarget
<1>6. CASE UpsertNext(q)
  BY <1>0, <1>6 DEF UpsertNext, ApplyUpsert
<1>7. CASE UpsertAnswerLost(q)
  BY <1>0, <1>7 DEF UpsertAnswerLost, ApplyUpsert
<1>8. CASE Finish(q)
  BY <1>0, <1>8 DEF Finish
<1>9. CASE CallFails(q)
  BY <1>0, <1>9 DEF CallFails
<1>10. CASE Crash(q)
  BY <1>0, <1>10 DEF Crash
<1>11. QED
  BY <1>1, <1>2, <1>3, <1>4, <1>5, <1>6, <1>7, <1>8, <1>9, <1>10 DEF Progress

\* A step of one run is invisible to the others, but for the data it moves.
LEMMA OtherRuns ==
  ASSUME VerifyTypeOK, NEW q \in Runners, RunOf(q), NEW r \in Runners, q # r
  PROVE  Same(r) /\ Still(r)
<1>0. /\ TypeOK
      /\ flags \in [Runners -> Flags]
      /\ stage \in [Runners -> {"migrate", "compare"} \union Sides \union Closed]
      /\ results \in [Runners -> [Sides -> Seq(SearchResults)]]
  BY VerifyTypes
<1>1. CASE StartRun(q)
  <2>1. pc'[r] = pc[r] /\ Still(r)
    BY <1>0, <1>1, OtherMigrations DEF StartRun
  <2>2. flags'[r] = flags[r] /\ stage'[r] = stage[r] /\ results'[r] = results[r]
        /\ distance'[r] = distance[r]
    BY <1>0, <1>1 DEF StartRun, Enter
  <2>3. QED
    BY <2>1, <2>2 DEF Same
<1>2. CASE Migrate(q)
  <2>1. pc'[r] = pc[r] /\ Still(r)
    BY <1>0, <1>2, OtherMigrations DEF Migrate
  <2>2. stage'[r] = stage[r]
    <3> DEFINE label == CASE pc'[q] = "done" -> "source"
                          [] pc'[q] \in Active -> "migrate"
                          [] pc'[q] = "crashed" -> "killed"
                          [] OTHER -> "failed"
    <3>1. stage' = [stage EXCEPT ![q] = label]
      BY <1>2 DEF Migrate, Enter
    <3> HIDE DEF label
    <3>2. QED
      BY <3>1
  <2>3. UNCHANGED <<flags, results, distance>>
    BY <1>2 DEF Migrate
  <2>4. QED
    BY <2>1, <2>2, <2>3 DEF Same
<1>3. ASSUME UNCHANGED migrationVars PROVE pc'[r] = pc[r] /\ Still(r)
  BY <1>3 DEF migrationVars, sourceVars, targetVars, runnerVars, auxVars, Still
<1>4. ASSUME NEW side \in Sides, SearchQuery(q, side) PROVE Same(r) /\ Still(r)
  BY <1>0, <1>3, <1>4 DEF SearchQuery, Same
<1>5. ASSUME NEW side \in Sides, BuildArtifact(q, side) PROVE Same(r) /\ Still(r)
  BY <1>0, <1>3, <1>5 DEF BuildArtifact, Enter, Same
<1>6. CASE Compare(q)
  <2>1. pc'[r] = pc[r] /\ Still(r) /\ UNCHANGED <<flags, results>>
    BY <1>3, <1>6 DEF Compare
  <2>2. stage'[r] = stage[r] /\ distance'[r] = distance[r]
    BY <1>0, <1>6 DEF Compare, Enter
  <2>3. QED
    BY <2>1, <2>2 DEF Same
<1>7. CASE StepFails(q)
  BY <1>0, <1>3, <1>7 DEF StepFails, Enter, Same
<1>8. QED
  BY <1>1, <1>2, <1>4, <1>5, <1>6, <1>7 DEF RunOf

\* Other clients and stuttering touch no run.
LEMMA OtherClientsOnly ==
  ASSUME TypeOK, (OtherClients /\ UNCHANGED verifyVars) \/ UNCHANGED allVars, NEW r \in Runners
  PROVE  Same(r) /\ Still(r) /\ UNCHANGED verifyVars
<1> USE DEF verifyVars, Same, Still, sourceVars, targetVars, runnerVars, auxVars
<1>1. CASE SourceInsert /\ UNCHANGED verifyVars
  BY <1>1 DEF SourceInsert, RowsBecome
<1>2. CASE SourceUpdate /\ UNCHANGED verifyVars
  BY <1>2 DEF SourceUpdate, RowsBecome
<1>3. CASE SourceFlush /\ UNCHANGED verifyVars
  BY <1>3 DEF SourceFlush
<1>4. CASE UNCHANGED allVars
  BY <1>4 DEF allVars, vars
<1>5. QED
  BY <1>1, <1>2, <1>3, <1>4 DEF OtherClients

-----------------------------------------------------------------------------
(* Every step keeps what a run knows.  *)

\* A step of somebody else keeps it.
LEMMA SameKeeps ==
  ASSUME NEW r \in Runners, RunInv(r), Same(r), Still(r)
  PROVE  RunInv(r)'
<1>1. Staged(r) /\ Built(r) /\ Ranked(r) /\ Compared(r) /\ Truthful(r)
  BY DEF RunInv
<1>2. /\ flags'[r] = flags[r] /\ stage'[r] = stage[r] /\ pc'[r] = pc[r]
      /\ results'[r] = results[r] /\ distance'[r] = distance[r]
  BY DEF Same
<1>3. Staged(r)'
  BY <1>1, <1>2 DEF Staged
<1>4. Built(r)'
  <2>1. \A side \in Sides : CanBuild(r, side)' <=> CanBuild(r, side)
    BY <1>2 DEF CanBuild
  <2>2. QED
    BY <1>1, <1>2, <2>1 DEF Built
<1>5. Ranked(r)'
  BY <1>1, <1>2 DEF Ranked
<1>6. Compared(r)'
  <2>1. \A side \in Sides : ArtifactOf(r, side)' = ArtifactOf(r, side)
    BY <1>2 DEF ArtifactOf
  <2>2. QED
    BY <1>1, <1>2, <2>1 DEF Compared, Sides
<1>7. Truthful(r)'
  <2> SUFFICES ASSUME stage'[r] \in After, undisturbed'[r] PROVE Truthful(r)'
    BY DEF Truthful
  <2>1. /\ undisturbed[r] /\ sawAll'[r] = sawAll[r] /\ rows' = rows /\ table' = table
        /\ stage[r] \in After
    BY <1>2 DEF Still
  <2>2. RowSet' = RowSet /\ (UniqueIds' <=> UniqueIds) /\ WithVector(r)' = WithVector(r)
    BY <1>2, <2>1 DEF RowSet, UniqueIds, WithVector, Searched
  <2>3. /\ \A i \in DOMAIN results[r]["source"] : \E S \in SUBSET RowSet :
            (sawAll[r] /\ UniqueIds => S = RowSet) /\ AnswerOver(r, "source", i, S)
        /\ \A i \in DOMAIN results[r]["target"] : AnswerOver(r, "target", i, WithVector(r))
    BY <1>1, <2>1 DEF Truthful
  <2>4. QED
    BY <1>2, <2>1, <2>2, <2>3 DEF Truthful, AnswerOver
<1>8. QED
  BY <1>3, <1>4, <1>5, <1>6, <1>7 DEF RunInv

\* A new run knows nothing yet.
LEMMA StartKeeps ==
  ASSUME VerifyInv, NEW r \in Runners, StartRun(r)
  PROVE  RunInv(r)'
<1>0. /\ pc \in [Runners -> Active \union Ended]
      /\ flags \in [Runners -> Flags]
      /\ stage \in [Runners -> {"migrate", "compare"} \union Sides \union Closed]
      /\ results \in [Runners -> [Sides -> Seq(SearchResults)]]
  BY VerifyTypes DEF VerifyInv, TypeOK
<1>1. PICK f \in Flags : ValidFlags(f) /\ flags' = [flags EXCEPT ![r] = f]
  BY DEF StartRun
<1>2. /\ stage'[r] = "migrate" /\ results'[r] = NoResults /\ pc'[r] = "count"
      /\ flags'[r] = f
  BY <1>0, <1>1 DEF StartRun, Enter, Start, Goto
<1>3. Staged(r)'
  <2>1. "migrate" \notin After /\ "count" \in Active
    BY DEF After, Active
  <2>2. QED
    BY <1>1, <1>2, <2>1 DEF Staged, ValidFlags, FP!ValidOptions
<1>4. Built(r)' /\ Compared(r)' /\ Truthful(r)'
  BY <1>2 DEF Built, Compared, Truthful, After
<1>5. Ranked(r)'
  BY <1>2 DEF Ranked, NoResults
<1>6. QED
  BY <1>3, <1>4, <1>5 DEF RunInv

\* While a run migrates there is nothing to know; it goes on when it is done.
LEMMA MigrateKeeps ==
  ASSUME VerifyInv, NEW r \in Runners, Migrate(r)
  PROVE  RunInv(r)'
<1>0. stage \in [Runners -> {"migrate", "compare"} \union Sides \union Closed]
  BY VerifyTypes DEF VerifyInv
<1>1. Staged(r) /\ stage[r] = "migrate" /\ results[r] = NoResults /\ ValidFlags(flags[r])
  BY DEF VerifyInv, RunInv, Staged, Migrate
<1>2. UNCHANGED <<flags, results, distance>>
  BY DEF Migrate
<1>3. \/ stage'[r] = "source" /\ pc'[r] = "done"
      \/ stage'[r] = "migrate" /\ pc'[r] \in Active
      \/ stage'[r] \in {"killed", "failed"}
  <2> DEFINE label == CASE pc'[r] = "done" -> "source"
                        [] pc'[r] \in Active -> "migrate"
                        [] pc'[r] = "crashed" -> "killed"
                        [] OTHER -> "failed"
  <2>1. stage' = [stage EXCEPT ![r] = label]
    BY DEF Migrate, Enter
  <2>2. stage'[r] = label
    BY <1>0, <2>1
  <2>3. "done" \notin Active /\ "crashed" \notin Active
    BY DEF Active
  <2>4. QED
    BY <2>2, <2>3
<1>4. Staged(r)'
  BY <1>1, <1>2, <1>3 DEF Staged, After, ValidFlags, FP!ValidOptions
<1>5. Built(r)' /\ Compared(r)'
  BY <1>3 DEF Built, Compared
<1>6. Ranked(r)'
  BY <1>1, <1>2 DEF Ranked, NoResults
<1>7. Truthful(r)'
  <2>1. DOMAIN results'[r]["source"] = {} /\ DOMAIN results'[r]["target"] = {}
    BY <1>1, <1>2 DEF NoResults, Sides
  <2>2. QED
    BY <2>1 DEF Truthful
<1>8. QED
  BY <1>4, <1>5, <1>6, <1>7 DEF RunInv

\* What a search does to the list of its side.
LEMMA SearchEffect ==
  ASSUME VerifyInv, NEW r \in Runners, NEW side \in Sides, SearchQuery(r, side)
  PROVE  /\ \E pick \in Answered(r, side, NextQuery(r, side)), entry \in SearchResults :
              /\ entry = [query |-> NextQuery(r, side), hits |-> Hits(pick)]
              /\ \A j \in DOMAIN entry.hits : entry.hits[j].rank = j
              /\ results' = [results EXCEPT ![r][side] = Append(@, entry)]
              /\ results'[r][side] = Append(results[r][side], entry)
         /\ \A other \in Sides : other # side => results'[r][other] = results[r][other]
         /\ NextQuery(r, side) \in QueryIds
         /\ Len(results[r][side]) + 1 <= Len(Queries)
         /\ stage[r] = side /\ ValidFlags(flags[r])
         /\ UNCHANGED <<migrationVars, flags, stage, distance>>
<1>0. /\ results \in [Runners -> [Sides -> Seq(SearchResults)]]
      /\ Len(results[r][side]) \in Nat
      /\ VerifyTypeOK
  BY VerifyTypes DEF VerifyInv
<1>1. /\ stage[r] = side /\ Len(results[r][side]) < Len(Queries)
      /\ UNCHANGED <<migrationVars, flags, stage, distance>>
  BY DEF SearchQuery, Unsearched
<1>2. Queries \in Seq(QueryIds) /\ Len(Queries) \in Nat
  BY VerifyAssumption
<1>3. NextQuery(r, side) \in QueryIds /\ Len(results[r][side]) + 1 <= Len(Queries)
  <2>1. Len(results[r][side]) + 1 \in 1..Len(Queries)
    BY <1>0, <1>1, <1>2
  <2>2. QED
    BY <1>2, <2>1 DEF NextQuery
<1>4. ValidFlags(flags[r])
  BY <1>1 DEF VerifyInv, RunInv, Staged, Sides
<1>5. PICK pick \in Answered(r, side, NextQuery(r, side)) :
        results' = [results EXCEPT ![r][side] =
                        Append(@, [query |-> NextQuery(r, side), hits |-> Hits(pick)])]
  BY DEF SearchQuery
<1> DEFINE entry == [query |-> NextQuery(r, side), hits |-> Hits(pick)]
<1>6. Hits(pick) \in Seq(Hit) /\ \A j \in DOMAIN Hits(pick) : Hits(pick)[j].rank = j
  BY <1>0, <1>3, <1>4, AnswerShape
<1>7. entry \in SearchResults /\ entry.hits = Hits(pick)
  BY <1>3, <1>6 DEF SearchResults
<1>8. results' = [results EXCEPT ![r][side] = Append(@, entry)]
  BY <1>5
<1> HIDE DEF entry
<1>9. results'[r][side] = Append(results[r][side], entry)
  BY <1>0, <1>8
<1>10. \A other \in Sides : other # side => results'[r][other] = results[r][other]
  BY <1>0, <1>8
<1>11. entry = [query |-> NextQuery(r, side), hits |-> Hits(pick)]
  BY DEF entry
<1>12. \A j \in DOMAIN entry.hits : entry.hits[j].rank = j
  BY <1>6, <1>7
<1>13. QED
  BY <1>1, <1>3, <1>4, <1>7, <1>8, <1>9, <1>10, <1>11, <1>12

\* A search adds an answer that is true of its side at that moment.
LEMMA SearchKeeps ==
  ASSUME VerifyInv, NEW r \in Runners, NEW side \in Sides, SearchQuery(r, side)
  PROVE  RunInv(r)'
<1>0. /\ VerifyTypeOK /\ CompletenessInv
      /\ Staged(r) /\ Built(r) /\ Ranked(r) /\ Compared(r) /\ Truthful(r)
  BY DEF VerifyInv, RunInv
<1>1. PICK pick \in Answered(r, side, NextQuery(r, side)), entry \in SearchResults :
        /\ entry = [query |-> NextQuery(r, side), hits |-> Hits(pick)]
        /\ \A j \in DOMAIN entry.hits : entry.hits[j].rank = j
        /\ results' = [results EXCEPT ![r][side] = Append(@, entry)]
        /\ results'[r][side] = Append(results[r][side], entry)
  BY SearchEffect
<1>2. /\ \A other \in Sides : other # side => results'[r][other] = results[r][other]
      /\ NextQuery(r, side) \in QueryIds
      /\ stage[r] = side /\ ValidFlags(flags[r])
      /\ flags' = flags /\ stage' = stage /\ distance' = distance
      /\ UNCHANGED migrationVars
  BY SearchEffect
<1>3. UNCHANGED <<pc, rows, flushed, table, undisturbed, sawAll>>
  BY <1>2 DEF migrationVars, sourceVars, targetVars, runnerVars, auxVars
<1>4. /\ results[r][side] \in Seq(SearchResults)
      /\ Len(results[r][side]) \in Nat
      /\ DOMAIN results[r][side] = 1..Len(results[r][side])
  BY <1>0, VerifyTypes
<1> DEFINE n == Len(results[r][side])
<1>5. /\ DOMAIN results'[r][side] = 1..(n + 1)
      /\ results'[r][side][n + 1] = entry
      /\ \A i \in 1..n : results'[r][side][i] = results[r][side][i]
      /\ n \in Nat
  BY <1>1, <1>4
<1>6. \A i \in DOMAIN results'[r][side] : i \in DOMAIN results[r][side] \/ i = n + 1
  BY <1>4, <1>5
<1>7. Staged(r)'
  BY <1>0, <1>2, <1>3 DEF Staged, Sides
<1>8. Built(r)'
  <2> SUFFICES ASSUME NEW other \in Sides,
                      \/ stage'[r] \in {"compare", "scored"}
                      \/ other = "source" /\ stage'[r] = "target"
               PROVE  Len(results'[r][other]) = Len(Queries) /\ CanBuild(r, other)'
    BY DEF Built
  <2>1. side = "target" /\ other = "source" /\ stage[r] = "target"
    BY <1>2 DEF Sides
  <2>2. results'[r][other] = results[r][other] /\ flags'[r] = flags[r]
    BY <1>2, <2>1
  <2>3. Len(results[r][other]) = Len(Queries) /\ CanBuild(r, other)
    BY <1>0, <2>1 DEF Built
  <2>4. CanBuild(r, other)' <=> CanBuild(r, other)
    BY <2>2 DEF CanBuild
  <2>5. QED
    BY <2>2, <2>3, <2>4
<1>9. Ranked(r)'
  <2> SUFFICES ASSUME NEW other \in Sides, NEW i \in DOMAIN results'[r][other],
                      NEW j \in DOMAIN results'[r][other][i].hits
               PROVE  results'[r][other][i].hits[j].rank = j
    BY DEF Ranked
  <2>1. CASE other # side
    BY <1>0, <1>2, <2>1 DEF Ranked
  <2>2. CASE other = side
    <3>1. CASE i \in DOMAIN results[r][side]
      BY <1>0, <1>4, <1>5, <2>2, <3>1 DEF Ranked
    <3>2. CASE i = n + 1
      BY <1>1, <1>5, <2>2, <3>2
    <3>3. QED
      BY <1>6, <2>2, <3>1, <3>2
  <2>3. QED
    BY <2>1, <2>2
<1>10. Compared(r)'
  BY <1>2 DEF Compared, Sides
<1>11. /\ Queries[n + 1] = NextQuery(r, side)
       /\ entry.hits = Hits(pick)
  BY <1>1 DEF NextQuery
<1> HIDE DEF n
<1>12. Truthful(r)'
  <2> SUFFICES ASSUME stage'[r] \in After, undisturbed'[r] PROVE Truthful(r)'
    BY DEF Truthful
  <2> DEFINE far == Far[flags[r].metric][NextQuery(r, side)]
  <2>1. RowSet' = RowSet /\ (UniqueIds' <=> UniqueIds) /\ WithVector(r)' = WithVector(r)
        /\ flags'[r] = flags[r] /\ sawAll'[r] = sawAll[r]
    BY <1>2, <1>3 DEF RowSet, UniqueIds, WithVector, Searched
  <2>2. /\ \A i \in DOMAIN results[r]["source"] : \E S \in SUBSET RowSet :
            (sawAll[r] /\ UniqueIds => S = RowSet) /\ AnswerOver(r, "source", i, S)
        /\ \A i \in DOMAIN results[r]["target"] : AnswerOver(r, "target", i, WithVector(r))
    BY <1>0, <1>2, <1>3 DEF Truthful
  <2>3. /\ side = "source" => \E S \in Findable : pick \in Nearest(S, flags[r].expandK, far)
        /\ side = "target" => pick \in Nearest(WithVector(r), flags[r].expandK, far)
    BY <1>0, <1>2, AnswerShape
  <2>4. ASSUME NEW i \in DOMAIN results'[r]["source"]
        PROVE  \E S \in SUBSET RowSet :
                 /\ sawAll[r] /\ UniqueIds => S = RowSet
                 /\ \E found \in Nearest(S, flags[r].expandK, Far[flags[r].metric][Queries[i]]) :
                        results'[r]["source"][i].hits = Hits(found)
    <3>1. CASE side = "source" /\ i = n + 1
      <4>1. PICK S \in Findable : pick \in Nearest(S, flags[r].expandK, far)
        BY <2>3, <3>1
      <4>2. S \in SUBSET RowSet
        BY DEF Findable
      <4>3. sawAll[r] /\ UniqueIds => S = RowSet
        <5>1. sawAll[r] => flushed = Len(rows)
          BY <1>0, <1>3 DEF CompletenessInv, Counted
        <5>2. QED
          BY <1>0, <5>1, AllFindable
      <4>4. results'[r]["source"][i].hits = Hits(pick) /\ Queries[i] = NextQuery(r, side)
        BY <1>5, <1>11, <3>1
      <4>5. QED
        BY <4>1, <4>2, <4>3, <4>4
    <3>2. CASE ~(side = "source" /\ i = n + 1)
      <4>1. i \in DOMAIN results[r]["source"]
            /\ results'[r]["source"][i] = results[r]["source"][i]
        BY <1>2, <1>4, <1>5, <1>6, <3>2 DEF n, Sides
      <4>2. QED
        BY <2>2, <4>1 DEF AnswerOver
    <3>3. QED
      BY <3>1, <3>2
  <2>5. ASSUME NEW i \in DOMAIN results'[r]["target"]
        PROVE  \E found \in Nearest(WithVector(r), flags[r].expandK,
                                    Far[flags[r].metric][Queries[i]]) :
                   results'[r]["target"][i].hits = Hits(found)
    <3>1. CASE side = "target" /\ i = n + 1
      BY <1>5, <1>11, <2>3, <3>1
    <3>2. CASE ~(side = "target" /\ i = n + 1)
      <4>1. i \in DOMAIN results[r]["target"]
            /\ results'[r]["target"][i] = results[r]["target"][i]
        BY <1>2, <1>4, <1>5, <1>6, <3>2 DEF n, Sides
      <4>2. QED
        BY <2>2, <4>1 DEF AnswerOver
    <3>3. QED
      BY <3>1, <3>2
  <2>6. QED
    BY <2>1, <2>4, <2>5 DEF Truthful, AnswerOver
<1>13. QED
  BY <1>7, <1>8, <1>9, <1>10, <1>12 DEF RunInv

\* When nothing but the stage changes, a run knows what it knew.
LEMMA StageKeeps ==
  ASSUME NEW r \in Runners, RunInv(r), UNCHANGED <<migrationVars, flags, results>>
  PROVE  /\ Ranked(r)'
         /\ \A side \in Sides : CanBuild(r, side)' <=> CanBuild(r, side)
         /\ \A side \in Sides : ArtifactOf(r, side)' = ArtifactOf(r, side)
         /\ stage[r] \in After => Truthful(r)'
         /\ pc'[r] = pc[r] /\ ValidFlags(flags[r])' = ValidFlags(flags[r])
<1>0. Ranked(r) /\ Truthful(r)
  BY DEF RunInv
<1>1. /\ UNCHANGED <<pc, rows, table, undisturbed, sawAll>>
      /\ flags' = flags /\ results' = results
  BY DEF migrationVars, sourceVars, targetVars, runnerVars, auxVars
<1>2. /\ Ranked(r)'
      /\ \A side \in Sides : CanBuild(r, side)' <=> CanBuild(r, side)
      /\ \A side \in Sides : ArtifactOf(r, side)' = ArtifactOf(r, side)
      /\ pc'[r] = pc[r] /\ ValidFlags(flags[r])' = ValidFlags(flags[r])
  BY <1>0, <1>1 DEF Ranked, CanBuild, ArtifactOf, ValidFlags, FP!ValidOptions
<1>3. ASSUME stage[r] \in After PROVE Truthful(r)'
  <2>1. RowSet' = RowSet /\ (UniqueIds' <=> UniqueIds) /\ WithVector(r)' = WithVector(r)
    BY <1>1 DEF RowSet, UniqueIds, WithVector, Searched
  <2>2. undisturbed[r] =>
            /\ \A i \in DOMAIN results[r]["source"] : \E S \in SUBSET RowSet :
                (sawAll[r] /\ UniqueIds => S = RowSet) /\ AnswerOver(r, "source", i, S)
            /\ \A i \in DOMAIN results[r]["target"] : AnswerOver(r, "target", i, WithVector(r))
    BY <1>0, <1>3 DEF Truthful
  <2>3. QED
    BY <1>1, <2>1, <2>2 DEF Truthful, AnswerOver
<1>4. QED
  BY <1>2, <1>3

\* A side is left for the next one once its artifact is built.
LEMMA BuildKeeps ==
  ASSUME VerifyInv, NEW r \in Runners, NEW side \in Sides, BuildArtifact(r, side)
  PROVE  RunInv(r)'
<1>0. /\ stage \in [Runners -> {"migrate", "compare"} \union Sides \union Closed]
      /\ Len(results[r][side]) \in Nat
      /\ Len(results[r][side]) <= Len(Queries)
      /\ RunInv(r)
  BY VerifyTypes DEF VerifyInv
<1>1. /\ stage[r] = side /\ ~(Len(results[r][side]) < Len(Queries)) /\ CanBuild(r, side)
      /\ UNCHANGED <<migrationVars, flags, results, distance>>
  BY DEF BuildArtifact, Unsearched
<1>2. stage'[r] = IF side = "source" THEN "target" ELSE "compare"
  BY <1>0 DEF BuildArtifact, Enter
<1>3. /\ Ranked(r)' /\ Truthful(r)' /\ pc'[r] = pc[r]
      /\ \A other \in Sides : CanBuild(r, other)' <=> CanBuild(r, other)
      /\ ValidFlags(flags[r])' = ValidFlags(flags[r])
  BY <1>0, <1>1, StageKeeps DEF After, Sides
<1>4. Len(Queries) \in Nat
  BY VerifyAssumption
<1>5. Len(results[r][side]) = Len(Queries)
  BY <1>0, <1>1, <1>4
<1>6. Staged(r)'
  BY <1>0, <1>1, <1>2, <1>3 DEF RunInv, Staged, After, Sides
<1>7. Built(r)'
  <2>1. \A other \in Sides :
            stage'[r] = "compare" \/ (other = "source" /\ stage'[r] = "target") =>
                Len(results[r][other]) = Len(Queries) /\ CanBuild(r, other)
    <3>1. CASE side = "source"
      BY <1>1, <1>2, <1>5, <3>1
    <3>2. CASE side = "target"
      BY <1>0, <1>1, <1>5, <3>2 DEF RunInv, Built, Sides
    <3>3. QED
      BY <3>1, <3>2 DEF Sides
  <2>2. stage'[r] # "scored"
    BY <1>2
  <2>3. QED
    BY <1>1, <1>3, <2>1, <2>2 DEF Built
<1>8. Compared(r)'
  BY <1>2 DEF Compared
<1>9. QED
  BY <1>3, <1>6, <1>7, <1>8 DEF RunInv

\* The score is that of the two artifacts.
LEMMA CompareKeeps ==
  ASSUME VerifyInv, NEW r \in Runners, Compare(r)
  PROVE  /\ RunInv(r)'
         /\ distance'[r] \in Distances
<1>0. /\ stage \in [Runners -> {"migrate", "compare"} \union Sides \union Closed]
      /\ distance \in [Runners -> Distances \union {NoDistance}]
      /\ VerifyTypeOK
      /\ RunInv(r)
  BY VerifyTypes DEF VerifyInv
<1> DEFINE score == [q \in DOMAIN ArtifactOf(r, "source") |->
                        QueryDistance(ArtifactOf(r, "source")[q], ArtifactOf(r, "target")[q])]
<1>1. /\ stage[r] = "compare"
      /\ distance' = [distance EXCEPT ![r] = score]
      /\ UNCHANGED <<migrationVars, flags, results>>
  BY DEF Compare
<1>2. stage'[r] = "scored"
  BY <1>0 DEF Compare, Enter
<1>3. distance'[r] = score
  BY <1>0, <1>1
<1>4. /\ Ranked(r)' /\ Truthful(r)' /\ pc'[r] = pc[r]
      /\ \A other \in Sides : CanBuild(r, other)' <=> CanBuild(r, other)
      /\ \A other \in Sides : ArtifactOf(r, other)' = ArtifactOf(r, other)
      /\ ValidFlags(flags[r])' = ValidFlags(flags[r])
  BY <1>0, <1>1, StageKeeps DEF After
<1>5. Staged(r)'
  BY <1>0, <1>1, <1>2, <1>4 DEF RunInv, Staged, After
<1>6. \A side \in Sides : Len(results[r][side]) = Len(Queries) /\ CanBuild(r, side)
  BY <1>0, <1>1 DEF RunInv, Built
<1>7. Built(r)'
  BY <1>1, <1>4, <1>6 DEF Built
<1>8. Compared(r)'
  BY <1>2, <1>3, <1>4 DEF Compared, Sides
<1>9. score \in Distances
  <2>1. Ranked(r) /\ ValidFlags(flags[r])
    BY <1>0, <1>1 DEF RunInv, Staged
  <2>2. /\ DOMAIN ArtifactOf(r, "source") = {Queries[i] : i \in DOMAIN Queries}
        /\ \A i \in DOMAIN Queries : ArtifactOf(r, "source")[Queries[i]] \in Prints
    BY <1>0, <1>6, <2>1, BuiltArtifact DEF Sides
  <2>3. \A i \in DOMAIN Queries : ArtifactOf(r, "target")[Queries[i]] \in Prints
    BY <1>0, <1>6, <2>1, BuiltArtifact DEF Sides
  <2>4. \A q \in DOMAIN ArtifactOf(r, "source") :
            QueryDistance(ArtifactOf(r, "source")[q], ArtifactOf(r, "target")[q]) \in Nat
    BY <2>2, <2>3, QueryDistanceShape
  <2>5. QED
    BY <2>2, <2>4 DEF Distances
<1>10. QED
  BY <1>3, <1>4, <1>5, <1>7, <1>8, <1>9 DEF RunInv

\* A run that fails knows nothing any more.
LEMMA FailKeeps ==
  ASSUME VerifyInv, NEW r \in Runners, StepFails(r)
  PROVE  RunInv(r)' /\ stage'[r] \in {"failed", "killed"}
<1>0. /\ stage \in [Runners -> {"migrate", "compare"} \union Sides \union Closed]
      /\ RunInv(r)
  BY VerifyTypes DEF VerifyInv
<1>1. /\ stage[r] \in Sides \union {"compare"}
      /\ UNCHANGED <<migrationVars, flags, results, distance>>
  BY DEF StepFails
<1>2. stage'[r] \in {"failed", "killed"}
  BY <1>0 DEF StepFails, Enter
<1>3. Ranked(r)' /\ ValidFlags(flags[r])' = ValidFlags(flags[r])
  BY <1>0, <1>1, StageKeeps
<1>4. Staged(r)'
  BY <1>0, <1>1, <1>2, <1>3 DEF RunInv, Staged, After, Sides
<1>5. Built(r)' /\ Compared(r)' /\ Truthful(r)'
  BY <1>2 DEF Built, Compared, Truthful, After
<1>6. QED
  BY <1>2, <1>3, <1>4, <1>5 DEF RunInv

\* The command's part of the type invariant, as one statement per variable.
CommandTypes ==
    /\ flags \in [Runners -> Flags]
    /\ stage \in [Runners -> {"migrate", "compare"} \union Sides \union Closed]
    /\ results \in [Runners -> [Sides -> Seq(SearchResults)]]
    /\ \A r \in Runners : \A side \in Sides :
        /\ Len(results[r][side]) <= Len(Queries)
        /\ \A i \in DOMAIN results[r][side] : results[r][side][i].query = Queries[i]
    /\ distance \in [Runners -> Distances \union {NoDistance}]
    /\ \A r \in Runners : distance[r] \in (IF stage[r] = "scored" THEN Distances ELSE {NoDistance})

\* Every step keeps the types.
LEMMA CommandTypesStep ==
  ASSUME VerifyInv, [VerifyNext]_allVars
  PROVE  CommandTypes'
<1>0. CommandTypes /\ VerifyTypeOK
  BY DEF VerifyInv, VerifyTypeOK, CommandTypes, SearchResults, Hit
<1> USE DEF CommandTypes
<1>1. ASSUME NEW r \in Runners, StartRun(r) PROVE CommandTypes'
  <2>1. PICK f \in Flags : flags' = [flags EXCEPT ![r] = f]
    BY <1>1 DEF StartRun
  <2>2. /\ stage' = [stage EXCEPT ![r] = "migrate"]
        /\ results' = [results EXCEPT ![r] = NoResults]
        /\ distance' = [distance EXCEPT ![r] = NoDistance]
    BY <1>1 DEF StartRun, Enter
  <2>3. NoResults \in [Sides -> Seq(SearchResults)]
        /\ \A side \in Sides : NoResults[side] = << >>
    BY DEF NoResults
  <2>4. flags' \in [Runners -> Flags]
        /\ stage' \in [Runners -> {"migrate", "compare"} \union Sides \union Closed]
        /\ results' \in [Runners -> [Sides -> Seq(SearchResults)]]
        /\ distance' \in [Runners -> Distances \union {NoDistance}]
    BY <1>0, <2>1, <2>2, <2>3
  <2>5. \A q \in Runners : \A side \in Sides :
            results'[q][side] = IF q = r THEN << >> ELSE results[q][side]
    BY <1>0, <2>2, <2>3
  <2>6. \A q \in Runners : \A side \in Sides :
            /\ Len(results'[q][side]) <= Len(Queries)
            /\ \A i \in DOMAIN results'[q][side] : results'[q][side][i].query = Queries[i]
    <3>1. Len(Queries) \in Nat
      BY VerifyAssumption
    <3>2. Len(<< >>) = 0 /\ DOMAIN << >> = {}
      OBVIOUS
    <3>3. QED
      BY <1>0, <2>5, <3>1, <3>2
  <2>7. \A q \in Runners :
            distance'[q] \in (IF stage'[q] = "scored" THEN Distances ELSE {NoDistance})
    BY <1>0, <2>2
  <2>8. QED
    BY <2>4, <2>6, <2>7
<1>2. ASSUME NEW r \in Runners, Migrate(r) PROVE CommandTypes'
  <2>1. stage'[r] \in {"source", "migrate", "killed", "failed"} /\ stage[r] = "migrate"
        /\ stage' = [stage EXCEPT ![r] = stage'[r]]
    <3> DEFINE label == CASE pc'[r] = "done" -> "source"
                          [] pc'[r] \in Active -> "migrate"
                          [] pc'[r] = "crashed" -> "killed"
                          [] OTHER -> "failed"
    <3>1. stage' = [stage EXCEPT ![r] = label] /\ stage[r] = "migrate"
      BY <1>2 DEF Migrate, Enter
    <3>2. label \in {"source", "migrate", "killed", "failed"}
      OBVIOUS
    <3> HIDE DEF label
    <3>3. QED
      BY <1>0, <3>1, <3>2
  <2>2. UNCHANGED <<flags, results, distance>>
    BY <1>2 DEF Migrate
  <2>3. stage' \in [Runners -> {"migrate", "compare"} \union Sides \union Closed]
    BY <1>0, <2>1 DEF Sides, Closed
  <2>4. QED
    BY <1>0, <2>1, <2>2, <2>3
<1>3. ASSUME NEW r \in Runners, NEW side \in Sides, SearchQuery(r, side) PROVE CommandTypes'
  <2>1. PICK pick \in Answered(r, side, NextQuery(r, side)), entry \in SearchResults :
          /\ entry = [query |-> NextQuery(r, side), hits |-> Hits(pick)]
          /\ \A j \in DOMAIN entry.hits : entry.hits[j].rank = j
          /\ results' = [results EXCEPT ![r][side] = Append(@, entry)]
          /\ results'[r][side] = Append(results[r][side], entry)
    BY <1>3, SearchEffect
  <2>2. /\ Len(results[r][side]) + 1 <= Len(Queries)
        /\ UNCHANGED <<flags, stage, distance>>
    BY <1>3, SearchEffect
  <2>3. /\ results[r][side] \in Seq(SearchResults)
        /\ Len(results[r][side]) \in Nat
        /\ DOMAIN results[r][side] = 1..Len(results[r][side])
    BY <1>0, VerifyTypes
  <2>4. /\ Append(results[r][side], entry) \in Seq(SearchResults)
        /\ Len(Append(results[r][side], entry)) = Len(results[r][side]) + 1
        /\ \A i \in DOMAIN Append(results[r][side], entry) :
              \/ /\ i \in DOMAIN results[r][side]
                 /\ Append(results[r][side], entry)[i] = results[r][side][i]
              \/ i = Len(results[r][side]) + 1 /\ Append(results[r][side], entry)[i] = entry
    BY <2>3
  <2>5. results' \in [Runners -> [Sides -> Seq(SearchResults)]]
    BY <1>0, <2>1, <2>4
  <2>6. \A q \in Runners : \A other \in Sides :
            q # r \/ other # side => results'[q][other] = results[q][other]
    BY <1>0, <2>1
  <2>7. Len(results'[r][side]) <= Len(Queries)
    BY <2>1, <2>2, <2>4
  <2>8. \A i \in DOMAIN results'[r][side] : results'[r][side][i].query = Queries[i]
    <3>1. entry.query = Queries[Len(results[r][side]) + 1]
      BY <2>1 DEF NextQuery
    <3>2. QED
      BY <1>0, <2>1, <2>4, <3>1
  <2>9. \A q \in Runners : \A other \in Sides :
            /\ Len(results'[q][other]) <= Len(Queries)
            /\ \A i \in DOMAIN results'[q][other] : results'[q][other][i].query = Queries[i]
    <3> SUFFICES ASSUME NEW q \in Runners, NEW other \in Sides
                 PROVE  /\ Len(results'[q][other]) <= Len(Queries)
                        /\ \A i \in DOMAIN results'[q][other] :
                              results'[q][other][i].query = Queries[i]
      OBVIOUS
    <3>1. CASE q # r \/ other # side
      <4>1. results'[q][other] = results[q][other]
        BY <2>6, <3>1
      <4>2. /\ Len(results[q][other]) <= Len(Queries)
            /\ \A i \in DOMAIN results[q][other] : results[q][other][i].query = Queries[i]
        BY <1>0
      <4>3. QED
        BY <4>1, <4>2
    <3>2. CASE q = r /\ other = side
      BY <2>7, <2>8, <3>2
    <3>3. QED
      BY <3>1, <3>2
  <2>10. QED
    BY <1>0, <2>2, <2>5, <2>9
<1>4. ASSUME NEW r \in Runners, NEW side \in Sides, BuildArtifact(r, side) PROVE CommandTypes'
  <2>1. /\ stage' = [stage EXCEPT ![r] = IF side = "source" THEN "target" ELSE "compare"]
        /\ stage[r] = side
        /\ UNCHANGED <<flags, results, distance>>
    BY <1>4 DEF BuildArtifact, Enter
  <2>2. stage' \in [Runners -> {"migrate", "compare"} \union Sides \union Closed]
    BY <1>0, <2>1 DEF Sides
  <2>3. \A q \in Runners : stage'[q] = "scored" <=> stage[q] = "scored"
    BY <1>0, <2>1 DEF Sides
  <2>4. QED
    BY <1>0, <2>1, <2>2, <2>3
<1>5. ASSUME NEW r \in Runners, Compare(r) PROVE CommandTypes'
  <2>1. /\ stage' = [stage EXCEPT ![r] = "scored"]
        /\ distance' = [distance EXCEPT ![r] = distance'[r]]
        /\ UNCHANGED <<flags, results>>
    BY <1>0, <1>5 DEF Compare, Enter
  <2>2. distance'[r] \in Distances
    BY <1>5, CompareKeeps
  <2>3. stage' \in [Runners -> {"migrate", "compare"} \union Sides \union Closed]
    BY <1>0, <2>1 DEF Closed
  <2>4. distance' \in [Runners -> Distances \union {NoDistance}]
    BY <1>0, <2>1, <2>2
  <2>5. \A q \in Runners :
            distance'[q] \in (IF stage'[q] = "scored" THEN Distances ELSE {NoDistance})
    BY <1>0, <2>1, <2>2
  <2>6. QED
    BY <1>0, <2>1, <2>3, <2>4, <2>5
<1>6. ASSUME NEW r \in Runners, StepFails(r) PROVE CommandTypes'
  <2>1. PICK end \in {"failed", "killed"} : stage' = [stage EXCEPT ![r] = end]
    BY <1>6 DEF StepFails, Enter
  <2>2. stage[r] # "scored" /\ UNCHANGED <<flags, results, distance>>
    BY <1>6 DEF StepFails, Sides
  <2>3. stage' \in [Runners -> {"migrate", "compare"} \union Sides \union Closed]
    BY <1>0, <2>1 DEF Closed
  <2>4. \A q \in Runners : stage'[q] = "scored" <=> stage[q] = "scored"
    BY <1>0, <2>1, <2>2
  <2>5. QED
    BY <1>0, <2>2, <2>3, <2>4
<1>7. ASSUME UNCHANGED verifyVars PROVE CommandTypes'
  BY <1>0, <1>7 DEF verifyVars
<1>8. QED
  BY <1>1, <1>2, <1>3, <1>4, <1>5, <1>6, <1>7 DEF VerifyNext, allVars

\* The invariant holds when nothing has run.
LEMMA VerifyInitially == VerifyInit => VerifyInv
<1> SUFFICES ASSUME VerifyInit PROVE VerifyInv
  OBVIOUS
<1>1. TypeOK /\ CompletenessInv
  BY TypeInit, CompletenessInit DEF VerifyInit
<1>2. /\ flags \in [Runners -> Flags]
      /\ stage = [r \in Runners |-> "idle"]
      /\ results = [r \in Runners |-> NoResults]
      /\ distance = [r \in Runners |-> NoDistance]
  BY DEF VerifyInit
<1>3. NoResults \in [Sides -> Seq(SearchResults)] /\ \A side \in Sides : NoResults[side] = << >>
  BY DEF NoResults
<1>4. /\ stage \in [Runners -> {"migrate", "compare"} \union Sides \union Closed]
      /\ results \in [Runners -> [Sides -> Seq(SearchResults)]]
      /\ distance \in [Runners -> Distances \union {NoDistance}]
  BY <1>2, <1>3 DEF Closed
<1>5. \A r \in Runners : \A side \in Sides :
        /\ Len(results[r][side]) <= Len(Queries)
        /\ DOMAIN results[r][side] = {}
  <2>1. Len(Queries) \in Nat
    BY VerifyAssumption
  <2>2. Len(<< >>) = 0 /\ DOMAIN << >> = {}
    OBVIOUS
  <2>3. QED
    BY <1>2, <1>3, <2>1, <2>2
<1>6. VerifyTypeOK
  <2>1. \A r \in Runners :
            distance[r] \in (IF stage[r] = "scored" THEN Distances ELSE {NoDistance})
    BY <1>2
  <2>2. QED
    BY <1>1, <1>2, <1>4, <1>5, <2>1 DEF VerifyTypeOK, SearchResults, Hit
<1>7. ASSUME NEW r \in Runners PROVE RunInv(r)
  <2>1. stage[r] = "idle"
    BY <1>2
  <2>2. Ranked(r)
    BY <1>5 DEF Ranked
  <2>3. QED
    BY <2>1, <2>2 DEF RunInv, Staged, Built, Compared, Truthful, After
<1>8. QED
  BY <1>1, <1>6, <1>7 DEF VerifyInv

\* Every step keeps it.
LEMMA VerifyInvStep == VerifyInv /\ [VerifyNext]_allVars => VerifyInv'
<1> SUFFICES ASSUME VerifyInv, [VerifyNext]_allVars PROVE VerifyInv'
  OBVIOUS
<1>0. VerifyTypeOK /\ TypeOK /\ \A r \in Runners : RunInv(r)
  BY DEF VerifyInv, VerifyTypeOK
<1>1. TypeOK' /\ CompletenessInv'
  BY MigrationsGoOn DEF VerifyInv
<1>2. VerifyTypeOK'
  BY <1>1, CommandTypesStep DEF VerifyTypeOK, CommandTypes, SearchResults, Hit
<1>3. ASSUME NEW q \in Runners, RunOf(q), NEW r \in Runners PROVE RunInv(r)'
  <2>1. CASE q # r
    BY <1>0, <1>3, <2>1, OtherRuns, SameKeeps
  <2>2. CASE q = r
    BY <1>3, <2>2, StartKeeps, MigrateKeeps, SearchKeeps, BuildKeeps, CompareKeeps, FailKeeps
       DEF RunOf
  <2>3. QED
    BY <2>1, <2>2
<1>4. ASSUME (OtherClients /\ UNCHANGED verifyVars) \/ UNCHANGED allVars, NEW r \in Runners
      PROVE  RunInv(r)'
  BY <1>0, <1>4, OtherClientsOnly, SameKeeps
<1>5. \A r \in Runners : RunInv(r)'
  BY <1>3, <1>4 DEF VerifyNext, RunOf
<1>6. QED
  BY <1>1, <1>2, <1>5 DEF VerifyInv

\* Together they hold of every state of every run.
THEOREM VerifyInvariant == VerifySpec => []VerifyInv
BY VerifyInitially, VerifyInvStep, PTL DEF VerifySpec

\* Every variable keeps its type, the answers of a run are those of its
\* queries in their order, and it has a score exactly when it is scored.
THEOREM VerificationTypeCorrect == VerifySpec => []VerifyTypeOK
<1>1. VerifyInv => VerifyTypeOK
  BY DEF VerifyInv
<1>2. QED
  BY <1>1, VerifyInvariant, PTL

-----------------------------------------------------------------------------
(* The migration in it.  The searches, the artifacts and the comparison move
   nothing the migration knows of, so that what is proved of the migrate
   command carries over.  *)

\* A step of the command is one of its migration or moves none (Migrate,
\* OtherClients).
LEMMA MigratesOrRests ==
  ASSUME TypeOK, [VerifyNext]_allVars
  PROVE  [Next]_vars \/ UNCHANGED migrationVars
<1>1. ASSUME NEW r \in Runners, StartRun(r) \/ Migrate(r) PROVE [Next]_vars
  BY <1>1 DEF StartRun, Migrate, Next, RunnerStep
<1>2. ASSUME OtherClients PROVE [Next]_vars
  BY <1>2 DEF Next
<1>3. CASE UNCHANGED allVars
  BY <1>3 DEF allVars
<1>4. QED
  BY <1>1, <1>2, <1>3, SearchesMoveNothing DEF VerifyNext

MigrationInv == TypeOK /\ ValidityInv /\ ProvenanceInv /\ RefinementInv

\* What the migration proofs rest on holds here too (VerifyNext).
LEMMA MigrationInvStep ==
  MigrationInv /\ TypeOK' /\ [VerifyNext]_allVars => MigrationInv'
<1> SUFFICES ASSUME MigrationInv, TypeOK', [VerifyNext]_allVars PROVE MigrationInv'
  OBVIOUS
<1>1. CASE [Next]_vars
  BY <1>1, ValidityStep, ProvenanceStep, RefinementInvStep DEF MigrationInv
<1>2. CASE UNCHANGED migrationVars
  <2>1. ValidityInv' /\ ProvenanceInv' /\ RefinementInv'
    BY <1>2 DEF MigrationInv, ValidityInv, Fresh, Checked, TableClean, ProvenanceInv, HistoryKept,
                TargetProvenance, RowSet, RefinementInv, Finished, migrationVars, sourceVars,
                targetVars, runnerVars, auxVars
  <2>2. QED
    BY <2>1 DEF MigrationInv
<1>3. QED
  BY <1>1, <1>2, MigratesOrRests DEF MigrationInv

\* Each step is one of the contract or none of its business, and undoes no
\* repair (VerifyNext).
LEMMA MigrationKeepsWord ==
  MigrationInv /\ TypeOK' /\ [VerifyNext]_allVars =>
    /\ [Contract!ContractNext]_(Contract!cvars)
    /\ [rows' = rows => \A k \in Ids : Repaired(k) => Repaired(k)']_vars
<1> SUFFICES ASSUME MigrationInv, TypeOK', [VerifyNext]_allVars
             PROVE  /\ [Contract!ContractNext]_(Contract!cvars)
                    /\ [rows' = rows => \A k \in Ids : Repaired(k) => Repaired(k)']_vars
  OBVIOUS
<1>1. CASE [Next]_vars
  BY <1>1, ContractStep, RepairedStep DEF MigrationInv
<1>2. CASE UNCHANGED migrationVars
  <2>1. UNCHANGED Contract!cvars
    BY <1>2 DEF Contract!cvars, RowSet, phaseBar, ContractPhase, todoBar, migrationVars,
                sourceVars, targetVars, runnerVars
  <2>2. \A k \in Ids : Repaired(k) => Repaired(k)'
    BY <1>2 DEF Repaired, Carried, RowSet, migrationVars, sourceVars, targetVars, runnerVars
  <2>3. QED
    BY <2>1, <2>2
<1>3. QED
  BY <1>1, <1>2, MigratesOrRests DEF MigrationInv

\* migrate-and-verify migrates as migrate does: whatever it searches, compares
\* or fails at afterwards, its migration copies one snapshot, brings only valid
\* records of the source into the table and undoes no repair
\* (runMigrateAndVerify).
THEOREM VerifiedMigration ==
    VerifySpec => /\ ImplementsContract
                  /\ []TargetProvenance
                  /\ []OnlyValidRowsReachTarget
                  /\ RepairsStick
<1>1. VerifyInit => MigrationInv /\ Contract!ContractInit
  <2>1. Init => TypeOK /\ Contract!ContractInit
    BY TypeInit, ContractInitially
  <2>2. Init => ValidityInv /\ ProvenanceInv /\ RefinementInv
    BY DEF Init, ValidityInv, Fresh, Checked, TableClean, ProvenanceInv, HistoryKept,
           TargetProvenance, RowSet, RefinementInv, Finished
  <2>3. QED
    BY <2>1, <2>2 DEF VerifyInit, MigrationInv
<1>2. VerifyInv => TypeOK
  BY DEF VerifyInv, VerifyTypeOK
<1>3. MigrationInv => TargetProvenance /\ OnlyValidRowsReachTarget
  BY DEF MigrationInv, ValidityInv, Checked, TableClean, ProvenanceInv, OnlyValidRowsReachTarget
<1>4. QED
  BY <1>1, <1>2, <1>3, VerifyInvariant, MigrationInvStep, MigrationKeepsWord, PTL
     DEF VerifySpec, ImplementsContract, Contract!ContractSpec, RepairsStick

-----------------------------------------------------------------------------
(* The windows of a fingerprint.  *)

\* The fingerprint of an answer, by the records of the answer.
LEMMA AnswerFingerprint ==
  ASSUME NEW C \in SUBSET Record, IsFiniteSet(C), NEW limitK \in Nat,
         NEW far \in [Vectors -> Nat], NEW pick \in Nearest(C, limitK, far),
         NEW f \in Flags, ValidFlags(f), Len(Hits(pick)) >= f.topK
  PROVE  /\ FP!Fingerprint(Hits(pick), f) =
              [stable |-> {pick[j].id : j \in 1..f.stableK},
               boundary |-> {pick[j].id : j \in FP!BoundaryPlaces(f, Len(Hits(pick)))},
               topK |-> {pick[j].id : j \in 1..f.topK}]
         /\ 1..f.stableK \subseteq DOMAIN pick
         /\ 1..f.topK \subseteq DOMAIN pick
         /\ FP!BoundaryPlaces(f, Len(Hits(pick))) \subseteq DOMAIN pick
<1>1. /\ Hits(pick) \in Seq(Hit)
      /\ DOMAIN Hits(pick) = DOMAIN pick
      /\ \A j \in DOMAIN pick : Hits(pick)[j].id = pick[j].id /\ Hits(pick)[j].rank = j
      /\ DOMAIN pick = 1..Len(Hits(pick))
  BY HitsShape
<1>2. f.topK \in Nat /\ f.stableK \in Nat /\ f.stableK <= f.topK
  BY FlagsShape
<1> DEFINE hits == Hits(pick)
           n == Len(hits)
           window == FP!BoundaryPlaces(f, n)
<1>3. n \in Nat
  BY <1>1
<1>4. FP!Fingerprint(hits, f) =
              [stable |-> {hits[j].id : j \in 1..f.stableK},
               boundary |-> {hits[j].id : j \in window},
               topK |-> {hits[j].id : j \in 1..f.topK}]
  <2>1. hits \in Seq(Hit) /\ \A j \in DOMAIN hits : hits[j].rank = j
    BY <1>1
  <2> HIDE DEF hits
  <2>2. QED
    BY <2>1, RankedFingerprint
<1>5. window \subseteq 1..n
  BY DEF FP!BoundaryPlaces
<1> HIDE DEF window
<1>6. n >= f.topK
  OBVIOUS
<1>7. DOMAIN pick = 1..n /\ \A j \in DOMAIN pick : hits[j].id = pick[j].id
  BY <1>1
<1> HIDE DEF hits, n
<1>8. 1..f.stableK \subseteq 1..n /\ 1..f.topK \subseteq 1..n
  BY <1>2, <1>3, <1>6
<1>9. /\ {hits[j].id : j \in 1..f.stableK} = {pick[j].id : j \in 1..f.stableK}
      /\ {hits[j].id : j \in 1..f.topK} = {pick[j].id : j \in 1..f.topK}
      /\ {hits[j].id : j \in window} = {pick[j].id : j \in window}
  BY <1>5, <1>7, <1>8
<1>10. QED
  BY <1>4, <1>5, <1>7, <1>8, <1>9 DEF hits, n, window

\* Cutting a ranking without ties off at the search limit changes no window.
LEMMA CutIsWhole ==
  ASSUME NEW C \in SUBSET Record, IsFiniteSet(C), NEW far \in [Vectors -> Nat],
         \A a, b \in C : far[a.vec] = far[b.vec] => a = b,
         NEW f \in Flags, ValidFlags(f),
         NEW pick \in Nearest(C, f.expandK, far), Len(Hits(pick)) >= f.topK,
         NEW whole \in Nearest(C, Cardinality(C), far)
  PROVE  FP!Fingerprint(Hits(pick), f) = FP!Fingerprint(Hits(whole), f)
<1> DEFINE n == Len(Hits(pick))
           m == Len(Hits(whole))
<1>1. /\ f.topK \in Nat /\ f.stableK \in Nat /\ f.boundaryK \in Nat /\ f.expandK \in Nat
      /\ f.stableK <= f.topK /\ f.topK + f.boundaryK <= f.expandK
  BY FlagsShape
<1>2. Cardinality(C) \in Nat
  BY FS_CardinalityType
<1>3. /\ DOMAIN pick = 1..n
      /\ n = IF Cardinality(C) <= f.expandK THEN Cardinality(C) ELSE f.expandK
  BY <1>1, HitsShape
<1>4. DOMAIN whole = 1..m /\ m = Cardinality(C)
  BY <1>2, HitsShape
<1>5. n >= f.topK
  OBVIOUS
<1> HIDE DEF n, m
<1>6. n \in Nat /\ m \in Nat /\ n <= m /\ (n = m \/ n = f.expandK) /\ m >= f.topK
  BY <1>1, <1>2, <1>3, <1>4, <1>5
<1>7. \A j \in 1..n : pick[j] = whole[j]
  <2>1. \A j \in 1..n : j \in (DOMAIN pick) \intersect (DOMAIN whole)
    BY <1>3, <1>4, <1>6
  <2>2. QED
    BY <1>1, <1>2, <2>1, SameRanking
<1>8. FP!BoundaryPlaces(f, n) = FP!BoundaryPlaces(f, m)
  BY <1>1, <1>6 DEF FP!BoundaryPlaces
<1>9. /\ FP!Fingerprint(Hits(pick), f) =
            [stable |-> {pick[j].id : j \in 1..f.stableK},
             boundary |-> {pick[j].id : j \in FP!BoundaryPlaces(f, n)},
             topK |-> {pick[j].id : j \in 1..f.topK}]
      /\ 1..f.stableK \subseteq 1..n
      /\ 1..f.topK \subseteq 1..n
      /\ FP!BoundaryPlaces(f, n) \subseteq 1..n
  <2>1. Len(Hits(pick)) >= f.topK
    BY <1>5 DEF n
  <2>2. f.expandK \in Nat
    BY <1>1
  <2>3. /\ FP!Fingerprint(Hits(pick), f) =
            [stable |-> {pick[j].id : j \in 1..f.stableK},
             boundary |-> {pick[j].id : j \in FP!BoundaryPlaces(f, Len(Hits(pick)))},
             topK |-> {pick[j].id : j \in 1..f.topK}]
        /\ 1..f.stableK \subseteq DOMAIN pick
        /\ 1..f.topK \subseteq DOMAIN pick
        /\ FP!BoundaryPlaces(f, Len(Hits(pick))) \subseteq DOMAIN pick
    BY <2>1, <2>2, AnswerFingerprint
  <2>4. QED
    BY <1>3, <2>3 DEF n
<1>10. FP!Fingerprint(Hits(whole), f) =
            [stable |-> {whole[j].id : j \in 1..f.stableK},
             boundary |-> {whole[j].id : j \in FP!BoundaryPlaces(f, m)},
             topK |-> {whole[j].id : j \in 1..f.topK}]
  <2>1. Len(Hits(whole)) >= f.topK
    BY <1>6 DEF m
  <2>2. QED
    BY <1>2, <2>1, AnswerFingerprint DEF m
<1>11. /\ {pick[j].id : j \in 1..f.stableK} = {whole[j].id : j \in 1..f.stableK}
       /\ {pick[j].id : j \in 1..f.topK} = {whole[j].id : j \in 1..f.topK}
       /\ {pick[j].id : j \in FP!BoundaryPlaces(f, n)}
            = {whole[j].id : j \in FP!BoundaryPlaces(f, n)}
  BY <1>7, <1>9
<1>12. QED
  BY <1>8, <1>9, <1>10, <1>11

\* What a scored run has of each query.
LEMMA ScoredRun ==
  ASSUME VerifyInv, NEW r \in Runners, stage[r] = "scored"
  PROVE  /\ flags[r] \in Flags /\ ValidFlags(flags[r])
         /\ DOMAIN Queries = 1..Len(Queries) /\ \A i \in DOMAIN Queries : Queries[i] \in QueryIds
         /\ \A i \in DOMAIN Queries :
              Far[flags[r].metric][Queries[i]] \in [Vectors -> Nat]
         /\ \A side \in Sides :
              /\ Len(results[r][side]) = Len(Queries)
              /\ CanBuild(r, side)
              /\ DOMAIN ArtifactOf(r, side) = {Queries[i] : i \in DOMAIN Queries}
              /\ \A i \in DOMAIN Queries :
                    /\ i \in DOMAIN results[r][side]
                    /\ Len(results[r][side][i].hits) >= flags[r].topK
                    /\ ArtifactOf(r, side)[Queries[i]]
                          = FP!Fingerprint(results[r][side][i].hits, flags[r])
                    /\ ArtifactOf(r, side)[Queries[i]] \in Prints
<1>1. /\ VerifyTypeOK /\ flags[r] \in Flags
      /\ Staged(r) /\ Built(r) /\ Ranked(r)
  BY VerifyTypes DEF VerifyInv, RunInv
<1>2. ValidFlags(flags[r])
  BY <1>1 DEF Staged
<1>3. DOMAIN Queries = 1..Len(Queries) /\ \A i \in DOMAIN Queries : Queries[i] \in QueryIds
  BY VerifyAssumption
<1>4. flags[r].metric \in Metrics
  BY <1>1, <1>2, FlagsShape
<1>5. \A i \in DOMAIN Queries : Far[flags[r].metric][Queries[i]] \in [Vectors -> Nat]
  BY <1>3, <1>4, VerifyAssumption
<1>6. \A side \in Sides : Len(results[r][side]) = Len(Queries) /\ CanBuild(r, side)
  BY <1>1 DEF Built
<1>7. QED
  BY <1>1, <1>2, <1>3, <1>5, <1>6, BuiltArtifact

\* A side whose hits are answers over these records shows all of them.
LEMMA WholeSide ==
  ASSUME VerifyInv, NEW r \in Runners, stage[r] = "scored", NEW side \in Sides,
         NEW records \in SUBSET Record, IsFiniteSet(records),
         \A i \in DOMAIN results[r][side] : AnswerOver(r, side, i, records)
  PROVE  Whole(r, side, records)
<1> SUFFICES ASSUME Ordered(records, flags[r]), NEW i \in DOMAIN Queries,
                    NEW whole \in Nearest(records, Cardinality(records),
                                          Far[flags[r].metric][Queries[i]])
             PROVE  ArtifactOf(r, side)[Queries[i]] = FP!Fingerprint(Hits(whole), flags[r])
  BY DEF Whole
<1> DEFINE far == Far[flags[r].metric][Queries[i]]
<1>1. /\ flags[r] \in Flags /\ ValidFlags(flags[r]) /\ far \in [Vectors -> Nat]
      /\ i \in DOMAIN results[r][side]
      /\ Len(results[r][side][i].hits) >= flags[r].topK
      /\ ArtifactOf(r, side)[Queries[i]] = FP!Fingerprint(results[r][side][i].hits, flags[r])
  BY ScoredRun
<1>2. PICK pick \in Nearest(records, flags[r].expandK, far) :
        results[r][side][i].hits = Hits(pick)
  BY <1>1 DEF AnswerOver
<1>3. \A a, b \in records : far[a.vec] = far[b.vec] => a = b
  BY DEF Ordered
<1> HIDE DEF far
<1>4. Len(Hits(pick)) >= flags[r].topK
  BY <1>1, <1>2
<1>5. whole \in Nearest(records, Cardinality(records), far)
  BY DEF far
<1>6. FP!Fingerprint(Hits(pick), flags[r]) = FP!Fingerprint(Hits(whole), flags[r])
  BY <1>1, <1>3, <1>4, <1>5, CutIsWhole
<1>7. QED
  BY <1>1, <1>2, <1>6

\* A fingerprint built from answers cut off at the search limit is that of the
\* whole ranking of its side: expandK reaches past the windows of every flag
\* the command accepts, and nothing an undisturbed run saw has changed.
THEOREM WindowsAreWhole == VerifySpec => []WindowsAreSeenWhole
<1>1. ASSUME VerifyInv PROVE WindowsAreSeenWhole
  <2> SUFFICES ASSUME NEW r \in Runners, ScoredAlone(r)
               PROVE  /\ sawAll[r] /\ UniqueIds => Whole(r, "source", RowSet)
                      /\ Whole(r, "target", WithVector(r))
    BY DEF WindowsAreSeenWhole
  <2>1. stage[r] = "scored" /\ undisturbed[r]
    BY DEF ScoredAlone
  <2>2. /\ \A i \in DOMAIN results[r]["source"] : \E S \in SUBSET RowSet :
            (sawAll[r] /\ UniqueIds => S = RowSet) /\ AnswerOver(r, "source", i, S)
        /\ \A i \in DOMAIN results[r]["target"] : AnswerOver(r, "target", i, WithVector(r))
    BY <1>1, <2>1 DEF VerifyInv, RunInv, Truthful, After
  <2>3. /\ RowSet \in SUBSET Record /\ IsFiniteSet(RowSet)
        /\ WithVector(r) \in SUBSET Record /\ IsFiniteSet(WithVector(r))
    BY <1>1, CandidatesAreRecords DEF VerifyInv
  <2>4. ASSUME sawAll[r], UniqueIds PROVE Whole(r, "source", RowSet)
    <3>1. \A i \in DOMAIN results[r]["source"] : AnswerOver(r, "source", i, RowSet)
      BY <2>2, <2>4
    <3>2. QED
      BY <1>1, <2>1, <2>3, <3>1, WholeSide DEF Sides
  <2>5. Whole(r, "target", WithVector(r))
    BY <1>1, <2>1, <2>2, <2>3, WholeSide DEF Sides
  <2>6. QED
    BY <2>4, <2>5
<1>2. QED
  BY <1>1, VerifyInvariant, PTL

-----------------------------------------------------------------------------
(* A faithful copy scores 1.0.  *)

\* An undisturbed, complete migration of the source leaves a table without
\* stale rows equal to it.
LEMMA CopyIsSource ==
  ASSUME VerifyInv, NEW r \in Runners, ScoredAlone(r), flags[r].column = "embedding",
         sawAll[r], UniqueIds, NoStaleRows(r)
  PROVE  WithVector(r) = RowSet
<1>1. /\ TypeOK /\ CompletenessInv
      /\ stage[r] = "scored" /\ undisturbed[r] /\ Staged(r)
  BY DEF VerifyInv, VerifyTypeOK, RunInv, ScoredAlone
<1>2. pc[r] = "done"
  BY <1>1 DEF Staged, After
<1>3. \A rec \in RowSet : [id |-> rec.id, vec |-> table[rec.id]] \in RowSet
  BY <1>1, <1>2, CompletenessConsequence DEF SuccessIsComplete
<1>4. RowSet \in SUBSET Record /\ NoVector \notin Vectors
  BY CandidatesAreRecords, ConstantsAssumption DEF VerifyInv
<1>5. \A a, b \in RowSet : a.id = b.id => a = b
  BY DEF UniqueIds, RowSet
<1>6. \A rec \in RowSet :
        /\ rec.id \in Ids /\ table[rec.id] = rec.vec /\ rec.vec # NoVector
        /\ rec = [id |-> rec.id, vec |-> table[rec.id]]
  <2> SUFFICES ASSUME NEW rec \in RowSet
               PROVE  /\ rec.id \in Ids /\ table[rec.id] = rec.vec /\ rec.vec # NoVector
                      /\ rec = [id |-> rec.id, vec |-> table[rec.id]]
    OBVIOUS
  <2> DEFINE copy == [id |-> rec.id, vec |-> table[rec.id]]
  <2>1. copy \in RowSet /\ copy.id = rec.id /\ copy.vec = table[rec.id]
    BY <1>3
  <2>2. copy = rec
    BY <1>5, <2>1
  <2>3. rec.id \in Ids /\ rec.vec \in Vectors
    BY <1>4 DEF Record
  <2>4. QED
    BY <1>4, <2>1, <2>2, <2>3
<1>7. Searched(r) = table
  BY DEF Searched
<1>8. RowSet \subseteq WithVector(r)
  BY <1>6, <1>7 DEF WithVector
<1>9. WithVector(r) \subseteq RowSet
  <2> SUFFICES ASSUME NEW k \in Ids, table[k] # NoVector
               PROVE  [id |-> k, vec |-> table[k]] \in RowSet
    BY <1>7 DEF WithVector
  <2>1. PICK rec \in RowSet : rec.id = k
    BY DEF NoStaleRows, TargetIds
  <2>2. QED
    BY <1>3, <2>1
<1>10. QED
  BY <1>8, <1>9

\* A complete migration of rows that no query sees at the same distance scores
\* 1.0: both sides answer every query with the same ranking.
THEOREM FaithfulCopies == VerifySpec => []FaithfulCopyScoresPerfect
<1>1. ASSUME VerifyInv PROVE FaithfulCopyScoresPerfect
  <2> SUFFICES ASSUME NEW r \in Runners, ScoredAlone(r), flags[r].column = "embedding",
                      Faithful(r)
               PROVE  Perfect(r)
    BY DEF FaithfulCopyScoresPerfect
  <2>1. /\ stage[r] = "scored" /\ undisturbed[r]
        /\ sawAll[r] /\ UniqueIds /\ NoStaleRows(r) /\ Ordered(RowSet, flags[r])
    BY DEF ScoredAlone, Faithful
  <2>2. WithVector(r) = RowSet
    BY <1>1, <2>1, CopyIsSource
  <2>3. RowSet \in SUBSET Record /\ IsFiniteSet(RowSet)
    BY <1>1, CandidatesAreRecords DEF VerifyInv
  <2>4. \A side \in Sides : \A i \in DOMAIN results[r][side] : AnswerOver(r, side, i, RowSet)
    BY <1>1, <2>1, <2>2 DEF VerifyInv, RunInv, Truthful, After, Sides
  <2>5. ASSUME NEW i \in DOMAIN Queries
        PROVE  ArtifactOf(r, "source")[Queries[i]] = ArtifactOf(r, "target")[Queries[i]]
    <3> DEFINE far == Far[flags[r].metric][Queries[i]]
    <3>1. /\ flags[r] \in Flags /\ ValidFlags(flags[r]) /\ far \in [Vectors -> Nat]
          /\ \A side \in Sides :
                /\ i \in DOMAIN results[r][side]
                /\ ArtifactOf(r, side)[Queries[i]]
                      = FP!Fingerprint(results[r][side][i].hits, flags[r])
      BY <1>1, <2>1, ScoredRun
    <3>2. \A side \in Sides : \E pick \in Nearest(RowSet, flags[r].expandK, far) :
            results[r][side][i].hits = Hits(pick)
      BY <2>4, <3>1 DEF AnswerOver
    <3>3. \A a, b \in RowSet : far[a.vec] = far[b.vec] => a = b
      BY <2>1 DEF Ordered
    <3> HIDE DEF far
    <3>4. PICK pick \in Nearest(RowSet, flags[r].expandK, far) :
            results[r]["source"][i].hits = Hits(pick)
      BY <3>2 DEF Sides
    <3>5. PICK other \in Nearest(RowSet, flags[r].expandK, far) :
            results[r]["target"][i].hits = Hits(other)
      BY <3>2 DEF Sides
    <3>6. flags[r].expandK \in Nat
      BY <3>1, FlagsShape
    <3>7. DOMAIN pick = DOMAIN other
      <4>1. /\ DOMAIN pick = 1..Len(Hits(pick)) /\ DOMAIN other = 1..Len(Hits(other))
            /\ Len(Hits(pick)) = Len(Hits(other))
        BY <2>3, <3>1, <3>6, HitsShape
      <4>2. QED
        BY <4>1
    <3>8. \A j \in DOMAIN pick : pick[j] = other[j]
      <4>1. \A j \in DOMAIN pick : j \in (DOMAIN pick) \intersect (DOMAIN other)
        BY <3>7
      <4>2. QED
        BY <2>3, <3>1, <3>3, <3>6, <4>1, SameRanking
    <3>9. Hits(pick) = Hits(other)
      BY <3>7, <3>8 DEF Hits
    <3>10. QED
      BY <3>1, <3>4, <3>5, <3>9 DEF Sides
  <2>6. /\ DOMAIN ArtifactOf(r, "source") = {Queries[i] : i \in DOMAIN Queries}
        /\ \A i \in DOMAIN Queries : ArtifactOf(r, "source")[Queries[i]] \in Prints
    BY <1>1, <2>1, ScoredRun DEF Sides
  <2>7. distance[r] = [q \in DOMAIN ArtifactOf(r, "source") |->
            QueryDistance(ArtifactOf(r, "source")[q], ArtifactOf(r, "target")[q])]
    BY <1>1, <2>1 DEF VerifyInv, RunInv, Compared
  <2>8. \A s \in Prints : QueryDistance(s, s) = 0
    <3>1. \A s \in Prints : FL!Differing(s.topK, s.topK) = {}
      BY DEF FL!Differing
    <3>2. QED
      BY <3>1, QueryDistanceShape
  <2>9. QED
    BY <2>5, <2>6, <2>7, <2>8 DEF Perfect
<1>2. QED
  BY <1>1, VerifyInvariant, PTL

-----------------------------------------------------------------------------
(* A perfect score is about the data.  *)

\* The candidates that are as near as this one.
AsNear(C, far, c) == {d \in C : far[d.vec] <= far[c.vec]}

\* A candidate with at most k candidates as near as itself is among the first
\* k of every answer that has so many.
LEMMA AmongNearest ==
  ASSUME NEW C \in SUBSET Record, IsFiniteSet(C), NEW limitK \in Nat,
         NEW far \in [Vectors -> Nat], NEW pick \in Nearest(C, limitK, far),
         NEW k \in Nat, 1..k \subseteq DOMAIN pick,
         NEW c \in C, Cardinality(AsNear(C, far, c)) <= k
  PROVE  \E j \in 1..k : pick[j] = c
<1> SUFFICES ASSUME \A j \in 1..k : pick[j] # c PROVE FALSE
  OBVIOUS
<1> DEFINE Near == AsNear(C, far, c)
           first == [j \in 1..k |-> pick[j]]
<1>1. /\ \A j \in DOMAIN pick : pick[j] \in C
      /\ \A i, j \in DOMAIN pick : i < j =>
            pick[i] # pick[j] /\ far[pick[i].vec] <= far[pick[j].vec]
      /\ \A d \in C : (\A i \in DOMAIN pick : pick[i] # d) =>
            \A i \in DOMAIN pick : far[pick[i].vec] <= far[d.vec]
  BY NearestShape
<1>2. DOMAIN pick \subseteq Nat \ {0}
  <2>1. PICK n \in Nat : pick \in [1..n -> C]
    BY NearestShape
  <2>2. QED
    BY <2>1
<1>3. \A j \in 1..k : pick[j] \in Near
  <2> SUFFICES ASSUME NEW j \in 1..k PROVE far[pick[j].vec] <= far[c.vec]
    BY <1>1 DEF AsNear
  <2>1. CASE \A i \in DOMAIN pick : pick[i] # c
    BY <1>1, <2>1
  <2>2. CASE \E i \in DOMAIN pick : pick[i] = c
    <3>1. PICK i \in DOMAIN pick : pick[i] = c
      BY <2>2
    <3>2. j < i /\ j \in DOMAIN pick
      BY <1>2, <3>1
    <3>3. QED
      BY <1>1, <3>1, <3>2
  <2>3. QED
    BY <2>1, <2>2
<1>4. c \in Near
  BY DEF Record, AsNear
<1>5. IsFiniteSet(Near) /\ IsFiniteSet(Near \ {c})
  BY FS_Subset DEF AsNear
<1>6. Cardinality(Near) <= k
  OBVIOUS
<1>7. first \in Injection(1..k, Near \ {c})
  <2>1. first \in [1..k -> Near \ {c}]
    BY <1>3
  <2>2. \A i, j \in 1..k : first[i] = first[j] => i = j
    <3> SUFFICES ASSUME NEW i \in 1..k, NEW j \in 1..k, pick[i] = pick[j] PROVE i = j
      OBVIOUS
    <3>1. i = j \/ i < j \/ j < i
      OBVIOUS
    <3>2. i \in DOMAIN pick /\ j \in DOMAIN pick
      OBVIOUS
    <3>3. QED
      BY <1>1, <3>1, <3>2
  <2>3. QED
    BY <2>1, <2>2 DEF Injection, IsInjective
<1> HIDE DEF Near, first
<1>8. Cardinality(1..k) <= Cardinality(Near \ {c})
  BY <1>5, <1>7, FS_Injection
<1>9. Cardinality(1..k) = k
  BY FS_Interval
<1>10. Cardinality(Near \ {c}) <= Cardinality(Near)
       /\ Cardinality(Near \ {c}) # Cardinality(Near)
  BY <1>4, <1>5, FS_Subset
<1>11. Cardinality(Near \ {c}) \in Nat /\ Cardinality(Near) \in Nat
  BY <1>5, FS_CardinalityType
<1>12. QED
  BY <1>6, <1>8, <1>9, <1>10, <1>11

\* The rows of the table and their ids count alike.
LEMMA CountByIds ==
  ASSUME TypeOK, IsFiniteSet(Ids), NEW r \in Runners, flags[r].column = "embedding",
         NEW far \in [Vectors -> Nat], NEW k \in TargetIds(r)
  PROVE  /\ k \in Ids
         /\ [id |-> k, vec |-> table[k]] \in WithVector(r)
         /\ Cardinality(AsNear(WithVector(r), far, [id |-> k, vec |-> table[k]]))
              <= Cardinality({j \in TargetIds(r) : far[table[j]] <= far[table[k]]})
<1>1. Searched(r) = table
  BY DEF Searched
<1>2. k \in Ids /\ [id |-> k, vec |-> table[k]] \in WithVector(r)
  BY <1>1 DEF TargetIds, WithVector
<1> DEFINE near == AsNear(WithVector(r), far, [id |-> k, vec |-> table[k]])
           ids == {j \in TargetIds(r) : far[table[j]] <= far[table[k]]}
           idOf == [c \in near |-> c.id]
<1>3. \A c \in near : c.id \in ids /\ c = [id |-> c.id, vec |-> table[c.id]]
  BY <1>1 DEF WithVector, TargetIds, AsNear
<1>4. idOf \in Injection(near, ids)
  BY <1>3 DEF Injection, IsInjective
<1>5. IsFiniteSet(ids)
  <2>1. ids \subseteq Ids
    BY DEF TargetIds
  <2>2. QED
    BY <2>1, FS_Subset
<1> HIDE DEF near, ids, idOf
<1>6. Cardinality(near) <= Cardinality(ids)
  BY <1>4, <1>5, FS_Injection
<1>7. QED
  BY <1>2, <1>6 DEF near, ids

\* Behind a score of 1.0 no row that the source does not have is among the top
\* K of any query in the target: the windows of both sides are equal, and the
\* stable neighbours and candidates together reach over the top K.
THEOREM StaleRowsShow == VerifySpec => []PerfectScoreExcludesStaleRows
<1>1. ASSUME VerifyInv PROVE PerfectScoreExcludesStaleRows
  <2> SUFFICES ASSUME NEW r \in Runners, ScoredAlone(r), Perfect(r),
                      flags[r].column = "embedding",
                      flags[r].stableK + flags[r].boundaryK >= flags[r].topK,
                      NEW i \in DOMAIN Queries, NEW k \in TargetIds(r),
                      Cardinality({j \in TargetIds(r) :
                          Far[flags[r].metric][Queries[i]][table[j]]
                            <= Far[flags[r].metric][Queries[i]][table[k]]}) <= flags[r].topK
               PROVE  k \in {rec.id : rec \in RowSet}
    BY DEF PerfectScoreExcludesStaleRows
  <2> DEFINE far == Far[flags[r].metric][Queries[i]]
             f == flags[r]
             c == [id |-> k, vec |-> table[k]]
             s == ArtifactOf(r, "source")[Queries[i]]
             t == ArtifactOf(r, "target")[Queries[i]]
  <2>1. /\ VerifyTypeOK /\ TypeOK /\ stage[r] = "scored" /\ undisturbed[r]
        /\ Compared(r) /\ Truthful(r)
    BY <1>1 DEF VerifyInv, VerifyTypeOK, RunInv, ScoredAlone
  <2>2. /\ f \in Flags /\ ValidFlags(f) /\ far \in [Vectors -> Nat]
        /\ \A side \in Sides :
              /\ i \in DOMAIN results[r][side]
              /\ Len(results[r][side][i].hits) >= f.topK
              /\ ArtifactOf(r, side)[Queries[i]] = FP!Fingerprint(results[r][side][i].hits, f)
              /\ ArtifactOf(r, side)[Queries[i]] \in Prints
              /\ DOMAIN ArtifactOf(r, side) = {Queries[j] : j \in DOMAIN Queries}
    BY <1>1, <2>1, ScoredRun
  <2>3. /\ f.topK \in Nat /\ f.stableK \in Nat /\ f.boundaryK \in Nat /\ f.expandK \in Nat
        /\ f.stableK <= f.topK
    BY <2>2, FlagsShape
  <2>4. /\ RowSet \in SUBSET Record /\ IsFiniteSet(RowSet)
        /\ WithVector(r) \in SUBSET Record /\ IsFiniteSet(WithVector(r))
    BY <2>1, CandidatesAreRecords
  <2>5. s.stable = t.stable /\ s.boundary = t.boundary
    <3>1. distance[r] = [q \in DOMAIN ArtifactOf(r, "source") |->
            QueryDistance(ArtifactOf(r, "source")[q], ArtifactOf(r, "target")[q])]
      BY <2>1 DEF Compared
    <3>2. Queries[i] \in DOMAIN ArtifactOf(r, "source")
      BY <2>2 DEF Sides
    <3>3. QueryDistance(s, t) = 0
      BY <3>1, <3>2 DEF Perfect
    <3>4. s \in Prints /\ t \in Prints
      BY <2>2 DEF Sides
    <3> HIDE DEF s, t
    <3>5. QED
      BY <3>3, <3>4, QueryDistanceShape
  <2>6. PICK S \in SUBSET RowSet : AnswerOver(r, "source", i, S)
    BY <2>1, <2>2 DEF Truthful, After, Sides
  <2>7. PICK found \in Nearest(S, f.expandK, far) : results[r]["source"][i].hits = Hits(found)
    BY <2>6 DEF AnswerOver
  <2>8. PICK pick \in Nearest(WithVector(r), f.expandK, far) :
          results[r]["target"][i].hits = Hits(pick)
    <3>1. AnswerOver(r, "target", i, WithVector(r))
      BY <2>1, <2>2 DEF Truthful, After, Sides
    <3>2. QED
      BY <3>1 DEF AnswerOver
  <2>9. S \in SUBSET Record /\ IsFiniteSet(S)
    BY <2>4, FS_Subset
  <2>10. /\ Len(Hits(found)) >= f.topK /\ s = FP!Fingerprint(Hits(found), f)
         /\ Len(Hits(pick)) >= f.topK /\ t = FP!Fingerprint(Hits(pick), f)
    BY <2>2, <2>7, <2>8 DEF Sides
  <2>11. /\ k \in Ids /\ c \in WithVector(r)
         /\ Cardinality(AsNear(WithVector(r), far, c)) <= f.topK
    <3>1. k \in Ids /\ c \in WithVector(r)
      BY <2>1, <2>2, VerifyAssumption, CountByIds
    <3> DEFINE near == Cardinality(AsNear(WithVector(r), far, c))
               ids == Cardinality({j \in TargetIds(r) : far[table[j]] <= far[table[k]]})
    <3>2. near <= ids
      BY <2>1, <2>2, VerifyAssumption, CountByIds
    <3>3. ids <= f.topK
      OBVIOUS
    <3>4. near \in Nat /\ ids \in Nat
      <4>1. TargetIds(r) \in SUBSET Ids
        BY DEF TargetIds
      <4>2. IsFiniteSet(AsNear(WithVector(r), far, c))
            /\ IsFiniteSet({j \in TargetIds(r) : far[table[j]] <= far[table[k]]})
        BY <2>4, <4>1, VerifyAssumption, FS_Subset DEF AsNear
      <4>3. QED
        BY <4>2, FS_CardinalityType
    <3> HIDE DEF near, ids
    <3>5. near <= f.topK
      BY <2>3, <3>2, <3>3, <3>4
    <3>6. QED
      BY <3>1, <3>5 DEF near
  <2> HIDE DEF c, s, t, far
  <2>12. /\ t = [stable |-> {pick[j].id : j \in 1..f.stableK},
                 boundary |-> {pick[j].id : j \in FP!BoundaryPlaces(f, Len(Hits(pick)))},
                 topK |-> {pick[j].id : j \in 1..f.topK}]
         /\ 1..f.topK \subseteq DOMAIN pick
    <3>1. f \in Flags /\ ValidFlags(f) /\ f.expandK \in Nat /\ far \in [Vectors -> Nat]
      BY <2>2, <2>3
    <3>2. Len(Hits(pick)) >= f.topK /\ t = FP!Fingerprint(Hits(pick), f)
      BY <2>10
    <3> HIDE DEF f
    <3>3. QED
      BY <2>4, <3>1, <3>2, AnswerFingerprint
  <2>13. PICK j \in 1..f.topK : pick[j] = c
    <3>1. f.topK \in Nat /\ f.expandK \in Nat /\ far \in [Vectors -> Nat]
      BY <2>2, <2>3
    <3>2. /\ c \in WithVector(r)
          /\ Cardinality(AsNear(WithVector(r), far, c)) <= f.topK
      BY <2>11
    <3> HIDE DEF f
    <3>3. QED
      BY <2>4, <2>12, <3>1, <3>2, AmongNearest
  <2>14. pick[j].id = k
    BY <2>13 DEF c
  <2>15. k \in t.stable \/ k \in t.boundary
    <3>1. j \in 1..f.stableK \/ j \in FP!BoundaryPlaces(f, Len(Hits(pick)))
      <4> DEFINE n == Len(Hits(pick))
      <4>1. DOMAIN pick = 1..n /\ n >= f.topK
        BY <2>2, <2>3, <2>4, <2>10, HitsShape
      <4>2. n \in Nat
        BY <2>2, <2>3, <2>4, HitsShape
      <4> HIDE DEF n
      <4>3. j \in 1..f.stableK \/ (j \in 1..n /\ f.topK - f.boundaryK < j /\ j <= f.topK + f.boundaryK)
        BY <2>3, <4>1, <4>2
      <4>4. QED
        BY <4>3 DEF FP!BoundaryPlaces, n
    <3>2. QED
      BY <2>12, <2>14, <3>1
  <2>16. /\ s = [stable |-> {found[j1].id : j1 \in 1..f.stableK},
                 boundary |-> {found[j1].id : j1 \in FP!BoundaryPlaces(f, Len(Hits(found)))},
                 topK |-> {found[j1].id : j1 \in 1..f.topK}]
         /\ 1..f.stableK \subseteq DOMAIN found
         /\ FP!BoundaryPlaces(f, Len(Hits(found))) \subseteq DOMAIN found
    <3>1. f \in Flags /\ ValidFlags(f) /\ f.expandK \in Nat /\ far \in [Vectors -> Nat]
      BY <2>2, <2>3
    <3>2. Len(Hits(found)) >= f.topK /\ s = FP!Fingerprint(Hits(found), f)
      BY <2>10
    <3> HIDE DEF f
    <3>3. QED
      BY <2>9, <3>1, <3>2, AnswerFingerprint
  <2>17. \A p \in DOMAIN found : found[p] \in RowSet
    BY <2>2, <2>3, <2>9, NearestShape
  <2>18. PICK p \in DOMAIN found : found[p].id = k
    BY <2>5, <2>15, <2>16
  <2>19. QED
    BY <2>17, <2>18
<1>2. QED
  BY <1>1, VerifyInvariant, PTL
=============================================================================
