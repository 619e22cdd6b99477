---------------------- MODULE ArtifactComparisonProofs ----------------------
(***************************************************************************)
(* Proofs about fingerprints and their comparison, for any ids, fixtures,  *)
(* flags and search responses.                                             *)
(***************************************************************************)
EXTENDS ArtifactComparison, FingerprintLemmas

-----------------------------------------------------------------------------
(* Fingerprints of the leading hits.  *)

\* The first k places hold every hit ranked among the first k for sure, and
\* only hits that fewer than k others beat.
LEMMA LeadingPlaces ==
  ASSUME NEW hits \in Seq(SearchHit), NEW k \in Nat, k <= Len(hits)
  PROVE  Leads(IdsAt(ByRank(hits), 1..k), hits, k)
<1> DEFINE Ahead(i) == {j \in DOMAIN hits : Before(hits, j, i)}
           AsGood(i) == {j \in DOMAIN hits : hits[j].rank <= hits[i].rank}
           Better(i) == {j \in DOMAIN hits : hits[j].rank < hits[i].rank}
<1>1. /\ Len(hits) \in Nat
      /\ DOMAIN hits = 1..Len(hits)
      /\ \A i \in DOMAIN hits : hits[i].rank \in Int
      /\ IsFiniteSet(DOMAIN hits)
  BY ResponseShape
<1>2. \A i \in DOMAIN hits :
        /\ AsGood(i) \subseteq DOMAIN hits
        /\ Ahead(i) \subseteq AsGood(i) /\ Ahead(i) # AsGood(i)
        /\ Better(i) \subseteq Ahead(i)
  BY <1>1 DEF Before
<1>3. \A i \in DOMAIN hits : Place(hits, i) = 1 + Cardinality(Ahead(i))
  BY DEF Place
<1> HIDE DEF Ahead, AsGood, Better
<1>4. \A i \in DOMAIN hits : IsFiniteSet(AsGood(i)) /\ Cardinality(AsGood(i)) \in Nat
  BY <1>1, <1>2, SmallerSubset
<1>5. \A i \in DOMAIN hits :
        /\ Cardinality(Ahead(i)) \in Nat /\ Cardinality(Better(i)) \in Nat
        /\ Cardinality(Ahead(i)) < Cardinality(AsGood(i))
        /\ Cardinality(Better(i)) <= Cardinality(Ahead(i))
  BY <1>2, <1>4, SmallerSubset
<1>6. ASSUME NEW i \in DOMAIN hits, Cardinality(AsGood(i)) <= k
      PROVE  hits[i].id \in IdsAt(ByRank(hits), 1..k)
  <2>1. Place(hits, i) <= k
    BY <1>3, <1>4, <1>5, <1>6
  <2>2. Place(hits, i) \in 1..k
    BY <2>1, PlacesAreDistinct
  <2>3. QED
    BY <2>2, SortIsPermutation DEF IdsAt
<1>7. ASSUME NEW id \in IdsAt(ByRank(hits), 1..k)
      PROVE  \E i \in DOMAIN hits : hits[i].id = id /\ Cardinality(Better(i)) < k
  <2>1. PICK p \in 1..k : ByRank(hits)[p].id = id
    BY DEF IdsAt
  <2>2. p \in DOMAIN hits
    BY <1>1
  <2>3. PICK i \in DOMAIN hits : Place(hits, i) = p /\ ByRank(hits)[p] = hits[i]
    BY <2>2, SortIsPermutation
  <2>4. Cardinality(Better(i)) < k
    BY <1>3, <1>5, <2>3
  <2>5. QED
    BY <2>1, <2>3, <2>4
<1>8. QED
  BY <1>6, <1>7 DEF Leads, AsGood, Better

-----------------------------------------------------------------------------
(* Fingerprints and artifacts.  *)

\* What the flags leave unwatched can be counted.
LEMMA UnwatchedIsFinite ==
  ASSUME NEW o \in BuildOptions
  PROVE  IsFiniteSet(Unwatched(o)) /\ Cardinality(Unwatched(o)) \in Nat
<1>1. o.stableK + 1 \in Int /\ o.topK - o.boundaryK \in Int
  BY DEF BuildOptions
<1>2. IsFiniteSet((o.stableK + 1)..(o.topK - o.boundaryK))
  BY <1>1, FS_Interval
<1>3. QED
  BY <1>2, FS_CardinalityType DEF Unwatched

\* What the builder makes of one response it accepts.
LEMMA FingerprintShape ==
  ASSUME NEW hits \in Seq(SearchHit), NEW o \in BuildOptions, ValidOptions(o),
         Len(hits) >= o.topK, \A i \in DOMAIN hits : hits[i].id # EmptyId
  PROVE  /\ Fingerprint(hits, o) \in QueryFingerprint
         /\ Fingerprint(hits, o).stable \subseteq Fingerprint(hits, o).topK
         /\ LET print == Fingerprint(hits, o) IN
                Cardinality(print.topK \ (print.stable \union print.boundary)) <=
                    Cardinality(Unwatched(o))
         /\ Leads(Fingerprint(hits, o).topK, hits, o.topK)
         /\ Leads(Fingerprint(hits, o).stable, hits, o.stableK)
<1> DEFINE sorted == ByRank(hits)
<1>1. /\ o.topK \in Nat /\ o.stableK \in Nat /\ o.boundaryK \in Nat
      /\ o.stableK <= o.topK /\ o.topK <= Len(hits) /\ Len(hits) \in Nat
      /\ DOMAIN hits = 1..Len(hits)
  BY ResponseShape DEF BuildOptions, ValidOptions
<1>2. \A p \in DOMAIN hits : sorted[p].id \in HitIds \ {EmptyId}
  <2>1. \A p \in DOMAIN hits : \E i \in DOMAIN hits : sorted[p] = hits[i]
    BY SortIsPermutation
  <2>2. QED
    BY <2>1, ResponseShape
<1> HIDE DEF sorted
<1>3. \A places \in SUBSET DOMAIN hits : IdsAt(sorted, places) \in SUBSET (HitIds \ {EmptyId})
  BY <1>2 DEF IdsAt
<1> DEFINE window == BoundaryPlaces(o, Len(hits))
<1>4. Fingerprint(hits, o) = [stable |-> IdsAt(sorted, 1..o.stableK),
                              boundary |-> IdsAt(sorted, window),
                              topK |-> IdsAt(sorted, 1..o.topK)]
  BY DEF Fingerprint, sorted
<1>5. /\ 1..o.stableK \in SUBSET DOMAIN hits
      /\ 1..o.topK \in SUBSET DOMAIN hits
      /\ window \in SUBSET DOMAIN hits
  BY <1>1 DEF BoundaryPlaces
<1>6. 1..o.stableK \subseteq 1..o.topK
  BY <1>1
<1>7. 1..o.topK \subseteq (1..o.stableK) \union window \union Unwatched(o)
  BY <1>1 DEF Unwatched, BoundaryPlaces
<1> HIDE DEF window
<1>8. Fingerprint(hits, o) \in QueryFingerprint
  <2>1. /\ IdsAt(sorted, 1..o.stableK) \in SUBSET (HitIds \ {EmptyId})
        /\ IdsAt(sorted, 1..o.topK) \in SUBSET (HitIds \ {EmptyId})
        /\ IdsAt(sorted, window) \in SUBSET (HitIds \ {EmptyId})
    BY <1>3, <1>5
  <2>2. QED
    BY <1>4, <2>1 DEF QueryFingerprint
<1>9. Fingerprint(hits, o).stable \subseteq Fingerprint(hits, o).topK
  BY <1>4, <1>6 DEF IdsAt
<1>10. LET print == Fingerprint(hits, o) IN
         Cardinality(print.topK \ (print.stable \union print.boundary)) <= Cardinality(Unwatched(o))
  <2> DEFINE print == Fingerprint(hits, o)
             gap == Unwatched(o)
             f == [p \in gap |-> sorted[p].id]
  <2>1. print.topK \ (print.stable \union print.boundary) \subseteq IdsAt(sorted, gap)
    BY <1>4, <1>7 DEF IdsAt
  <2>2. IsFiniteSet(gap)
    BY UnwatchedIsFinite DEF gap
  <2>3. f \in Surjection(gap, IdsAt(sorted, gap))
    BY DEF Surjection, IdsAt
  <2> HIDE DEF f, gap, print
  <2>4. /\ IsFiniteSet(IdsAt(sorted, gap))
        /\ Cardinality(IdsAt(sorted, gap)) <= Cardinality(gap)
    BY <2>2, <2>3, FS_Surjection
  <2> DEFINE missed == print.topK \ (print.stable \union print.boundary)
             x == Cardinality(missed)
             y == Cardinality(IdsAt(sorted, gap))
             z == Cardinality(gap)
  <2>5. x \in Nat /\ y \in Nat /\ x <= y
    BY <2>1, <2>4, SmallerSubset
  <2>6. z \in Nat /\ y <= z
    BY <2>2, <2>4, FS_CardinalityType
  <2> HIDE DEF x, y, z
  <2>7. x <= z
    BY <2>5, <2>6
  <2>8. QED
    BY <2>7 DEF x, z, missed, print, gap
<1>11. /\ Leads(IdsAt(sorted, 1..o.topK), hits, o.topK)
       /\ Leads(IdsAt(sorted, 1..o.stableK), hits, o.stableK)
  <2>1. o.stableK <= Len(hits)
    BY <1>1
  <2>2. QED
    BY <1>1, <2>1, LeadingPlaces DEF sorted
<1>12. QED
  BY <1>4, <1>8, <1>9, <1>10, <1>11

\* A built artifact has one fingerprint per searched query, made of that
\* query's own response, and is never empty.
LEMMA BuildShape ==
  ASSUME NEW rs \in Seq(SearchResult), NEW o \in BuildOptions, rs # << >>, CanBuild(rs, o)
  PROVE  /\ DOMAIN Artifact(rs, o) \in SUBSET (QueryIds \ {EmptyId})
         /\ IsFiniteSet(DOMAIN Artifact(rs, o))
         /\ DOMAIN Artifact(rs, o) # {}
         /\ Artifact(rs, o) \in [DOMAIN Artifact(rs, o) -> QueryFingerprint]
         /\ \A i \in DOMAIN rs :
                /\ rs[i].query \in DOMAIN Artifact(rs, o)
                /\ Artifact(rs, o)[rs[i].query] = Fingerprint(rs[i].hits, o)
         /\ \A q \in DOMAIN Artifact(rs, o) : \E i \in DOMAIN rs : rs[i].query = q
<1> DEFINE art == Artifact(rs, o)
           Q == {rs[i].query : i \in DOMAIN rs}
<1>1. Len(rs) \in Nat /\ DOMAIN rs = 1..Len(rs) /\ Len(rs) # 0
  OBVIOUS
<1>2. \A i \in DOMAIN rs : rs[i] \in SearchResult
  OBVIOUS
<1>3. \A i \in DOMAIN rs : rs[i].query \in QueryIds /\ rs[i].hits \in Seq(SearchHit)
  BY <1>2 DEF SearchResult
<1>4. \A i \in DOMAIN rs :
        /\ rs[i].query # EmptyId
        /\ Len(rs[i].hits) >= o.topK
        /\ \A j \in DOMAIN rs[i].hits : rs[i].hits[j].id # EmptyId
  BY DEF CanBuild, ValidResult
<1>5. \A i, j \in DOMAIN rs : rs[i].query = rs[j].query => i = j
  BY DEF CanBuild
<1>6. ValidOptions(o)
  BY DEF CanBuild
<1>7. DOMAIN art = Q
  BY DEF Artifact
<1>8. \A i \in DOMAIN rs : art[rs[i].query] = Fingerprint(rs[i].hits, o)
  BY <1>5 DEF Artifact
<1>9. \A i \in DOMAIN rs : Fingerprint(rs[i].hits, o) \in QueryFingerprint
  BY <1>3, <1>4, <1>6, FingerprintShape
<1>10. Q \in SUBSET (QueryIds \ {EmptyId})
  BY <1>3, <1>4
<1>11. Q # {}
  <2>1. 1 \in DOMAIN rs
    BY <1>1
  <2>2. QED
    BY <2>1
<1>12. IsFiniteSet(Q)
  <2> DEFINE f == [i \in 1..Len(rs) |-> rs[i].query]
  <2>1. f \in Surjection(1..Len(rs), Q)
    BY <1>1 DEF Surjection
  <2>2. IsFiniteSet(1..Len(rs))
    BY <1>1, FS_Interval
  <2>3. QED
    BY <2>1, <2>2, FS_Surjection
<1>13. art \in [Q -> QueryFingerprint]
  <2>1. \A q \in Q : art[q] \in QueryFingerprint
    BY <1>8, <1>9
  <2>2. art = [q \in Q |-> art[q]]
    BY DEF Artifact
  <2>3. QED
    BY <2>1, <2>2
<1> HIDE DEF art
<1>14. /\ DOMAIN art \in SUBSET (QueryIds \ {EmptyId})
       /\ IsFiniteSet(DOMAIN art)
       /\ DOMAIN art # {}
       /\ art \in [DOMAIN art -> QueryFingerprint]
       /\ \A i \in DOMAIN rs : rs[i].query \in DOMAIN art
       /\ \A q \in DOMAIN art : \E i \in DOMAIN rs : rs[i].query = q
  BY <1>7, <1>10, <1>11, <1>12, <1>13
<1>15. QED
  BY <1>8, <1>14 DEF art

-----------------------------------------------------------------------------
(* Type correctness.  *)

\* What an artifact holds comes from the results its build collected.
IsBuilt(side) ==
    /\ results[side] # << >>
    /\ CanBuild(results[side], options[side])
    /\ artifact[side] = Artifact(results[side], options[side])

\* Artifacts are built one after the other, and compared only when both are.
Builds ==
    /\ \A side \in Sides : artifact[side] = NoArtifact \/ IsBuilt(side)
    /\ stage = "source" => artifact["source"] = NoArtifact
    /\ stage \in Sides => artifact["target"] = NoArtifact
    /\ stage = "target" => IsBuilt("source")
    /\ stage \in {"load", "compare", "scored"} => \A side \in Sides : IsBuilt(side)
    /\ stage = "compare" => todo \subseteq Matched

Inv == TypeOK /\ Builds

\* A built artifact is an artifact.
LEMMA BuiltShape ==
  ASSUME TypeOK, NEW side \in Sides, IsBuilt(side)
  PROVE  /\ DOMAIN artifact[side] \in SUBSET (QueryIds \ {EmptyId})
         /\ IsFiniteSet(DOMAIN artifact[side])
         /\ DOMAIN artifact[side] # {}
         /\ artifact[side] \in [DOMAIN artifact[side] -> QueryFingerprint]
         /\ artifact[side] # NoArtifact
<1>1. /\ results[side] \in Seq(SearchResult)
      /\ options[side] \in BuildOptions
  BY ComparisonAssumption DEF TypeOK
<1>2. results[side] # << >> /\ CanBuild(results[side], options[side])
  BY DEF IsBuilt
<1>3. artifact[side] = Artifact(results[side], options[side])
  BY DEF IsBuilt
<1>4. /\ DOMAIN artifact[side] \in SUBSET (QueryIds \ {EmptyId})
      /\ IsFiniteSet(DOMAIN artifact[side])
      /\ DOMAIN artifact[side] # {}
      /\ artifact[side] \in [DOMAIN artifact[side] -> QueryFingerprint]
  BY <1>1, <1>2, <1>3, BuildShape
<1>5. artifact[side] # NoArtifact
  BY <1>4 DEF NoArtifact
<1>6. QED
  BY <1>4, <1>5

\* The queries of two built artifacts can be counted.
LEMMA UnmatchedIsFinite ==
  ASSUME TypeOK, \A side \in Sides : IsBuilt(side)
  PROVE  /\ Matched \in SUBSET QueryIds /\ Unmatched \in SUBSET QueryIds
         /\ IsFiniteSet(Matched) /\ IsFiniteSet(Unmatched)
         /\ Cardinality(Matched) \in Nat /\ Cardinality(Unmatched) \in Nat
         /\ Cardinality(Matched \union Unmatched) = Cardinality(Matched) + Cardinality(Unmatched)
<1>1. /\ DOMAIN artifact["source"] \in SUBSET QueryIds
      /\ DOMAIN artifact["target"] \in SUBSET QueryIds
      /\ IsFiniteSet(DOMAIN artifact["source"])
      /\ IsFiniteSet(DOMAIN artifact["target"])
  BY BuiltShape DEF Sides
<1> DEFINE S == DOMAIN artifact["source"]
           T == DOMAIN artifact["target"]
<1>2. IsFiniteSet(S \union T)
  BY <1>1, FS_Union
<1>3. Matched \in SUBSET (S \union T) /\ Unmatched \in SUBSET (S \union T)
  BY DEF Matched, Unmatched, Differing
<1>4. /\ IsFiniteSet(Matched) /\ IsFiniteSet(Unmatched)
      /\ Cardinality(Matched) \in Nat /\ Cardinality(Unmatched) \in Nat
  BY <1>2, <1>3, SmallerSubset
<1>5. Matched \intersect Unmatched = {}
  BY DEF Matched, Unmatched, Differing
<1>6. Cardinality(Matched \union Unmatched) = Cardinality(Matched) + Cardinality(Unmatched)
  <2>1. Cardinality(Matched \intersect Unmatched) = 0
    BY <1>5, FS_EmptySet
  <2>2. Cardinality(Matched \union Unmatched) =
          Cardinality(Matched) + Cardinality(Unmatched) - Cardinality(Matched \intersect Unmatched)
    BY <1>4, FS_Union
  <2> DEFINE a == Cardinality(Matched)
             b == Cardinality(Unmatched)
  <2>3. a \in Nat /\ b \in Nat
    BY <1>4
  <2> HIDE DEF a, b
  <2>4. a + b - 0 = a + b
    BY <2>3
  <2>5. QED
    BY <2>1, <2>2, <2>4 DEF a, b
<1>7. QED
  BY <1>1, <1>3, <1>4, <1>6

\* The comparison starts with nothing built.
LEMMA InitInv == Init => Inv
<1> SUFFICES ASSUME Init PROVE Inv
  OBVIOUS
<1>1. fixture \in [Sides -> Seq(QueryIds)] /\ pending \in [Sides -> Seq(QueryIds)]
  BY ComparisonAssumption DEF Init
<1>2. results \in [Sides -> Seq(SearchResult)]
  BY DEF Init
<1>3. \A side \in Sides : artifact[side] = NoArtifact /\ NoArtifact \in [{} -> QueryFingerprint]
  BY DEF Init, NoArtifact
<1>4. \A side \in Sides : \E Q \in SUBSET (QueryIds \ {EmptyId}) :
          artifact[side] \in [Q -> QueryFingerprint]
  BY <1>3
<1>5. TypeOK
  BY <1>1, <1>2, <1>4 DEF Init, TypeOK, Sides
<1>6. Builds
  BY <1>3 DEF Init, Builds, Sides
<1>7. QED
  BY <1>5, <1>6 DEF Inv

\* Every step keeps the types and the builds.
LEMMA NextInv == Inv /\ [Next]_vars => Inv'
<1> SUFFICES ASSUME Inv, [Next]_vars PROVE Inv'
  OBVIOUS
<1>0. TypeOK /\ Builds
  BY DEF Inv
<1>1. ASSUME NEW side \in Sides, SearchQuery(side) PROVE Inv'
  <2>1. pending[side] \in Seq(QueryIds) /\ pending[side] # << >>
    BY <1>0, <1>1 DEF TypeOK, SearchQuery
  <2>2. Head(pending[side]) \in QueryIds /\ Tail(pending[side]) \in Seq(QueryIds)
    BY <2>1
  <2>3. PICK hits \in Responses[Head(pending[side])] :
          results' = [results EXCEPT ![side] =
                        Append(@, [query |-> Head(pending[side]), hits |-> hits])]
    BY <1>1 DEF SearchQuery
  <2>4. [query |-> Head(pending[side]), hits |-> hits] \in SearchResult
    BY <2>2, ComparisonAssumption DEF SearchResult
  <2>5. results[side] \in Seq(SearchResult)
    BY <1>0 DEF TypeOK
  <2>6. Append(results[side], [query |-> Head(pending[side]), hits |-> hits]) \in Seq(SearchResult)
    BY <2>4, <2>5
  <2>7. results' \in [Sides -> Seq(SearchResult)]
    BY <1>0, <2>3, <2>6 DEF TypeOK
  <2>8. pending' \in [Sides -> Seq(QueryIds)]
    BY <1>0, <1>1, <2>2 DEF TypeOK, SearchQuery
  <2>9. UNCHANGED <<options, fixture, artifact, stage, todo, sums>>
    BY <1>1 DEF SearchQuery
  <2>10. TypeOK'
    BY <1>0, <2>7, <2>8, <2>9 DEF TypeOK
  <2>11. artifact[side] = NoArtifact /\ stage \in Sides
    BY <1>0, <1>1 DEF Builds, SearchQuery, Sides
  <2>12. \A other \in Sides : other # side => results'[other] = results[other]
    BY <1>0, <2>3 DEF TypeOK
  <2>13. \A other \in Sides : artifact'[other] = NoArtifact \/ IsBuilt(other)'
    BY <1>0, <2>9, <2>11, <2>12 DEF Builds, IsBuilt
  <2>14. Builds'
    <3>1. stage = "target" => IsBuilt("source")'
      BY <1>0, <1>1, <2>9, <2>12 DEF Builds, IsBuilt, Sides, SearchQuery
    <3>2. QED
      BY <1>0, <2>9, <2>11, <2>13, <3>1 DEF Builds, Sides
  <2>15. QED
    BY <2>10, <2>14 DEF Inv
<1>2. ASSUME NEW side \in Sides, BuildFails(side) PROVE Inv'
  <2>1. stage' = "failed" /\ UNCHANGED <<buildVars, todo, sums>>
    BY <1>2 DEF BuildFails
  <2>2. TypeOK'
    BY <1>0, <2>1 DEF TypeOK, buildVars
  <2>3. Builds'
    BY <1>0, <2>1 DEF Builds, buildVars, IsBuilt, Sides
  <2>4. QED
    BY <2>2, <2>3 DEF Inv
<1>3. ASSUME NEW side \in Sides, BuildArtifact(side) PROVE Inv'
  <2> DEFINE built == Artifact(results[side], options[side])
  <2>1. /\ results[side] # << >> /\ CanBuild(results[side], options[side])
        /\ artifact' = [artifact EXCEPT ![side] = built]
        /\ stage = side
        /\ stage' = IF side = "source" THEN "target" ELSE "load"
        /\ UNCHANGED <<options, fixture, pending, results, todo, sums>>
    BY <1>3 DEF BuildArtifact
  <2>2. results[side] \in Seq(SearchResult) /\ options[side] \in BuildOptions
    BY <1>0, ComparisonAssumption DEF TypeOK
  <2>3. DOMAIN built \in SUBSET (QueryIds \ {EmptyId}) /\ built \in [DOMAIN built -> QueryFingerprint]
    BY <2>1, <2>2, BuildShape
  <2> HIDE DEF built
  <2>4. \A other \in Sides : artifact'[other] = IF other = side THEN built ELSE artifact[other]
    BY <1>0, <2>1 DEF TypeOK
  <2>5. \A other \in Sides : \E Q \in SUBSET (QueryIds \ {EmptyId}) :
          artifact'[other] \in [Q -> QueryFingerprint]
    <3> SUFFICES ASSUME NEW other \in Sides
                 PROVE  \E Q \in SUBSET (QueryIds \ {EmptyId}) :
                            artifact'[other] \in [Q -> QueryFingerprint]
      OBVIOUS
    <3>1. \E Q \in SUBSET (QueryIds \ {EmptyId}) : artifact[other] \in [Q -> QueryFingerprint]
      BY <1>0 DEF TypeOK
    <3>2. CASE other = side
      BY <2>3, <2>4, <3>2
    <3>3. CASE other # side
      BY <2>4, <3>1, <3>3
    <3>4. QED
      BY <3>2, <3>3
  <2>6. DOMAIN artifact' = Sides
    BY <1>0, <2>1 DEF TypeOK
  <2>7. TypeOK'
    BY <1>0, <2>1, <2>5, <2>6 DEF TypeOK, Sides
  <2>8. IsBuilt(side)'
    BY <2>1, <2>4 DEF IsBuilt, built
  <2>9. \A other \in Sides : other # side /\ IsBuilt(other) => IsBuilt(other)'
    BY <2>1, <2>4 DEF IsBuilt
  <2>10. \A other \in Sides : artifact'[other] = NoArtifact \/ IsBuilt(other)'
    BY <1>0, <2>4, <2>8, <2>9 DEF Builds
  <2>11. CASE side = "source"
    <3>1. stage' = "target" /\ artifact'["target"] = NoArtifact
      BY <1>0, <2>1, <2>4, <2>11 DEF Builds, Sides
    <3>2. Builds'
      BY <2>8, <2>10, <2>11, <3>1 DEF Builds
    <3>3. QED
      BY <2>7, <3>2 DEF Inv
  <2>12. CASE side = "target"
    <3>1. stage' = "load" /\ IsBuilt("source")'
      BY <1>0, <2>1, <2>9, <2>12 DEF Builds, Sides
    <3>2. Builds'
      BY <2>8, <2>10, <2>12, <3>1 DEF Builds, Sides
    <3>3. QED
      BY <2>7, <3>2 DEF Inv
  <2>13. QED
    BY <2>11, <2>12 DEF Sides
<1>4. CASE LoadArtifacts
  <2>1. \A side \in Sides : IsBuilt(side)
    BY <1>0, <1>4 DEF Builds, LoadArtifacts
  <2>2. DOMAIN artifact["source"] \subseteq QueryIds
    BY <1>0, <2>1, BuiltShape DEF Sides
  <2>3. Matched \subseteq QueryIds
    BY <2>2 DEF Matched
  <2>4. TypeOK'
    BY <1>0, <1>4, <2>3 DEF TypeOK, LoadArtifacts, buildVars
  <2>5. Builds'
    BY <1>0, <1>4, <2>1 DEF Builds, LoadArtifacts, buildVars, IsBuilt, Sides, Matched
  <2>6. QED
    BY <2>4, <2>5 DEF Inv
<1>5. CASE CompareQuery
  <2>1. PICK q \in todo :
          /\ sums' = [stable |-> sums["stable"] +
                                    StableDistance(artifact["source"][q], artifact["target"][q]),
                      flip |-> sums["flip"] +
                                    FlipRate(artifact["source"][q], artifact["target"][q]),
                      boundary |-> sums["boundary"] +
                                    BoundaryDistance(artifact["source"][q], artifact["target"][q])]
          /\ todo' = todo \ {q}
    BY <1>5 DEF CompareQuery
  <2>2. stage = "compare" /\ UNCHANGED <<buildVars, stage>>
    BY <1>5 DEF CompareQuery
  <2>3. \A side \in Sides : artifact[side] \in [DOMAIN artifact[side] -> QueryFingerprint]
    BY <1>0, <2>2, BuiltShape DEF Builds
  <2>4. q \in Matched
    BY <1>0, <2>2 DEF Builds
  <2>5. /\ artifact["source"][q] \in QueryFingerprint
        /\ artifact["target"][q] \in QueryFingerprint
    BY <2>3, <2>4 DEF Matched, Sides
  <2>6. sums' \in [Kinds -> Nat]
    <3> DEFINE d1 == StableDistance(artifact["source"][q], artifact["target"][q])
               d2 == FlipRate(artifact["source"][q], artifact["target"][q])
               d3 == BoundaryDistance(artifact["source"][q], artifact["target"][q])
    <3>1. d1 \in Nat /\ d2 \in Nat /\ d3 \in Nat
      BY <2>5, DistanceBounds
    <3>2. sums' = [stable |-> sums["stable"] + d1, flip |-> sums["flip"] + d2,
                   boundary |-> sums["boundary"] + d3]
      BY <2>1
    <3>3. sums["stable"] \in Nat /\ sums["flip"] \in Nat /\ sums["boundary"] \in Nat
      BY <1>0 DEF TypeOK, Kinds
    <3> HIDE DEF d1, d2, d3
    <3>4. QED
      BY <3>1, <3>2, <3>3 DEF Kinds
  <2>7. TypeOK'
    BY <1>0, <2>1, <2>2, <2>6 DEF TypeOK, buildVars
  <2>8. Builds'
    BY <1>0, <2>1, <2>2 DEF Builds, buildVars, IsBuilt, Matched
  <2>9. QED
    BY <2>7, <2>8 DEF Inv
<1>6. CASE AddPenalty
  <2>1. stage = "compare" /\ stage' = "scored" /\ UNCHANGED <<buildVars, todo>>
    BY <1>6 DEF AddPenalty
  <2>2. Cardinality(Unmatched) \in Nat
    BY <1>0, <2>1, UnmatchedIsFinite DEF Builds
  <2>3. \A kind \in Kinds : sums[kind] + Scale * Cardinality(Unmatched) \in Nat
    <3>1. \A m, n, k \in Nat : k + m * n \in Nat
      OBVIOUS
    <3>2. \A kind \in Kinds : sums[kind] \in Nat
      BY <1>0 DEF TypeOK
    <3>3. QED
      BY <2>2, <3>1, <3>2, ScaleAssumption
  <2>4. sums' \in [Kinds -> Nat]
    BY <1>6, <2>3 DEF AddPenalty
  <2>5. TypeOK'
    BY <1>0, <2>1, <2>4 DEF TypeOK, buildVars
  <2>6. Builds'
    BY <1>0, <2>1 DEF Builds, buildVars, IsBuilt, Sides
  <2>7. QED
    BY <2>5, <2>6 DEF Inv
<1>7. CASE UNCHANGED vars
  BY <1>0, <1>7 DEF vars, Inv, TypeOK, Builds, IsBuilt, Matched
<1>8. QED
  BY <1>1, <1>2, <1>3, <1>4, <1>5, <1>6, <1>7 DEF Next

\* Type correctness: TypeOK is kept by every step of a verification.
THEOREM ComparisonTypeCorrect == Spec => []TypeOK
<1>1. Inv => TypeOK
  BY DEF Inv
<1>2. QED
  BY InitInv, NextInv, <1>1, PTL DEF Spec

\* Whatever order and whatever ranks the responses of a build had, the top K
\* and the stable neighbours of its fingerprints are the best ranked hits.
THEOREM LeadersAreBestRanked == Spec => []LeadingHitsAreBestRanked
<1>1. ASSUME Inv PROVE LeadingHitsAreBestRanked
  <2> SUFFICES ASSUME NEW side \in Sides, artifact[side] # NoArtifact,
                      NEW i \in DOMAIN results[side]
               PROVE  LET hits == results[side][i].hits
                          print == artifact[side][results[side][i].query]
                      IN  /\ Leads(print.topK, hits, options[side].topK)
                          /\ Leads(print.stable, hits, options[side].stableK)
    BY DEF LeadingHitsAreBestRanked
  <2>1. IsBuilt(side)
    BY <1>1 DEF Inv, Builds
  <2>2. results[side] \in Seq(SearchResult) /\ options[side] \in BuildOptions
    BY <1>1, ComparisonAssumption DEF Inv, TypeOK
  <2> DEFINE hits == results[side][i].hits
  <2>3. artifact[side][results[side][i].query] = Fingerprint(hits, options[side])
    BY <2>1, <2>2, BuildShape DEF IsBuilt
  <2>4. results[side][i] \in SearchResult
    BY <2>2
  <2>5. hits \in Seq(SearchHit)
    BY <2>4 DEF SearchResult
  <2>6. /\ ValidOptions(options[side])
        /\ Len(hits) >= options[side].topK
        /\ \A j \in DOMAIN hits : hits[j].id # EmptyId
    BY <2>1 DEF IsBuilt, CanBuild, ValidResult
  <2> HIDE DEF hits
  <2>7. /\ Leads(Fingerprint(hits, options[side]).topK, hits, options[side].topK)
        /\ Leads(Fingerprint(hits, options[side]).stable, hits, options[side].stableK)
    BY <2>2, <2>5, <2>6, FingerprintShape
  <2>8. QED
    BY <2>3, <2>7 DEF hits
<1>2. QED
  BY InitInv, NextInv, <1>1, PTL DEF Spec

-----------------------------------------------------------------------------
(* Whole artifacts.  *)

\* A build searches its fixture front to back and ends with all of it searched.
Progress(side) ==
    LET done == Len(results[side]) IN
    /\ done + Len(pending[side]) = Len(fixture[side])
    /\ \A i \in 1..done : results[side][i].query = fixture[side][i]
    /\ \A i \in 1..Len(pending[side]) : pending[side][i] = fixture[side][done + i]
    /\ artifact[side] # NoArtifact => pending[side] = << >>

WholeInv == Inv /\ \A side \in Sides : Progress(side)

\* One query moves from the pending ones to the results.
LEMMA OneMoreSearched ==
  ASSUME NEW rs \in Seq(SearchResult), NEW ps \in Seq(QueryIds), NEW fs \in Seq(QueryIds),
         ps # << >>, NEW r \in SearchResult, r.query = Head(ps),
         Len(rs) + Len(ps) = Len(fs),
         \A i \in 1..Len(rs) : rs[i].query = fs[i],
         \A i \in 1..Len(ps) : ps[i] = fs[Len(rs) + i]
  PROVE  /\ Len(Append(rs, r)) + Len(Tail(ps)) = Len(fs)
         /\ \A i \in 1..Len(Append(rs, r)) : Append(rs, r)[i].query = fs[i]
         /\ \A i \in 1..Len(Tail(ps)) : Tail(ps)[i] = fs[Len(Append(rs, r)) + i]
<1> DEFINE n == Len(rs)
           m == Len(ps)
           rs2 == Append(rs, r)
           ps2 == Tail(ps)
<1>1. n \in Nat /\ m \in Nat \ {0} /\ Len(fs) \in Nat /\ n + m = Len(fs)
  OBVIOUS
<1>2. Len(rs2) = n + 1 /\ Len(ps2) = m - 1
  OBVIOUS
<1>3. rs2[n + 1].query = fs[n + 1]
  <2>1. ps[1] = fs[n + 1]
    BY <1>1
  <2>2. rs2[n + 1] = r
    OBVIOUS
  <2>3. QED
    BY <2>1, <2>2
<1>4. \A i \in 1..n : rs2[i].query = fs[i]
  OBVIOUS
<1>5. \A i \in 1..(m - 1) : ps2[i] = ps[i + 1]
  OBVIOUS
<1>6. \A i \in 1..m : ps[i] = fs[n + i]
  OBVIOUS
<1> HIDE DEF n, m, rs2, ps2
<1>7. \A i \in 1..(n + 1) : i \in 1..n \/ i = n + 1
  BY <1>1
<1>8. \A i \in 1..(n + 1) : rs2[i].query = fs[i]
  BY <1>3, <1>4, <1>7
<1>9. \A i \in 1..(m - 1) : i + 1 \in 1..m /\ n + (i + 1) = (n + 1) + i
  BY <1>1
<1>10. \A i \in 1..(m - 1) : ps2[i] = fs[(n + 1) + i]
  BY <1>5, <1>6, <1>9
<1>11. (n + 1) + (m - 1) = Len(fs)
  BY <1>1
<1>12. QED
  BY <1>2, <1>8, <1>10, <1>11 DEF rs2, ps2

\* A search keeps its build's progress.
LEMMA SearchProgress ==
  ASSUME WholeInv, NEW side \in Sides, SearchQuery(side)
  PROVE  Progress(side)'
<1> DEFINE rs == results[side]
           ps == pending[side]
           fs == fixture[side]
<1>1. rs \in Seq(SearchResult) /\ ps \in Seq(QueryIds) /\ fs \in Seq(QueryIds) /\ ps # << >>
  BY DEF WholeInv, Inv, TypeOK, SearchQuery
<1>2. fixture' = fixture /\ artifact' = artifact /\ artifact[side] = NoArtifact
  BY DEF WholeInv, Inv, Builds, SearchQuery, Sides
<1>3. PICK hits \in Responses[Head(ps)] :
        results'[side] = Append(rs, [query |-> Head(ps), hits |-> hits])
  BY DEF SearchQuery, WholeInv, Inv, TypeOK
<1>4. pending'[side] = Tail(ps)
  BY DEF SearchQuery, WholeInv, Inv, TypeOK
<1>5. /\ Len(rs) + Len(ps) = Len(fs)
      /\ \A i \in 1..Len(rs) : rs[i].query = fs[i]
      /\ \A i \in 1..Len(ps) : ps[i] = fs[Len(rs) + i]
  BY DEF WholeInv, Progress
<1> DEFINE r == [query |-> Head(ps), hits |-> hits]
<1>6. r \in SearchResult /\ r.query = Head(ps)
  <2>1. Head(ps) \in QueryIds
    BY <1>1
  <2>2. QED
    BY <2>1, ComparisonAssumption DEF SearchResult
<1> HIDE DEF rs, ps, fs, r
<1>7. /\ Len(Append(rs, r)) + Len(Tail(ps)) = Len(fs)
      /\ \A i \in 1..Len(Append(rs, r)) : Append(rs, r)[i].query = fs[i]
      /\ \A i \in 1..Len(Tail(ps)) : Tail(ps)[i] = fs[Len(Append(rs, r)) + i]
  BY <1>1, <1>5, <1>6, OneMoreSearched
<1>8. /\ results'[side] = Append(rs, r) /\ pending'[side] = Tail(ps)
      /\ fixture'[side] = fs /\ artifact'[side] = NoArtifact
  BY <1>2, <1>3, <1>4 DEF r, fs
<1>9. QED
  BY <1>7, <1>8 DEF Progress

\* Every step keeps each build's progress.
LEMMA NextWhole == WholeInv /\ [Next]_vars => WholeInv'
<1> SUFFICES ASSUME WholeInv, [Next]_vars PROVE WholeInv'
  OBVIOUS
<1>0. Inv /\ Inv' /\ TypeOK /\ \A side \in Sides : Progress(side)
  BY NextInv DEF WholeInv, Inv
<1> SUFFICES ASSUME NEW side \in Sides PROVE Progress(side)'
  BY <1>0 DEF WholeInv
<1>1. ASSUME NEW other \in Sides, SearchQuery(other) PROVE Progress(side)'
  <2>1. CASE other = side
    BY <1>1, <2>1, SearchProgress
  <2>2. CASE other # side
    <3>1. /\ results'[side] = results[side] /\ pending'[side] = pending[side]
          /\ UNCHANGED <<fixture, artifact>>
      BY <1>0, <1>1, <2>2 DEF SearchQuery, TypeOK
    <3>2. QED
      BY <1>0, <3>1 DEF Progress
  <2>3. QED
    BY <2>1, <2>2
<1>2. ASSUME NEW other \in Sides, BuildArtifact(other) PROVE Progress(side)'
  <2>1. /\ UNCHANGED <<fixture, pending, results>>
        /\ side # other => artifact'[side] = artifact[side]
        /\ pending[other] = << >>
    BY <1>0, <1>2 DEF BuildArtifact, TypeOK
  <2>2. QED
    BY <1>0, <2>1 DEF Progress
<1>3. ASSUME UNCHANGED buildVars PROVE Progress(side)'
  BY <1>0, <1>3 DEF buildVars, Progress
<1>4. QED
  BY <1>1, <1>2, <1>3 DEF Next, BuildFails, LoadArtifacts, CompareQuery, AddPenalty,
                          buildVars, vars

\* However many searches of a build fail or come back short: an artifact that
\* exists has one fingerprint for each query of its fixture.
THEOREM NoPartialArtifact == Spec => []ArtifactsAreWhole
<1>1. Init => WholeInv
  <2> SUFFICES ASSUME Init PROVE \A side \in Sides : Progress(side)
    BY InitInv DEF WholeInv
  <2> SUFFICES ASSUME NEW side \in Sides PROVE Progress(side)
    OBVIOUS
  <2>1. results[side] = << >> /\ pending[side] = fixture[side] /\ artifact[side] = NoArtifact
    BY DEF Init
  <2>2. fixture[side] \in Seq(QueryIds)
    BY InitInv DEF Inv, TypeOK
  <2> DEFINE fs == fixture[side]
  <2>3. Len(fs) \in Nat
    BY <2>2
  <2> HIDE DEF fs
  <2>4. 0 + Len(fs) = Len(fs) /\ \A i \in 1..Len(fs) : 0 + i = i
    BY <2>3
  <2>5. QED
    BY <2>1, <2>4 DEF Progress, fs
<1>2. ASSUME WholeInv PROVE ArtifactsAreWhole
  <2> SUFFICES ASSUME NEW side \in Sides, artifact[side] # NoArtifact
               PROVE  /\ DOMAIN artifact[side] =
                             {fixture[side][i] : i \in DOMAIN fixture[side]}
                      /\ \A i, j \in DOMAIN fixture[side] :
                             fixture[side][i] = fixture[side][j] => i = j
                      /\ \A i \in DOMAIN fixture[side] :
                          /\ i \in DOMAIN results[side]
                          /\ results[side][i].query = fixture[side][i]
                          /\ Len(results[side][i].hits) >= options[side].topK
    BY DEF ArtifactsAreWhole
  <2> DEFINE rs == results[side]
             fs == fixture[side]
             o == options[side]
  <2>1. rs \in Seq(SearchResult) /\ fs \in Seq(QueryIds) /\ o \in BuildOptions
    BY <1>2, ComparisonAssumption DEF WholeInv, Inv, TypeOK
  <2>2. IsBuilt(side) /\ Progress(side)
    BY <1>2 DEF WholeInv, Inv, Builds
  <2>3. /\ CanBuild(rs, o) /\ rs # << >>
        /\ artifact[side] = Artifact(rs, o)
    BY <2>2 DEF IsBuilt
  <2>4. /\ Len(rs) + Len(pending[side]) = Len(fs)
        /\ Len(pending[side]) = 0
        /\ \A i \in 1..Len(rs) : rs[i].query = fs[i]
    BY <2>2 DEF Progress
  <2> HIDE DEF rs, fs, o
  <2>5. /\ DOMAIN rs = DOMAIN fs
        /\ \A i \in DOMAIN fs : rs[i].query = fs[i]
    BY <2>1, <2>4
  <2>6. \A i, j \in DOMAIN fs : fs[i] = fs[j] => i = j
    BY <2>3, <2>5 DEF CanBuild
  <2>7. \A i \in DOMAIN fs : Len(rs[i].hits) >= o.topK
    BY <2>3, <2>5 DEF CanBuild, ValidResult
  <2>8. DOMAIN artifact[side] = {fs[i] : i \in DOMAIN fs}
    BY <2>3, <2>5 DEF Artifact
  <2>9. QED
    BY <2>5, <2>6, <2>7, <2>8 DEF fs, rs, o
<1>3. QED
  BY <1>1, <1>2, NextWhole, PTL DEF Spec

-----------------------------------------------------------------------------
(* The score.  *)

\* Nothing is added before the comparison, each compared query adds at most
\* 1.0 to each sum, and each query of one side alone adds exactly 1.0.
Sums ==
    /\ stage \in {"source", "target", "load"} => \A kind \in Kinds : sums[kind] = 0
    /\ stage = "compare" =>
        \A kind \in Kinds : sums[kind] <= Scale * Cardinality(Matched \ todo)
    /\ stage = "scored" =>
        \A kind \in Kinds :
            /\ Scale * Cardinality(Unmatched) <= sums[kind]
            /\ sums[kind] <= Scale * Cardinality(Matched) + Scale * Cardinality(Unmatched)

AtDistanceZero(q) ==
    LET s == artifact["source"][q]
        t == artifact["target"][q]
    IN  StableDistance(s, t) = 0 /\ FlipRate(s, t) = 0 /\ BoundaryDistance(s, t) = 0

NothingAdded == \A kind \in Kinds : sums[kind] = 0

\* The sums stay zero exactly while nothing differs.
Zeroes ==
    /\ stage = "compare" =>
        (NothingAdded <=> \A q \in Matched \ todo : AtDistanceZero(q))
    /\ stage = "scored" =>
        (NothingAdded <=> Unmatched = {} /\ \A q \in Matched : AtDistanceZero(q))

ScoreInv == Inv /\ Sums /\ Zeroes

\* One query more, at most 1.0 more.
LEMMA CompareKeepsScore ==
  ASSUME ScoreInv, CompareQuery
  PROVE  Sums' /\ Zeroes'
<1>1. PICK q \in todo :
        /\ sums' = [stable |-> sums["stable"] +
                                  StableDistance(artifact["source"][q], artifact["target"][q]),
                    flip |-> sums["flip"] +
                                  FlipRate(artifact["source"][q], artifact["target"][q]),
                    boundary |-> sums["boundary"] +
                                  BoundaryDistance(artifact["source"][q], artifact["target"][q])]
        /\ todo' = todo \ {q}
  BY DEF CompareQuery
<1>2. stage = "compare" /\ UNCHANGED <<buildVars, stage>>
  BY DEF CompareQuery
<1>3. TypeOK /\ (\A side \in Sides : IsBuilt(side)) /\ todo \subseteq Matched
  BY <1>2 DEF ScoreInv, Inv, Builds
<1>4. q \in Matched /\ IsFiniteSet(Matched)
  BY <1>1, <1>3, UnmatchedIsFinite
<1>5. /\ artifact["source"][q] \in QueryFingerprint
      /\ artifact["target"][q] \in QueryFingerprint
  <2>1. \A side \in Sides : artifact[side] \in [DOMAIN artifact[side] -> QueryFingerprint]
    BY <1>3, BuiltShape
  <2>2. QED
    BY <1>4, <2>1 DEF Matched, Sides
<1> DEFINE compared == Matched \ todo
           added == [stable |-> StableDistance(artifact["source"][q], artifact["target"][q]),
                     flip |-> FlipRate(artifact["source"][q], artifact["target"][q]),
                     boundary |-> BoundaryDistance(artifact["source"][q], artifact["target"][q])]
<1>6. \A kind \in Kinds : added[kind] \in 0..Scale
  BY <1>5, DistanceBounds DEF Kinds
<1>7. \A kind \in Kinds : sums'[kind] = sums[kind] + added[kind]
  BY <1>1 DEF Kinds
<1>8. \A kind \in Kinds : sums[kind] \in Nat
  BY <1>3 DEF TypeOK
<1>9. AtDistanceZero(q) <=> \A kind \in Kinds : added[kind] = 0
  BY DEF AtDistanceZero, Kinds
<1> HIDE DEF added
<1>10. Matched' = Matched /\ (\A p \in Matched : AtDistanceZero(p)' <=> AtDistanceZero(p))
  BY <1>2 DEF Matched, AtDistanceZero, buildVars
<1>11. compared' = compared \union {q} /\ q \notin compared
  BY <1>1, <1>4, <1>10
<1>12. /\ Cardinality(compared) \in Nat
       /\ Cardinality(compared') = Cardinality(compared) + 1
  <2>1. IsFiniteSet(compared) /\ Cardinality(compared) \in Nat
    BY <1>4, SmallerSubset
  <2> HIDE DEF compared
  <2>2. Cardinality(compared \union {q}) = Cardinality(compared) + 1
    BY <1>11, <2>1, FS_AddElement
  <2>3. QED
    BY <1>11, <2>1, <2>2
<1>13. Sums'
  <2> DEFINE n == Cardinality(compared)
             m == Cardinality(compared')
  <2>1. n \in Nat /\ m = n + 1
    BY <1>12
  <2>2. \A kind \in Kinds : sums[kind] <= Scale * n
    BY <1>2 DEF ScoreInv, Sums
  <2> HIDE DEF n, m
  <2>3. \A kind \in Kinds : sums'[kind] <= Scale * m
    <3>1. Scale \in Nat /\ Scale * n + Scale = Scale * m /\ Scale * n \in Nat
      BY <2>1, ScaleAssumption
    <3>2. QED
      BY <1>6, <1>7, <1>8, <2>2, <3>1
  <2>4. QED
    BY <1>2, <2>3 DEF Sums, m
<1>14. Zeroes'
  <2>1. NothingAdded' <=> NothingAdded /\ \A kind \in Kinds : added[kind] = 0
    <3>1. \A kind \in Kinds : sums'[kind] = 0 <=> sums[kind] = 0 /\ added[kind] = 0
      BY <1>6, <1>7, <1>8
    <3>2. QED
      BY <3>1 DEF NothingAdded
  <2>2. NothingAdded <=> \A p \in compared : AtDistanceZero(p)
    BY <1>2 DEF ScoreInv, Zeroes
  <2>3. NothingAdded' <=> \A p \in compared' : AtDistanceZero(p)
    BY <1>9, <1>11, <2>1, <2>2
  <2>4. \A p \in compared' : AtDistanceZero(p)' <=> AtDistanceZero(p)
    BY <1>4, <1>10, <1>11
  <2>5. NothingAdded' <=> \A p \in compared' : AtDistanceZero(p)'
    BY <2>3, <2>4
  <2>6. stage' = "compare"
    BY <1>2
  <2>7. QED
    BY <2>5, <2>6 DEF Zeroes
<1>15. QED
  BY <1>13, <1>14

\* Adding the penalty keeps the bounds, and zero only without unmatched queries.
LEMMA PenaltyKeepsScore ==
  ASSUME ScoreInv, AddPenalty
  PROVE  Sums' /\ Zeroes'
<1>1. /\ stage = "compare" /\ todo = {} /\ stage' = "scored"
      /\ sums' = [kind \in Kinds |-> sums[kind] + Scale * Cardinality(Unmatched)]
      /\ UNCHANGED <<buildVars, todo>>
  BY DEF AddPenalty
<1>2. TypeOK /\ \A side \in Sides : IsBuilt(side)
  BY <1>1 DEF ScoreInv, Inv, Builds
<1>3. /\ Cardinality(Matched) \in Nat /\ Cardinality(Unmatched) \in Nat
      /\ IsFiniteSet(Unmatched)
  BY <1>2, UnmatchedIsFinite
<1> DEFINE m == Scale * Cardinality(Matched)
           u == Scale * Cardinality(Unmatched)
<1>4. m \in Nat /\ u \in Nat /\ (u = 0 <=> Unmatched = {})
  <2>1. Cardinality(Unmatched) = 0 <=> Unmatched = {}
    BY <1>3, FS_EmptySet
  <2>2. \A x, y \in Nat : x * y \in Nat /\ (x # 0 /\ x * y = 0 => y = 0) /\ x * 0 = 0
    OBVIOUS
  <2>3. QED
    BY <1>3, <2>1, <2>2, ScaleAssumption
<1>5. \A kind \in Kinds : sums'[kind] = sums[kind] + u
  BY <1>1
<1>6. \A kind \in Kinds : sums[kind] \in Nat
  BY <1>2 DEF TypeOK
<1>7. Matched \ todo = Matched
  BY <1>1
<1>8. \A kind \in Kinds : sums[kind] <= m
  BY <1>1, <1>7 DEF ScoreInv, Sums
<1>9. Matched' = Matched /\ Unmatched' = Unmatched
      /\ (\A p \in Matched : AtDistanceZero(p)' <=> AtDistanceZero(p))
  BY <1>1 DEF Matched, Unmatched, AtDistanceZero, buildVars
<1>10. Sums'
  <2>1. m' = m /\ u' = u
    BY <1>9
  <2> HIDE DEF m, u
  <2>2. \A kind \in Kinds : u <= sums'[kind] /\ sums'[kind] <= m + u
    BY <1>4, <1>5, <1>6, <1>8
  <2>3. QED
    BY <1>1, <2>1, <2>2 DEF Sums, m, u
<1>11. Zeroes'
  <2>1. NothingAdded' <=> NothingAdded /\ Unmatched = {}
    <3> HIDE DEF m, u
    <3>1. \A kind \in Kinds : sums'[kind] = 0 <=> sums[kind] = 0 /\ u = 0
      BY <1>4, <1>5, <1>6
    <3>2. "stable" \in Kinds
      BY DEF Kinds
    <3>3. QED
      BY <1>4, <3>1, <3>2 DEF NothingAdded
  <2>2. NothingAdded <=> \A p \in Matched : AtDistanceZero(p)
    BY <1>1, <1>7 DEF ScoreInv, Zeroes
  <2>3. NothingAdded' <=> Unmatched' = {} /\ \A p \in Matched' : AtDistanceZero(p)'
    BY <1>9, <2>1, <2>2
  <2>4. QED
    BY <1>1, <2>3 DEF Zeroes
<1>12. QED
  BY <1>10, <1>11

\* The comparison starts with nothing added.
LEMMA InitScore == Init => ScoreInv
<1> SUFFICES ASSUME Init PROVE ScoreInv
  OBVIOUS
<1>1. Sums /\ Zeroes
  BY DEF Init, Sums, Zeroes
<1>2. QED
  BY <1>1, InitInv DEF ScoreInv

\* Every step keeps what the sums say about the queries compared so far.
LEMMA NextScore == ScoreInv /\ [Next]_vars => ScoreInv'
<1> SUFFICES ASSUME ScoreInv, [Next]_vars PROVE ScoreInv'
  OBVIOUS
<1>0. Inv /\ Inv' /\ Sums /\ Zeroes
  BY NextInv DEF ScoreInv
<1> SUFFICES Sums' /\ Zeroes'
  BY <1>0 DEF ScoreInv
<1>1. ASSUME NEW side \in Sides,
             SearchQuery(side) \/ BuildFails(side) \/ BuildArtifact(side)
      PROVE  Sums' /\ Zeroes'
  <2>1. stage \in {"source", "target"} /\ sums' = sums
    BY <1>1 DEF SearchQuery, BuildFails, BuildArtifact, Sides
  <2>2. stage' \in {"source", "target", "load", "failed"}
    BY <1>1, <2>1 DEF SearchQuery, BuildFails, BuildArtifact
  <2>3. \A kind \in Kinds : sums'[kind] = 0
    BY <1>0, <2>1 DEF Sums
  <2>4. QED
    BY <2>2, <2>3 DEF Sums, Zeroes
<1>2. CASE LoadArtifacts
  <2>1. stage = "load" /\ stage' = "compare" /\ todo' = Matched /\ UNCHANGED <<buildVars, sums>>
    BY <1>2 DEF LoadArtifacts
  <2>2. Matched' = Matched
    BY <2>1 DEF Matched, buildVars
  <2>3. Matched' \ todo' = {}
    BY <2>1, <2>2
  <2>4. \A kind \in Kinds : sums'[kind] = 0
    BY <1>0, <2>1 DEF Sums
  <2>5. Scale * Cardinality(Matched' \ todo') = 0
    BY <2>3, FS_EmptySet, ScaleAssumption
  <2>6. Sums'
    BY <2>1, <2>4, <2>5 DEF Sums
  <2>7. Zeroes'
    BY <2>1, <2>3, <2>4 DEF Zeroes, NothingAdded
  <2>8. QED
    BY <2>6, <2>7
<1>3. CASE CompareQuery
  BY <1>3, CompareKeepsScore
<1>4. CASE AddPenalty
  BY <1>4, PenaltyKeepsScore
<1>5. CASE UNCHANGED vars
  BY <1>0, <1>5 DEF vars, Sums, Zeroes, NothingAdded, AtDistanceZero, Matched, Unmatched
<1>6. QED
  BY <1>1, <1>2, <1>3, <1>4, <1>5 DEF Next

\* The score never leaves [0, 1]: the clamp of the engine changes nothing, and
\* unmatched queries always cost what they should.
THEOREM ScoreIsBounded == Spec => []ScoreBounds
<1>1. ASSUME ScoreInv PROVE ScoreBounds
  <2> SUFFICES ASSUME stage = "scored" PROVE ScoreBounds
    BY DEF ScoreBounds
  <2>1. TypeOK /\ \A side \in Sides : IsBuilt(side)
    BY <1>1 DEF ScoreInv, Inv, Builds
  <2> DEFINE m == Cardinality(Matched)
             u == Cardinality(Unmatched)
  <2>2. m \in Nat /\ u \in Nat /\ Cardinality(Matched \union Unmatched) = m + u
    BY <2>1, UnmatchedIsFinite
  <2>3. \A kind \in Kinds :
          sums[kind] \in Nat /\ Scale * u <= sums[kind] /\ sums[kind] <= Scale * m + Scale * u
    BY <1>1, <2>1 DEF ScoreInv, Sums, TypeOK
  <2> HIDE DEF m, u
  <2>4. Scale * m \in Nat /\ Scale * u \in Nat /\ Scale \in Nat
    BY <2>2, ScaleAssumption
  <2>5. /\ 5 * Scale * u = 5 * (Scale * u)
        /\ 5 * Scale * (m + u) = 5 * (Scale * m) + 5 * (Scale * u)
    BY <2>2, <2>4
  <2>6. /\ 5 * (Scale * u) <= FingerprintDistance
        /\ FingerprintDistance <= 5 * (Scale * m) + 5 * (Scale * u)
    BY <2>3, <2>4 DEF FingerprintDistance, Kinds
  <2>7. FullDistance = 5 * Scale * (m + u)
    BY <2>2 DEF FullDistance
  <2>8. QED
    BY <2>5, <2>6, <2>7 DEF ScoreBounds, u
<1>2. QED
  BY InitScore, NextScore, <1>1, PTL DEF Spec

\* Every fingerprint of a built artifact keeps its stable neighbours in the
\* top K, and leaves no more of the top K unwatched than the flags do.
LEMMA BuiltFingerprints ==
  ASSUME TypeOK, NEW side \in Sides, IsBuilt(side), NEW q \in DOMAIN artifact[side]
  PROVE  LET print == artifact[side][q] IN
         /\ print.stable \subseteq print.topK
         /\ Cardinality(print.topK \ (print.stable \union print.boundary)) <=
                Cardinality(Unwatched(options[side]))
<1>1. results[side] \in Seq(SearchResult) /\ options[side] \in BuildOptions
  BY ComparisonAssumption DEF TypeOK
<1> DEFINE rs == results[side]
           o == options[side]
<1>2. /\ rs # << >> /\ CanBuild(rs, o)
      /\ artifact[side] = Artifact(rs, o)
  BY DEF IsBuilt
<1> HIDE DEF rs, o
<1>3. /\ \A i \in DOMAIN rs : Artifact(rs, o)[rs[i].query] = Fingerprint(rs[i].hits, o)
      /\ \A k \in DOMAIN Artifact(rs, o) : \E i \in DOMAIN rs : rs[i].query = k
  <2>1. rs \in Seq(SearchResult) /\ o \in BuildOptions
    BY <1>1 DEF rs, o
  <2>2. QED
    BY <1>2, <2>1, BuildShape
<1>4. PICK i \in DOMAIN rs : rs[i].query = q
  BY <1>2, <1>3
<1>5. artifact[side][q] = Fingerprint(rs[i].hits, o)
  BY <1>2, <1>3, <1>4
<1> DEFINE hits == rs[i].hits
<1>6. hits \in Seq(SearchHit)
  <2>1. rs[i] \in SearchResult
    BY <1>1 DEF rs
  <2>2. QED
    BY <2>1 DEF SearchResult
<1>7. /\ ValidOptions(o)
      /\ Len(hits) >= o.topK
      /\ \A j \in DOMAIN hits : hits[j].id # EmptyId
  BY <1>2 DEF CanBuild, ValidResult
<1>8. o \in BuildOptions /\ o = options[side]
  BY <1>1 DEF o
<1> HIDE DEF hits
<1>9. artifact[side][q] = Fingerprint(hits, o)
  BY <1>5 DEF hits
<1>10. QED
  BY <1>6, <1>7, <1>8, <1>9, FingerprintShape

\* What one top K has alone, of two fingerprints at distance zero, stood at a
\* place of its build that no window watches.
LEMMA ZeroHidesLittle ==
  ASSUME TypeOK, \A side \in Sides : IsBuilt(side), NEW q \in Matched, AtDistanceZero(q),
         NEW one \in Sides, NEW other \in Sides
  PROVE  Cardinality(OnlyIn(one, other, q)) <= Cardinality(Unwatched(options[one]))
<1> DEFINE s == artifact["source"][q]
           t == artifact["target"][q]
           o == artifact[one][q]
           p == artifact[other][q]
<1>1. q \in DOMAIN artifact["source"] /\ q \in DOMAIN artifact["target"]
  BY DEF Matched
<1>2. \A side \in Sides : artifact[side][q] \in QueryFingerprint
  BY <1>1, BuiltShape DEF Sides
<1>3. \A side \in Sides :
        LET print == artifact[side][q] IN
        /\ print.stable \subseteq print.topK
        /\ Cardinality(print.topK \ (print.stable \union print.boundary)) <=
               Cardinality(Unwatched(options[side]))
  BY <1>1, BuiltFingerprints DEF Sides
<1>4. /\ s.stable = t.stable /\ s.boundary = t.boundary
      /\ Differing(s.topK, t.topK) \intersect (s.boundary \union t.boundary) = {}
  <2>1. s \in QueryFingerprint /\ t \in QueryFingerprint
    BY <1>2 DEF Sides
  <2>2. StableDistance(s, t) = 0 /\ FlipRate(s, t) = 0 /\ BoundaryDistance(s, t) = 0
    BY DEF AtDistanceZero
  <2> HIDE DEF s, t
  <2>3. QED
    BY <2>1, <2>2, ZeroDistance
<1>5. o \in {s, t} /\ p \in {s, t}
  BY DEF Sides
<1>6. o.stable = p.stable /\ p.stable \subseteq p.topK
  BY <1>3, <1>4, <1>5
<1>7. (o.topK \ p.topK) \intersect o.boundary = {}
  <2> HIDE DEF s, t, o, p
  <2>1. QED
    BY <1>4, <1>5 DEF Differing
<1> DEFINE missed == o.topK \ (o.stable \union o.boundary)
           alone == o.topK \ p.topK
<1>8. alone \in SUBSET missed
  <2> HIDE DEF s, t, o, p
  <2>1. QED
    BY <1>6, <1>7
<1>9. IsFiniteSet(missed)
  <2>1. missed \in SUBSET HitIds
    BY <1>2 DEF QueryFingerprint
  <2>2. QED
    BY <2>1, ScaleAssumption, SmallerSubset
<1>10. Cardinality(missed) <= Cardinality(Unwatched(options[one]))
  BY <1>3
<1> DEFINE x == Cardinality(alone)
           y == Cardinality(missed)
           z == Cardinality(Unwatched(options[one]))
<1>11. z \in Nat
  BY UnwatchedIsFinite, ComparisonAssumption DEF TypeOK
<1> HIDE DEF alone, missed, z
<1>12. x \in Nat /\ y \in Nat /\ x <= y
  BY <1>8, <1>9, SmallerSubset
<1>13. y <= z
  BY <1>10 DEF z
<1> HIDE DEF x, y
<1>14. x <= z
  BY <1>11, <1>12, <1>13
<1>15. QED
  BY <1>14 DEF x, z, alone, OnlyIn

\* A perfect score means the same queries with the same stable neighbours and
\* candidates, and what it can hide of the top K is bounded by the places the
\* flags leave unwatched, none when the windows cover the top K.
THEOREM PerfectScoreIsAgreement == Spec => []PerfectScoreMeansSameBehaviour
<1>1. ASSUME ScoreInv PROVE PerfectScoreMeansSameBehaviour
  <2> DEFINE source == artifact["source"]
             target == artifact["target"]
  <2> SUFFICES ASSUME stage = "scored"
               PROVE  /\ source = target => FingerprintDistance = 0
                      /\ FingerprintDistance = 0 =>
                          /\ DOMAIN source = DOMAIN target
                          /\ \A q \in Matched :
                              /\ source[q].stable = target[q].stable
                              /\ source[q].boundary = target[q].boundary
                              /\ \A one, other \in Sides :
                                  Cardinality(OnlyIn(one, other, q)) <=
                                      Cardinality(Unwatched(options[one]))
    BY DEF PerfectScoreMeansSameBehaviour
  <2>1. TypeOK /\ \A side \in Sides : IsBuilt(side)
    BY <1>1 DEF ScoreInv, Inv, Builds
  <2>2. /\ source \in [DOMAIN source -> QueryFingerprint]
        /\ target \in [DOMAIN target -> QueryFingerprint]
    BY <2>1, BuiltShape DEF Sides
  <2>3. FingerprintDistance = 0 <=> NothingAdded
    <3>1. sums["stable"] \in Nat /\ sums["flip"] \in Nat /\ sums["boundary"] \in Nat
      BY <2>1 DEF TypeOK, Kinds
    <3>2. FingerprintDistance = 0 <=>
            sums["stable"] = 0 /\ sums["flip"] = 0 /\ sums["boundary"] = 0
      <4>1. \A x, y, z \in Nat : 2 * x + 2 * y + z = 0 <=> x = 0 /\ y = 0 /\ z = 0
        OBVIOUS
      <4>2. QED
        BY <3>1, <4>1 DEF FingerprintDistance
    <3>3. QED
      BY <3>2 DEF NothingAdded, Kinds
  <2>4. NothingAdded <=> Unmatched = {} /\ \A q \in Matched : AtDistanceZero(q)
    BY <1>1 DEF ScoreInv, Zeroes
  <2>5. Unmatched = {} <=> DOMAIN source = DOMAIN target
    BY DEF Unmatched, Differing
  <2>6. ASSUME NEW q \in Matched
        PROVE  AtDistanceZero(q) <=>
                 /\ source[q].stable = target[q].stable
                 /\ source[q].boundary = target[q].boundary
                 /\ Differing(source[q].topK, target[q].topK) \intersect
                        (source[q].boundary \union target[q].boundary) = {}
    <3> DEFINE s == source[q]
               t == target[q]
    <3>1. s \in QueryFingerprint /\ t \in QueryFingerprint
      BY <2>2, <2>6 DEF Matched
    <3>2. AtDistanceZero(q) <=>
            StableDistance(s, t) = 0 /\ FlipRate(s, t) = 0 /\ BoundaryDistance(s, t) = 0
      BY DEF AtDistanceZero
    <3> HIDE DEF s, t
    <3>3. AtDistanceZero(q) <=>
            /\ s.stable = t.stable /\ s.boundary = t.boundary
            /\ Differing(s.topK, t.topK) \intersect (s.boundary \union t.boundary) = {}
      BY <3>1, <3>2, ZeroDistance
    <3>4. QED
      BY <3>3 DEF s, t
  <2>7. source = target => FingerprintDistance = 0
    <3>1. SUFFICES ASSUME source = target
                   PROVE  Unmatched = {} /\ \A q \in Matched : AtDistanceZero(q)
      BY <2>3, <2>4
    <3>2. Unmatched = {}
      BY <2>5, <3>1
    <3>3. QED
      BY <2>6, <3>1, <3>2 DEF Differing
  <2>8. ASSUME FingerprintDistance = 0
        PROVE  /\ DOMAIN source = DOMAIN target
               /\ \A q \in Matched :
                   /\ source[q].stable = target[q].stable
                   /\ source[q].boundary = target[q].boundary
                   /\ \A one, other \in Sides :
                       Cardinality(OnlyIn(one, other, q)) <=
                           Cardinality(Unwatched(options[one]))
    <3>1. Unmatched = {} /\ \A q \in Matched : AtDistanceZero(q)
      BY <2>3, <2>4, <2>8
    <3>2. DOMAIN source = DOMAIN target
      BY <2>5, <3>1
    <3>3. \A q \in Matched : \A one, other \in Sides :
            Cardinality(OnlyIn(one, other, q)) <= Cardinality(Unwatched(options[one]))
      BY <2>1, <3>1, ZeroHidesLittle
    <3>4. \A q \in Matched :
            source[q].stable = target[q].stable /\ source[q].boundary = target[q].boundary
      BY <2>6, <3>1
    <3> HIDE DEF source, target
    <3>5. QED
      BY <3>2, <3>3, <3>4
  <2> HIDE DEF source, target
  <2>9. QED
    BY <2>7, <2>8
<1>2. QED
  BY InitScore, NextScore, <1>1, PTL DEF Spec
=============================================================================
