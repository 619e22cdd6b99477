------------------------ MODULE FingerprintArtifact ------------------------
(***************************************************************************)
(* internal/fingerprints and the engine's distance.py: from ranked search  *)
(* hits to the fingerprint of a query, and from two fingerprints to their  *)
(* distances.                                                              *)
(*                                                                         *)
(* The id lists of a fingerprint are sets here: the engine applies set()   *)
(* to each of them before it looks at it.  A distance of n/d is the number *)
(* n * Scale / d, exact because Scale is a multiple of every set size.     *)
(***************************************************************************)
EXTENDS Integers, Sequences, FiniteSets

CONSTANTS
    HitIds,     \* ids of vectors a search may return
    EmptyId,    \* the id "", in HitIds and QueryIds or not
    QueryIds,   \* ids of verification queries
    Scale       \* the number that stands for a distance of 1.0

ASSUME ScaleAssumption ==
    /\ IsFiniteSet(HitIds)
    /\ Scale \in Nat \ {0}
    /\ \A n \in 1..Cardinality(HitIds) : Scale % n = 0

SearchHit == [id: HitIds, rank: Int]
SearchResult == [query: QueryIds, hits: Seq(SearchHit)]
BuildOptions == [topK: Int, stableK: Int, boundaryK: Int]
QueryFingerprint ==
    LET IdSet == SUBSET (HitIds \ {EmptyId})
    IN  [stable: IdSet, boundary: IdSet, topK: IdSet]

-----------------------------------------------------------------------------
(* The builder.  *)

ValidOptions(o) ==
    /\ o.topK > 0
    /\ o.stableK > 0
    /\ o.stableK <= o.topK
    /\ o.boundaryK > 0

\* Faulty variant: the ids of hits are not looked at.
ValidResult_AnyId(result, o) ==
    /\ result.query # EmptyId
    /\ Len(result.hits) >= o.topK
    /\ \A i \in DOMAIN result.hits : result.hits[i].rank > 0

ValidResult(result, o) ==
    /\ result.query # EmptyId
    /\ Len(result.hits) >= o.topK
    /\ \A i \in DOMAIN result.hits :
        result.hits[i].id # EmptyId /\ result.hits[i].rank > 0

\* BuildArtifact fails on bad options, on any bad result and on a query that
\* occurs twice.
CanBuild(results, o) ==
    /\ ValidOptions(o)
    /\ \A i \in DOMAIN results : ValidResult(results[i], o)
    /\ \A i, j \in DOMAIN results : results[i].query = results[j].query => i = j

Before(hits, j, i) ==
    \/ hits[j].rank < hits[i].rank
    \/ hits[j].rank = hits[i].rank /\ j < i

Place(hits, i) == 1 + Cardinality({j \in DOMAIN hits : Before(hits, j, i)})

\* Faulty variant: keeps the order of the response.
ByRank_Unsorted(hits) == hits

\* Stable sort by rank: a hit goes where the hits before it in that order end.
ByRank(hits) ==
    [p \in DOMAIN hits |-> hits[CHOOSE i \in DOMAIN hits : Place(hits, i) = p]]

IdsAt(hits, places) == {hits[i].id : i \in places}

\* Faulty variant: the window before the cutoff is one hit short.
BoundaryPlaces_OffByOne(o, count) ==
    {i \in 1..count : o.topK - o.boundaryK + 1 < i /\ i <= o.topK + o.boundaryK}

\* Places up to boundaryK before and after the topK cutoff.
BoundaryPlaces(o, count) ==
    {i \in 1..count : o.topK - o.boundaryK < i /\ i <= o.topK + o.boundaryK}

Fingerprint(hits, o) ==
    LET sorted == ByRank(hits) IN
    [stable |-> IdsAt(sorted, 1..o.stableK),
     boundary |-> IdsAt(sorted, BoundaryPlaces(o, Len(hits))),
     topK |-> IdsAt(sorted, 1..o.topK)]

Artifact(results, o) ==
    [q \in {results[i].query : i \in DOMAIN results} |->
        Fingerprint(results[CHOOSE i \in DOMAIN results : results[i].query = q].hits, o)]

-----------------------------------------------------------------------------
(* The engine's distances of one query.  *)

Differing(A, B) == (A \ B) \union (B \ A)

\* The share of part in whole, 0 for an empty whole.
Share(part, whole) ==
    IF whole = {} THEN 0 ELSE (Scale \div Cardinality(whole)) * Cardinality(part)

\* 1 - |A /\ B| / |A \/ B|
JaccardDistance(A, B) == Share(Differing(A, B), A \union B)

\* The share of the candidates that are in the top K of one side alone.
BoundaryFlipRate(sourceTopK, targetTopK, candidates) ==
    Share(Differing(sourceTopK, targetTopK) \intersect candidates, candidates)

StableDistance(s, t) == JaccardDistance(s.stable, t.stable)
BoundaryDistance(s, t) == JaccardDistance(s.boundary, t.boundary)

FlipRate(s, t) == BoundaryFlipRate(s.topK, t.topK, s.boundary \union t.boundary)
=============================================================================
