------------------------ MODULE ArtifactComparison -------------------------
(***************************************************************************)
(* One verification end to end: build-milvus-artifact searches every query *)
(* of its fixture and builds the source artifact, build-pgvector-artifact  *)
(* does the same for the target, and the Python engine aligns the two by   *)
(* query, adds up the distances and scores them.                           *)
(*                                                                         *)
(* The two builds are separate commands: each has its own fixture and its  *)
(* own --top-k, --stable-k and --boundary-k.  The engine checks that an    *)
(* artifact is not empty and names no query twice; a built artifact always *)
(* passes both.                                                            *)
(***************************************************************************)
EXTENDS FingerprintArtifact

CONSTANTS
    Fixtures,    \* the query lists a build may be given
    Options,     \* the flags a build may be given
    Responses    \* per query: the hits a search for it may return

ASSUME ComparisonAssumption ==
    /\ Fixtures \subseteq Seq(QueryIds)
    /\ Options \subseteq BuildOptions
    /\ Responses \in [QueryIds -> SUBSET Seq(SearchHit)]

VARIABLES
    options,    \* per side: the flags of its build
    fixture,    \* per side: the queries its build was given
    pending,    \* per side: the queries still to search
    results,    \* per side: the results collected so far
    artifact,   \* per side: the artifact, query -> fingerprint, once it is built
    stage,      \* the command that runs, or how the verification ended
    todo,       \* the matched queries whose distances are not added yet
    sums        \* the distances added so far

vars == <<options, fixture, pending, results, artifact, stage, todo, sums>>
buildVars == <<options, fixture, pending, results, artifact>>

Sides == {"source", "target"}
Kinds == {"stable", "flip", "boundary"}
NoArtifact == [q \in {} |-> {}]

Init ==
    /\ options \in [Sides -> Options]
    /\ fixture \in [Sides -> Fixtures]
    /\ pending = fixture
    /\ results = [side \in Sides |-> << >>]
    /\ artifact = [side \in Sides |-> NoArtifact]
    /\ stage = "source"
    /\ todo = {}
    /\ sums = [kind \in Kinds |-> 0]

-----------------------------------------------------------------------------
(* The build of one side.  *)

\* Faulty variant: a query whose search fails is left out.
SearchQuery_SkipsFailed(side) ==
    /\ stage = side
    /\ pending[side] # << >>
    /\ LET query == Head(pending[side]) IN
        \/ UNCHANGED results
        \/ \E hits \in Responses[query] :
            results' = [results EXCEPT ![side] = Append(@, [query |-> query, hits |-> hits])]
    /\ pending' = [pending EXCEPT ![side] = Tail(@)]
    /\ UNCHANGED <<options, fixture, artifact, stage, todo, sums>>

SearchQuery(side) ==
    /\ stage = side
    /\ pending[side] # << >>
    /\ LET query == Head(pending[side]) IN
        \E hits \in Responses[query] :
            results' = [results EXCEPT ![side] = Append(@, [query |-> query, hits |-> hits])]
    /\ pending' = [pending EXCEPT ![side] = Tail(@)]
    /\ UNCHANGED <<options, fixture, artifact, stage, todo, sums>>

\* A search fails, the fixture holds no query, or the builder refuses the
\* results: the command ends and nothing is written.
BuildFails(side) ==
    /\ stage = side
    /\ \/ pending[side] # << >>
       \/ results[side] = << >>
       \/ ~CanBuild(results[side], options[side])
    /\ stage' = "failed"
    /\ UNCHANGED <<buildVars, todo, sums>>

BuildArtifact(side) ==
    /\ stage = side
    /\ pending[side] = << >> /\ results[side] # << >>
    /\ CanBuild(results[side], options[side])
    /\ artifact' = [artifact EXCEPT ![side] = Artifact(results[side], options[side])]
    /\ stage' = IF side = "source" THEN "target" ELSE "load"
    /\ UNCHANGED <<options, fixture, pending, results, todo, sums>>

-----------------------------------------------------------------------------
(* The engine.  *)

Matched == DOMAIN artifact["source"] \intersect DOMAIN artifact["target"]
Unmatched == Differing(DOMAIN artifact["source"], DOMAIN artifact["target"])

LoadArtifacts ==
    /\ stage = "load"
    /\ todo' = Matched
    /\ stage' = "compare"
    /\ UNCHANGED <<buildVars, sums>>

CompareQuery ==
    /\ stage = "compare"
    /\ \E q \in todo :
        LET s == artifact["source"][q]
            t == artifact["target"][q]
        IN  /\ sums' = [stable |-> sums["stable"] + StableDistance(s, t),
                        flip |-> sums["flip"] + FlipRate(s, t),
                        boundary |-> sums["boundary"] + BoundaryDistance(s, t)]
            /\ todo' = todo \ {q}
    /\ UNCHANGED <<buildVars, stage>>

\* Faulty variant: an unmatched query is counted by the side that has it only
\* when that side is the source.
AddPenalty_SourceOnly ==
    /\ stage = "compare"
    /\ todo = {}
    /\ LET penalty == Scale * Cardinality(DOMAIN artifact["source"] \ DOMAIN artifact["target"])
       IN  sums' = [kind \in Kinds |-> sums[kind] + penalty]
    /\ stage' = "scored"
    /\ UNCHANGED <<buildVars, todo>>

\* Every query only one side has counts as a distance of 1.0.
AddPenalty ==
    /\ stage = "compare"
    /\ todo = {}
    /\ sums' = [kind \in Kinds |-> sums[kind] + Scale * Cardinality(Unmatched)]
    /\ stage' = "scored"
    /\ UNCHANGED <<buildVars, todo>>

\* 0.4 * stable + 0.4 * flip + 0.2 * boundary, each an average over all
\* queries: FingerprintDistance / FullDistance.
FingerprintDistance == 2 * sums["stable"] + 2 * sums["flip"] + sums["boundary"]
FullDistance == 5 * Scale * Cardinality(Matched \union Unmatched)

Next ==
    \/ \E side \in Sides : SearchQuery(side) \/ BuildFails(side) \/ BuildArtifact(side)
    \/ LoadArtifacts \/ CompareQuery \/ AddPenalty

Spec == Init /\ [][Next]_vars

-----------------------------------------------------------------------------
(* Properties.  *)

TypeOK ==
    /\ options \in [Sides -> Options]
    /\ fixture \in [Sides -> Seq(QueryIds)]
    /\ pending \in [Sides -> Seq(QueryIds)]
    /\ results \in [Sides -> Seq(SearchResult)]
    /\ DOMAIN artifact = Sides
    /\ \A side \in Sides : \E Q \in SUBSET (QueryIds \ {EmptyId}) :
        artifact[side] \in [Q -> QueryFingerprint]
    /\ stage \in Sides \union {"load", "compare", "scored", "failed"}
    /\ todo \in SUBSET QueryIds
    /\ sums \in [Kinds -> Nat]

\* "deriving stable-neighbor, boundary-candidate, and topK ID lists from rank-
\* ordered hits" (BuildArtifact): whatever order a response has, a hit with at
\* most topK hits ranked as good or better is in top_k_ids, and an id is there
\* only for a hit with fewer than topK better ones.  stable_neighbors are the
\* same for stableK.
Leads(ids, hits, k) ==
    /\ \A i \in DOMAIN hits :
        Cardinality({j \in DOMAIN hits : hits[j].rank <= hits[i].rank}) <= k => hits[i].id \in ids
    /\ \A id \in ids : \E i \in DOMAIN hits :
        /\ hits[i].id = id
        /\ Cardinality({j \in DOMAIN hits : hits[j].rank < hits[i].rank}) < k

LeadingHitsAreBestRanked ==
    \A side \in Sides : artifact[side] # NoArtifact =>
        \A i \in DOMAIN results[side] :
            LET hits == results[side][i].hits
                print == artifact[side][results[side][i].query]
            IN  /\ Leads(print.topK, hits, options[side].topK)
                /\ Leads(print.stable, hits, options[side].stableK)

\* An artifact is whole or is not written: one fingerprint for each query of
\* the fixture, made from an answer at least as long as the top K, whatever
\* search failed or came back short on the way and whatever the fixture
\* repeats.
ArtifactsAreWhole ==
    \A side \in Sides : artifact[side] # NoArtifact =>
        /\ DOMAIN artifact[side] = {fixture[side][i] : i \in DOMAIN fixture[side]}
        /\ \A i, j \in DOMAIN fixture[side] : fixture[side][i] = fixture[side][j] => i = j
        /\ \A i \in DOMAIN fixture[side] :
            /\ i \in DOMAIN results[side]
            /\ results[side][i].query = fixture[side][i]
            /\ Len(results[side][i].hits) >= options[side].topK

\* The places of the top K in neither window.
Unwatched(o) == (o.stableK + 1)..(o.topK - o.boundaryK)

\* What a fingerprint of the first artifact has in its top K and the second
\* artifact, for the same query, has not.
OnlyIn(one, other, q) == artifact[one][q].topK \ artifact[other][q].topK

\* What a score of 1.0 says, whatever the flags of the two builds: the same
\* queries, the same stable neighbours and candidates, and no more ids in one
\* top K alone than that build leaves places unwatched.  When both builds
\* watch every place, the artifacts are equal.  Equal artifacts always score
\* 1.0.
PerfectScoreMeansSameBehaviour ==
    stage = "scored" =>
        /\ artifact["source"] = artifact["target"] => FingerprintDistance = 0
        /\ FingerprintDistance = 0 =>
            /\ DOMAIN artifact["source"] = DOMAIN artifact["target"]
            /\ \A q \in Matched :
                /\ artifact["source"][q].stable = artifact["target"][q].stable
                /\ artifact["source"][q].boundary = artifact["target"][q].boundary
                /\ \A one, other \in Sides :
                    Cardinality(OnlyIn(one, other, q)) <= Cardinality(Unwatched(options[one]))

\* "Missing query IDs contribute a full-distance penalty so incomplete
\* artifacts lower the final consistency score" (compare_fingerprint_artifacts):
\* the distance is never less than what the unmatched queries cost, and never
\* so large that the clamp to [0, 1] would change it.
ScoreBounds ==
    stage = "scored" =>
        /\ 5 * Scale * Cardinality(Unmatched) <= FingerprintDistance
        /\ FingerprintDistance <= FullDistance
=============================================================================
