-------------------------- MODULE MigrateAndVerify --------------------------
(***************************************************************************)
(* cmd/vdbg migrate-and-verify over both databases: migrate the collection *)
(* into the table (VectorMigration), search every query of the fixture in  *)
(* Milvus and then in pgvector (internal/connectors), build a fingerprint  *)
(* of each side and compare them (FingerprintArtifact).                    *)
(*                                                                         *)
(* The searches are exact, as the flat indexes the commands create are;    *)
(* rows at the same distance come in any order.  The artifact files and    *)
(* the engine's process are the subject of VerificationJob.                *)
(***************************************************************************)
EXTENDS Integers, VectorMigration

CONSTANTS
    QueryIds,        \* ids of verification queries
    Queries,         \* the queries of --fixture, in order
    QueryDimension,  \* the dimension of its query vectors
    Flags,           \* the flags the command may be called with
    Far,             \* metric -> query -> vector -> distance, in any unit
    Embedding,       \* what the column "embedding" holds when the migration
                     \* writes another one: id -> vector or NoVector
    Scale            \* the number that stands for a distance of 1.0

Metrics == {"cosine", "l2"}
Columns == {"embedding", "other"}
FlagSet == [topK: Int, stableK: Int, boundaryK: Int, expandK: Int,
            metric: Metrics, column: Columns]

FP == INSTANCE FingerprintArtifact WITH HitIds <- Ids

ASSUME VerifyAssumption ==
    /\ Queries \in Seq(QueryIds)
    /\ Flags \subseteq FlagSet
    /\ Far \in [Metrics -> [QueryIds -> [Vectors -> Nat]]]
    /\ Embedding \in [Ids -> Vectors \union {NoVector}]
    /\ IsFiniteSet(Ids)
    /\ Scale \in Nat \ {0}
    /\ \A n \in 1..Cardinality(Ids) : Scale % n = 0

VARIABLES
    flags,      \* per runner: the flags of its last call
    stage,      \* per runner: the command it is at, or how the run ended
    results,    \* per runner and side: the searches answered so far
    distance    \* per runner: query -> distance, once the artifacts are compared

verifyVars == <<flags, stage, results, distance>>
allVars == <<vars, verifyVars>>
migrationVars == <<sourceVars, targetVars, runnerVars, changes, auxVars>>

Sides == {"source", "target"}
Closed == {"idle", "scored", "failed", "killed"}
NoResults == [side \in Sides |-> << >>]
NoDistance == [q \in {} |-> 0]

-----------------------------------------------------------------------------
(* Search.  *)

\* Faulty variant: the search limit need not reach the boundary window.
ValidFlags_ShortExpand(f) ==
    /\ FP!ValidOptions(f)
    /\ f.expandK >= f.topK

ValidFlags(f) ==
    /\ FP!ValidOptions(f)
    /\ f.expandK >= f.topK + f.boundaryK

\* The limit nearest candidates, nearest first.
Nearest(candidates, limitK, far) ==
    LET n == IF Cardinality(candidates) <= limitK THEN Cardinality(candidates) ELSE limitK IN
    {pick \in [1..n -> candidates] :
        /\ \A i, j \in 1..n : i < j =>
            pick[i] # pick[j] /\ far[pick[i].vec] <= far[pick[j].vec]
        /\ \A c \in candidates : (\A i \in 1..n : pick[i] # c) =>
            \A i \in 1..n : far[pick[i].vec] <= far[c.vec]}

\* Rank is the position in the answer.
Hits(pick) == [i \in DOMAIN pick |-> [id |-> pick[i].id, rank |-> i]]

\* What a Milvus search may find: rows that are not flushed may be missing,
\* and of several rows with one id some may be.
Findable ==
    {S \in SUBSET RowSet : \A i \in 1..flushed : \E rec \in S : rec.id = rows[i].id}

\* The target build passes on the table and the metric but neither the id nor
\* the vector column: it always searches "embedding".
Searched(r) == IF flags[r].column = "embedding" THEN table ELSE Embedding

WithVector(r) ==
    {[id |-> k, vec |-> Searched(r)[k]] : k \in {j \in Ids : Searched(r)[j] # NoVector}}

\* Rows of the table whose searched column is NULL.
NullRows(r) == {k \in Ids : table[k] # NoVector /\ Searched(r)[k] = NoVector}

\* The answers the search of a query may get on a side; none when the search
\* is refused: a vector of another dimension, a missing collection or table, a
\* NULL distance among the answers.
SourceAnswers(r, query) ==
    IF coll = "loaded" /\ \A rec \in RowSet : DimensionOf[rec.vec] = QueryDimension
    THEN UNION {Nearest(S, flags[r].expandK, Far[flags[r].metric][query]) : S \in Findable}
    ELSE {}

\* Faulty variant: --metric is not passed on to the target build.
TargetAnswers_DefaultMetric(r, query) ==
    IF /\ tableDim = QueryDimension
       /\ NullRows(r) = {} \/ Cardinality(WithVector(r)) >= flags[r].expandK
    THEN Nearest(WithVector(r), flags[r].expandK, Far["cosine"][query])
    ELSE {}

TargetAnswers(r, query) ==
    IF /\ tableDim = QueryDimension
       /\ NullRows(r) = {} \/ Cardinality(WithVector(r)) >= flags[r].expandK
    THEN Nearest(WithVector(r), flags[r].expandK, Far[flags[r].metric][query])
    ELSE {}

Answered(r, side, query) ==
    IF side = "source" THEN SourceAnswers(r, query) ELSE TargetAnswers(r, query)

-----------------------------------------------------------------------------
(* The command.  *)

VerifyInit ==
    /\ Init
    /\ flags \in [Runners -> Flags]
    /\ stage = [r \in Runners |-> "idle"]
    /\ results = [r \in Runners |-> NoResults]
    /\ distance = [r \in Runners |-> NoDistance]

Enter(r, label) == stage' = [stage EXCEPT ![r] = label]

\* Faulty variant: the score of the run before is still there.
StartRun_KeepsScore(r) ==
    /\ stage[r] \in Closed
    /\ \E f \in Flags : ValidFlags(f) /\ flags' = [flags EXCEPT ![r] = f]
    /\ Start(r)
    /\ Enter(r, "migrate")
    /\ results' = [results EXCEPT ![r] = NoResults]
    /\ UNCHANGED distance

\* Flags are checked before anything is called.
StartRun(r) ==
    /\ stage[r] \in Closed
    /\ \E f \in Flags : ValidFlags(f) /\ flags' = [flags EXCEPT ![r] = f]
    /\ Start(r)
    /\ Enter(r, "migrate")
    /\ results' = [results EXCEPT ![r] = NoResults]
    /\ distance' = [distance EXCEPT ![r] = NoDistance]

\* The first command ends the run unless it succeeds.
Migrate(r) ==
    /\ stage[r] = "migrate"
    /\ Progress(r) \/ UpsertAnswerLost(r) \/ Crash(r)
    /\ Enter(r, CASE pc'[r] = "done" -> "source"
                  [] pc'[r] \in Active -> "migrate"
                  [] pc'[r] = "crashed" -> "killed"
                  [] OTHER -> "failed")
    /\ UNCHANGED <<flags, results, distance>>

Unsearched(r, side) == stage[r] = side /\ Len(results[r][side]) < Len(Queries)
NextQuery(r, side) == Queries[Len(results[r][side]) + 1]

SearchQuery(r, side) ==
    /\ Unsearched(r, side)
    /\ \E pick \in Answered(r, side, NextQuery(r, side)) :
        results' = [results EXCEPT ![r][side] =
                        Append(@, [query |-> NextQuery(r, side), hits |-> Hits(pick)])]
    /\ UNCHANGED <<migrationVars, faults, flags, stage, distance>>

CanBuild(r, side) == Queries # << >> /\ FP!CanBuild(results[r][side], flags[r])

BuildArtifact(r, side) ==
    /\ stage[r] = side /\ ~Unsearched(r, side)
    /\ CanBuild(r, side)
    /\ Enter(r, IF side = "source" THEN "target" ELSE "compare")
    /\ UNCHANGED <<migrationVars, faults, flags, results, distance>>

ArtifactOf(r, side) == FP!Artifact(results[r][side], flags[r])

\* 0.4 * stable + 0.4 * flip + 0.2 * boundary, times 5 * Scale.
QueryDistance(s, t) ==
    2 * FP!StableDistance(s, t) + 2 * FP!FlipRate(s, t) + FP!BoundaryDistance(s, t)

\* Faulty variant: both paths are those of the source artifact.
Compare_SourceTwice(r) ==
    /\ stage[r] = "compare"
    /\ distance' = [distance EXCEPT ![r] =
            [q \in DOMAIN ArtifactOf(r, "source") |->
                QueryDistance(ArtifactOf(r, "source")[q], ArtifactOf(r, "source")[q])]]
    /\ Enter(r, "scored")
    /\ UNCHANGED <<migrationVars, faults, flags, results>>

\* Both artifacts have the queries of the one fixture.
Compare(r) ==
    /\ stage[r] = "compare"
    /\ distance' = [distance EXCEPT ![r] =
            [q \in DOMAIN ArtifactOf(r, "source") |->
                QueryDistance(ArtifactOf(r, "source")[q], ArtifactOf(r, "target")[q])]]
    /\ Enter(r, "scored")
    /\ UNCHANGED <<migrationVars, faults, flags, results>>

\* A search that can only fail, or results the builder refuses.
StepRefused(r) ==
    \E side \in Sides :
        /\ stage[r] = side
        /\ IF Unsearched(r, side) THEN Answered(r, side, NextQuery(r, side)) = {}
           ELSE ~CanBuild(r, side)

\* Any error ends the run at once; the migrated rows stay.
StepFails(r) ==
    /\ stage[r] \in Sides \union {"compare"}
    /\ \/ StepRefused(r) /\ Enter(r, "failed") /\ UNCHANGED faults
       \/ /\ faults < MaxFaults
          /\ faults' = faults + 1
          /\ \E end \in {"failed", "killed"} : Enter(r, end)
    /\ UNCHANGED <<migrationVars, flags, results, distance>>

VerifyNext ==
    \/ \E r \in Runners :
        \/ StartRun(r) \/ Migrate(r)
        \/ \E side \in Sides : SearchQuery(r, side) \/ BuildArtifact(r, side)
        \/ Compare(r) \/ StepFails(r)
    \/ OtherClients /\ UNCHANGED verifyVars

VerifySpec == VerifyInit /\ [][VerifyNext]_allVars

-----------------------------------------------------------------------------
(* Properties.  *)

Distances == [{Queries[i] : i \in DOMAIN Queries} -> Nat]

VerifyTypeOK ==
    /\ TypeOK
    /\ flags \in [Runners -> Flags]
    /\ stage \in [Runners -> {"migrate", "compare"} \union Sides \union Closed]
    /\ results \in [Runners -> [Sides -> Seq([query: QueryIds, hits: Seq([id: Ids, rank: Nat])])]]
    /\ \A r \in Runners : \A side \in Sides :
        /\ Len(results[r][side]) <= Len(Queries)
        /\ \A i \in DOMAIN results[r][side] : results[r][side][i].query = Queries[i]
    /\ distance \in [Runners -> Distances \union {NoDistance}]
    /\ \A r \in Runners : distance[r] \in (IF stage[r] = "scored" THEN Distances ELSE {NoDistance})

\* The run is over and nothing that others did is in its answers.
ScoredAlone(r) == stage[r] = "scored" /\ undisturbed[r]

Perfect(r) == \A q \in DOMAIN distance[r] : distance[r][q] = 0

\* No two of these records are equally far from a query.
Ordered(records, f) ==
    \A i \in DOMAIN Queries : \A a, b \in records :
        Far[f.metric][Queries[i]][a.vec] = Far[f.metric][Queries[i]][b.vec] => a = b

UniqueIds == \A i, j \in DOMAIN rows : rows[i].id = rows[j].id => i = j
TargetIds(r) == {k \in Ids : table[k] # NoVector \/ Searched(r)[k] # NoVector}
NoStaleRows(r) == TargetIds(r) = {rec.id : rec \in RowSet}

\* The source as a migration can carry it over and a search can rank it.
Faithful(r) ==
    sawAll[r] /\ UniqueIds /\ NoStaleRows(r) /\ Ordered(RowSet, flags[r])

\* "migrate Milvus -> pgvector, build source and target fingerprint artifact,
\* compare" (docs/migrate-and-verify-cli.md): a complete migration of rows that
\* no query sees at the same distance scores 1.0, whatever vectors the target
\* held before, if nobody else changed the data and the table has no other row.
FaithfulCopyScoresPerfect ==
    \A r \in Runners :
        ScoredAlone(r) /\ flags[r].column = "embedding" /\ Faithful(r) => Perfect(r)

\* The same for every --pgvector-vector-column: the artifacts are those of what
\* was migrated.  The code breaks it: the target build is not told the column.
VerifiesWhatItMigrated ==
    \A r \in Runners : ScoredAlone(r) /\ Faithful(r) => Perfect(r)

\* "does not delete stale target records" (docs/migrate-and-verify-cli.md), so
\* the verification has to see them: behind a score of 1.0 no row that the
\* source does not have is among the top K of any query in the target.
PerfectScoreExcludesStaleRows ==
    \A r \in Runners :
        /\ ScoredAlone(r) /\ Perfect(r)
        /\ flags[r].column = "embedding"
        /\ flags[r].stableK + flags[r].boundaryK >= flags[r].topK
        => \A i \in DOMAIN Queries : \A k \in TargetIds(r) :
            LET far == Far[flags[r].metric][Queries[i]] IN
            Cardinality({j \in TargetIds(r) : far[table[j]] <= far[table[k]]}) <= flags[r].topK
            => k \in {rec.id : rec \in RowSet}

\* "ExpandK is used as the search limit so boundary candidates can be captured"
\* (MilvusConnector.Search): a fingerprint built from the answers cut off at
\* expandK is that of the whole ranking of its side, so that a hit missing
\* from a window is missing from the database.  Of source rows that share an
\* id a search may leave some out.
Whole(r, side, records) ==
    Ordered(records, flags[r]) =>
        \A i \in DOMAIN Queries :
            \A pick \in Nearest(records, Cardinality(records), Far[flags[r].metric][Queries[i]]) :
                ArtifactOf(r, side)[Queries[i]] = FP!Fingerprint(Hits(pick), flags[r])

WindowsAreSeenWhole ==
    \A r \in Runners : ScoredAlone(r) =>
        /\ sawAll[r] /\ UniqueIds => Whole(r, "source", RowSet)
        /\ Whole(r, "target", WithVector(r))
=============================================================================
