------------------------- MODULE MCMigrateAndVerify -------------------------
(* Small instances of MigrateAndVerify for TLC. *)
EXTENDS MigrateAndVerify, TLC

CONSTANTS r1, x, y, old, a, b, c, p, q

MCDimensionOf == [w \in Vectors |-> 2]

\* A row of an earlier migration, and what a second column holds.
MCPreexisting == [k \in Ids |-> IF k = old THEN b ELSE NoVector]
MCEmbedding == [k \in Ids |-> CASE k = x -> a [] k = old -> c [] OTHER -> NoVector]

MCQueries == <<q, p>>

\* The nearest first: metrics and queries rank the vectors differently.
Order(metric, query) ==
    CASE query = q /\ metric = "l2" -> <<a, b, c>>
      [] query = q /\ metric = "cosine" -> <<a, c, b>>
      [] query = p -> <<c, b, a>>

MCFar == [m \in Metrics |-> [query \in QueryIds |-> [w \in Vectors |->
    CHOOSE n \in 1..3 : Order(m, query)[n] = w]]]

Call(topK, boundaryK, expandK, metric, column) ==
    [topK |-> topK, stableK |-> 1, boundaryK |-> boundaryK, expandK |-> expandK,
     metric |-> metric, column |-> column]

\* The last one is refused.
MCFlags == {Call(1, 1, 2, "l2", "embedding"), Call(2, 1, 3, "cosine", "embedding"),
            Call(2, 1, 2, "l2", "embedding")}
MCOtherColumn == {Call(1, 1, 2, "cosine", "other")}
=============================================================================
