----------------------- MODULE MCArtifactComparison ------------------------
(* Small instances of ArtifactComparison for TLC. *)
EXTENDS ArtifactComparison, TLC

CONSTANTS q1, q2, a, b, c, d

Ranked(ids) == [i \in DOMAIN ids |-> [id |-> ids[i], rank |-> i]]
Rankings == {ids \in [1..3 -> {a, b, c, d}] : \A i, j \in 1..3 : ids[i] = ids[j] => i = j}

\* Answers of a connector, which ranks hits as they come, and of fixtures:
\* out of order, tied, with the same id twice, without an id, ranked 0.
Odd == {
    <<[id |-> b, rank |-> 2], [id |-> c, rank |-> 3], [id |-> a, rank |-> 1]>>,
    <<[id |-> c, rank |-> 2], [id |-> b, rank |-> 2], [id |-> a, rank |-> 1]>>,
    <<[id |-> a, rank |-> 1], [id |-> a, rank |-> 2], [id |-> b, rank |-> 3]>>,
    <<[id |-> a, rank |-> 1], [id |-> EmptyId, rank |-> 2], [id |-> b, rank |-> 3]>>,
    <<[id |-> a, rank |-> 0], [id |-> b, rank |-> 1]>>}

MCHitIds == {a, b, c, d, EmptyId}
MCResponses == [q \in QueryIds |->
    IF q = q1 THEN Odd \union {Ranked(ids) : ids \in Rankings} \union {Ranked(<<a, b>>)}
    ELSE {Ranked(<<a, b, c>>), Ranked(<<a>>)}]
MCFixtures == {<< >>, <<q1>>, <<q2>>, <<q1, q2>>, <<q1, q1>>, <<EmptyId>>}
MCOptions == {[topK |-> 2, stableK |-> 1, boundaryK |-> 1],
              [topK |-> 3, stableK |-> 1, boundaryK |-> 1],
              [topK |-> 2, stableK |-> 2, boundaryK |-> 3]}
=============================================================================
