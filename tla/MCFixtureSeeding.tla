-------------------------- MODULE MCFixtureSeeding --------------------------
(* Small instances of FixtureSeeding for TLC. *)
EXTENDS FixtureSeeding, TLC

CONSTANTS r1, m1, m2, p1, p2, k1, k2, u, v, fine, huge, inf, wide

\* In float32 fine is rounded to u and huge overflows to inf; wide has a
\* component more.
MCDimensionOf == [x \in Vectors |-> IF x = wide THEN 3 ELSE 2]
MCFinite == Vectors \ {inf}
MCNarrow == [x \in Vectors |-> CASE x = fine -> u [] x = huge -> inf [] OTHER -> x]
MCPreexisting == [k \in Ids |-> NoVector]

Rec(k, x) == [id |-> k, vec |-> x]
TwoRecords == [dim |-> 2, records |-> <<Rec(k1, fine), Rec(k2, v)>>]
OneRecord == [dim |-> 2, records |-> <<Rec(k1, v)>>]
WideRecord == [dim |-> 3, records |-> <<Rec(k2, wide)>>]
Overflowing == [dim |-> 2, records |-> <<Rec(k1, huge)>>]

\* Milvus seeders that can insert into each other's collection.
MCRivals == [s \in Seeders |-> IF s = m2 THEN OneRecord ELSE TwoRecords]
\* pgvector seeders of which one cannot write its record.
MCWriters == [s \in Seeders |-> IF s = p2 THEN Overflowing ELSE TwoRecords]
=============================================================================
