------------------------- MODULE MCVectorMigration -------------------------
(* Small instances of VectorMigration for TLC. *)
EXTENDS VectorMigration, TLC

CONSTANTS r1, r2, k1, k2, u, v, wide, nan

\* u and v can be migrated; wide has a component too many, nan is not finite.
MCDimensionOf == [x \in Vectors |-> IF x = wide THEN 3 ELSE 2]
MCFinite == Vectors \ {nan}
MCPreexisting == [k \in Ids |-> IF k = k1 THEN v ELSE NoVector]
=============================================================================
