--------------------------- MODULE FixtureSeeding ---------------------------
(***************************************************************************)
(* vdbg seed-milvus and vdbg seed-pgvector, sharing their databases with   *)
(* the migrate processes of VectorMigration.  seed-milvus drops and        *)
(* recreates the collection a migration reads, in seven calls; seed-       *)
(* pgvector upserts into the table a migration writes, row by row.         *)
(*                                                                         *)
(* A seeder stands for one command line and its fixture file, which may be *)
(* started any number of times; every call to a database is one action.    *)
(***************************************************************************)
EXTENDS VectorMigration

CONSTANTS
    MilvusSeeders,   \* seed-milvus command lines
    PGSeeders,       \* seed-pgvector command lines
    FixtureOf,       \* the fixture file of each
    Narrow,          \* float64 vector -> the float32 vector a database keeps
    MaxDimension     \* maxMilvusSeedDimension, maxPGVectorSeedDimension

VARIABLES
    collDim,         \* dimension of the collection's vector field
    seedPc,          \* per seeder: the call it is about to make, or how it ended
    sent,            \* per pgvector seeder: index of the next record to upsert
    intact,          \* auxiliary, per seeder: since its HasCollection (Milvus)
                     \* or its start (pgvector) nobody else changed its database
    before,          \* auxiliary, per pgvector seeder: the table at its start
    readFrom         \* auxiliary, per runner: fixtures known to be seeded, and
                     \* nothing else, when it asked for the row count

seedVars == <<collDim, seedPc, sent, intact, before, readFrom>>
allVars == <<vars, seedVars>>

Seeders == MilvusSeeders \union PGSeeders
Fixture == [dim: Nat, records: Seq(Record)]
UniqueIds(records) ==
    \A i, j \in DOMAIN records : records[i].id = records[j].id => i = j

\* internal/fixtures generates at least one record.
ASSUME SeedingAssumption ==
    /\ MilvusSeeders \intersect PGSeeders = {}
    /\ Runners \intersect Seeders = {}
    /\ FixtureOf \in [Seeders -> Fixture]
    /\ \A s \in Seeders : FixtureOf[s].records # << >>
    /\ Narrow \in [Vectors -> Vectors]
    /\ \A x \in Vectors : DimensionOf[Narrow[x]] = DimensionOf[x]
    /\ MaxDimension \in Nat
    /\ 0 \in TargetDims => Preexisting = [k \in Ids |-> NoVector]

MilvusCalls == {"has", "drop", "create", "index", "load", "insert", "flush"}
PGCalls == {"extension", "table", "upsert"}
SeedActive == {"connect"} \union MilvusCalls \union PGCalls
SeedEnded == {"idle", "done", "failed", "rejected", "crashed"}

\* The collection's row of a fixture record; a pgvector row likewise.
Stored(rec) == [id |-> rec.id, vec |-> Narrow[rec.vec]]
StoredRows(records) == [i \in DOMAIN records |-> Stored(records[i])]

\* Dimension and record checks, shared by both seeders.
WellFormed(f) ==
    /\ f.dim \in 1..MaxDimension
    /\ \A i \in DOMAIN f.records :
        /\ f.records[i].id # EmptyId
        /\ DimensionOf[f.records[i].vec] = f.dim

\* The table after every record was upserted in order: the last record of an
\* id wins, other rows stay.
Overlay(tab, records) ==
    [k \in Ids |->
        LET mine == {i \in DOMAIN records : records[i].id = k}
        IN  IF mine = {} THEN tab[k]
            ELSE Narrow[records[CHOOSE i \in mine : \A j \in mine : j <= i].vec]]

SeedingInit ==
    /\ Init
    /\ collDim = Dimension
    /\ seedPc = [s \in Seeders |-> "idle"]
    /\ sent = [s \in PGSeeders |-> 1]
    /\ intact = [s \in Seeders |-> FALSE]
    /\ before = [s \in PGSeeders |-> Preexisting]
    /\ readFrom = [r \in Runners |-> {}]

SeedGoto(s, label) == seedPc' = [seedPc EXCEPT ![s] = label]

\* s changed the collection: no other Milvus seeder has it to itself any more.
CollectionTouchedBy(s) ==
    intact' = [q \in Seeders |-> intact[q] /\ (q \in MilvusSeeders => q = s)]

TableTouchedBy(s) ==
    intact' = [q \in Seeders |-> intact[q] /\ (q \in PGSeeders => q = s)]

-----------------------------------------------------------------------------
(* seed-milvus.  *)

SeedStart(s) ==
    /\ seedPc[s] \in SeedEnded
    /\ SeedGoto(s, "connect")
    /\ intact' = [intact EXCEPT ![s] = FALSE]
    /\ UNCHANGED <<vars, collDim, sent, before, readFrom>>

\* The command connects first; Seed then checks the whole fixture before the
\* first call that writes.
SeedConnect(s) ==
    /\ seedPc[s] = "connect"
    /\ LET f == FixtureOf[s] IN
       SeedGoto(s, IF /\ WellFormed(f)
                      /\ \A i \in DOMAIN f.records : f.records[i].vec \in FiniteVectors
                   THEN "has" ELSE "rejected")
    /\ UNCHANGED <<vars, collDim, sent, intact, before, readFrom>>

\* Faulty variant: an existing collection is kept.
HasCollection_NeverDrops(s) ==
    /\ seedPc[s] = "has"
    /\ SeedGoto(s, "create")
    /\ intact' = [intact EXCEPT ![s] = TRUE]
    /\ UNCHANGED <<vars, collDim, sent, before, readFrom>>

HasCollection(s) ==
    /\ seedPc[s] = "has"
    /\ SeedGoto(s, IF coll = "absent" THEN "create" ELSE "drop")
    /\ intact' = [intact EXCEPT ![s] = TRUE]
    /\ UNCHANGED <<vars, collDim, sent, before, readFrom>>

\* Faulty variant: the row count of the old collection survives.
DropCollection_KeepsCount(s) ==
    /\ seedPc[s] = "drop"
    /\ coll' = "absent"
    /\ collDim' = 0
    /\ RowsBecome(<< >>)
    /\ CollectionTouchedBy(s)
    /\ SeedGoto(s, "create")
    /\ UNCHANGED <<flushed, targetVars, runnerVars, changes, faults, sawAll,
                   sent, before, readFrom>>

\* Whether dropping a collection somebody else just dropped is an error is up
\* to Milvus: SeedRefused covers the other outcome.
DropCollection(s) ==
    /\ seedPc[s] = "drop"
    /\ coll' = "absent"
    /\ collDim' = 0
    /\ RowsBecome(<< >>)
    /\ flushed' = 0
    /\ CollectionTouchedBy(s)
    /\ SeedGoto(s, "create")
    /\ UNCHANGED <<targetVars, runnerVars, changes, faults, sawAll, sent, before, readFrom>>

\* Creating a collection that somebody else just created with the same schema
\* may succeed, too.
CreateCollection(s) ==
    /\ seedPc[s] = "create"
    /\ \/ /\ coll = "absent"
          /\ coll' = "created"
          /\ collDim' = FixtureOf[s].dim
          /\ CollectionTouchedBy(s)
       \/ /\ coll # "absent" /\ collDim = FixtureOf[s].dim
          /\ UNCHANGED <<coll, collDim, intact>>
    /\ undisturbed' = [r \in Runners |-> FALSE]
    /\ SeedGoto(s, "index")
    /\ UNCHANGED <<rows, flushed, history, targetVars, runnerVars, changes, faults, sawAll,
                   sent, before, readFrom>>

CreateIndex(s) ==
    /\ seedPc[s] = "index"
    /\ coll # "absent"
    /\ coll' = IF coll = "created" THEN "indexed" ELSE coll
    /\ SeedGoto(s, "load")
    /\ UNCHANGED <<rows, flushed, history, targetVars, runnerVars, changes, faults, auxVars,
                   collDim, sent, intact, before, readFrom>>

LoadCollection(s) ==
    /\ seedPc[s] = "load"
    /\ coll \in {"indexed", "loaded"}
    /\ coll' = "loaded"
    /\ SeedGoto(s, "insert")
    /\ UNCHANGED <<rows, flushed, history, targetVars, runnerVars, changes, faults, auxVars,
                   collDim, sent, intact, before, readFrom>>

\* Faulty variant: reports success without the final Flush.
Insert_NoFlush(s) ==
    /\ seedPc[s] = "insert"
    /\ coll # "absent"
    /\ collDim = FixtureOf[s].dim
    /\ RowsBecome(rows \o StoredRows(FixtureOf[s].records))
    /\ CollectionTouchedBy(s)
    /\ SeedGoto(s, "done")
    /\ UNCHANGED <<coll, flushed, targetVars, runnerVars, changes, faults, sawAll,
                   collDim, sent, before, readFrom>>

\* All records in one call, as float32.
Insert(s) ==
    /\ seedPc[s] = "insert"
    /\ coll # "absent"
    /\ collDim = FixtureOf[s].dim
    /\ RowsBecome(rows \o StoredRows(FixtureOf[s].records))
    /\ CollectionTouchedBy(s)
    /\ SeedGoto(s, "flush")
    /\ UNCHANGED <<coll, flushed, targetVars, runnerVars, changes, faults, sawAll,
                   collDim, sent, before, readFrom>>

Flush(s) ==
    /\ seedPc[s] = "flush"
    /\ coll # "absent"
    /\ flushed' = Len(rows)
    /\ SeedGoto(s, "done")
    /\ UNCHANGED <<coll, rows, history, targetVars, runnerVars, changes, faults, auxVars,
                   collDim, sent, intact, before, readFrom>>

-----------------------------------------------------------------------------
(* seed-pgvector.  *)

\* The fixture is checked before the connection is opened; that vectors are
\* finite only when they are formatted, one by one.
PGStart(s) ==
    /\ seedPc[s] \in SeedEnded
    /\ SeedGoto(s, IF WellFormed(FixtureOf[s]) THEN "extension" ELSE "rejected")
    /\ sent' = [sent EXCEPT ![s] = 1]
    /\ before' = [before EXCEPT ![s] = table]
    /\ intact' = [intact EXCEPT ![s] = TRUE]
    /\ UNCHANGED <<vars, collDim, readFrom>>

CreateExtension(s) ==
    /\ seedPc[s] = "extension"
    /\ SeedGoto(s, "table")
    /\ UNCHANGED <<vars, collDim, sent, intact, before, readFrom>>

\* Faulty variant: an existing table is replaced by an empty one.
CreateTable_Replaces(s) ==
    /\ seedPc[s] = "table"
    /\ tableDim' = FixtureOf[s].dim
    /\ table' = [k \in Ids |-> NoVector]
    /\ SeedGoto(s, "upsert")
    /\ UNCHANGED <<sourceVars, runnerVars, changes, faults, auxVars,
                   collDim, sent, intact, before, readFrom>>

\* CREATE TABLE IF NOT EXISTS: an existing table keeps its rows and dimension.
CreateTable(s) ==
    /\ seedPc[s] = "table"
    /\ tableDim' = IF tableDim = 0 THEN FixtureOf[s].dim ELSE tableDim
    /\ SeedGoto(s, "upsert")
    /\ UNCHANGED <<sourceVars, table, runnerVars, changes, faults, auxVars,
                   collDim, sent, intact, before, readFrom>>

ToUpsert(s) == seedPc[s] = "upsert" /\ sent[s] <= Len(FixtureOf[s].records)
NextRecord(s) == FixtureOf[s].records[sent[s]]

SeedUpsert(s) ==
    /\ ToUpsert(s)
    /\ NextRecord(s).vec \in FiniteVectors
    /\ TableAccepts(Stored(NextRecord(s)))
    /\ table' = [table EXCEPT ![NextRecord(s).id] = Stored(NextRecord(s)).vec]
    /\ sent' = [sent EXCEPT ![s] = @ + 1]
    /\ TableTouchedBy(s)
    /\ undisturbed' = [r \in Runners |-> FALSE]
    /\ UNCHANGED <<sourceVars, tableDim, runnerVars, changes, faults, sawAll,
                   collDim, seedPc, before, readFrom>>

\* Faulty variant: stops one record early.
SeedFinish_OffByOne(s) ==
    /\ seedPc[s] = "upsert"
    /\ sent[s] >= Len(FixtureOf[s].records)
    /\ SeedGoto(s, "done")
    /\ UNCHANGED <<vars, collDim, sent, intact, before, readFrom>>

SeedFinish(s) ==
    /\ seedPc[s] = "upsert"
    /\ sent[s] > Len(FixtureOf[s].records)
    /\ SeedGoto(s, "done")
    /\ UNCHANGED <<vars, collDim, sent, intact, before, readFrom>>

-----------------------------------------------------------------------------
(* Failures of both, and the composition.  *)

\* Calls whose failure needs no fault: the database as it is refuses them, or
\* may.
SeedRefused(s) ==
    \/ seedPc[s] \in {"drop", "index", "insert", "flush"} /\ coll = "absent"
    \/ seedPc[s] = "create" /\ coll # "absent"
    \/ seedPc[s] = "load" /\ coll \in {"absent", "created"}
    \/ /\ seedPc[s] = "insert"
       /\ \/ collDim # FixtureOf[s].dim
          \/ \E i \in DOMAIN FixtureOf[s].records :
                Narrow[FixtureOf[s].records[i].vec] \notin FiniteVectors
    \/ /\ ToUpsert(s)
       /\ \/ NextRecord(s).vec \notin FiniteVectors
          \/ ~TableAccepts(Stored(NextRecord(s)))

\* An error ends the command; what the calls before it did stays.
SeedCallFails(s) ==
    /\ seedPc[s] \in SeedActive \ {"upsert"} \/ ToUpsert(s)
    /\ \/ SeedRefused(s) /\ UNCHANGED faults
       \/ faults < MaxFaults /\ faults' = faults + 1
    /\ SeedGoto(s, "failed")
    /\ UNCHANGED <<sourceVars, targetVars, runnerVars, changes, auxVars,
                   collDim, sent, intact, before, readFrom>>

\* A kill between two calls; also a call that was carried out although its
\* answer was lost, since nothing more is done in either case.
SeedCrash(s) ==
    /\ seedPc[s] \in SeedActive
    /\ faults < MaxFaults
    /\ faults' = faults + 1
    /\ SeedGoto(s, "crashed")
    /\ UNCHANGED <<sourceVars, targetVars, runnerVars, changes, auxVars,
                   collDim, sent, intact, before, readFrom>>

MilvusSeederStep(s) ==
    \/ SeedStart(s) \/ SeedConnect(s) \/ HasCollection(s) \/ DropCollection(s)
    \/ CreateCollection(s) \/ CreateIndex(s) \/ LoadCollection(s)
    \/ Insert(s) \/ Flush(s)

PGSeederStep(s) ==
    \/ PGStart(s) \/ CreateExtension(s) \/ CreateTable(s)
    \/ SeedUpsert(s) \/ SeedFinish(s)

Settled == {s \in MilvusSeeders : seedPc[s] = "done" /\ intact[s]}

MigrationStep(r) ==
    /\ RunnerStep(r)
    /\ readFrom' = IF pc[r] = "count" /\ pc'[r] = "query"
                   THEN [readFrom EXCEPT ![r] = {FixtureOf[s] : s \in Settled}]
                   ELSE readFrom
    /\ IF table' = table THEN UNCHANGED intact ELSE TableTouchedBy(r)
    /\ UNCHANGED <<collDim, seedPc, sent, before>>

MilvusFlushes == SourceFlush /\ UNCHANGED seedVars

SeedingNext ==
    \/ \E s \in MilvusSeeders : MilvusSeederStep(s)
    \/ \E s \in PGSeeders : PGSeederStep(s)
    \/ \E s \in Seeders : SeedCallFails(s) \/ SeedCrash(s)
    \/ \E r \in Runners : MigrationStep(r)
    \/ MilvusFlushes

SeedingSpec == SeedingInit /\ [][SeedingNext]_allVars

-----------------------------------------------------------------------------
(* Properties.  *)

SeedTypeOK ==
    /\ TypeOK
    /\ collDim \in Nat
    /\ seedPc \in [Seeders -> SeedActive \union SeedEnded]
    /\ sent \in [PGSeeders -> Nat \ {0}]
    /\ intact \in [Seeders -> BOOLEAN]
    /\ before \in [PGSeeders -> [Ids -> Vectors \union {NoVector}]]
    /\ readFrom \in [Runners -> SUBSET Fixture]

\* "Creates the Milvus collection boundary and inserts all synthetic records":
\* after seed-milvus succeeded, and as long as nobody else touched the
\* collection since it looked, the collection is loaded, holds the fixture's
\* records in float32 and nothing of what was there before, and its row count
\* counts them all, whatever crashed seeding left behind.
SeededExactly ==
    \A s \in Settled :
        /\ coll = "loaded"
        /\ rows = StoredRows(FixtureOf[s].records)
        /\ flushed = Len(rows)

\* The two commands fit together: a migration that asked for the row count
\* after seed-milvus succeeded, and succeeds undisturbed, leaves every fixture
\* id in the table with a vector of the fixture, because Insert is followed by
\* Flush and the row count is the limit of the migration's query.
SeededFixtureMigrates ==
    \A r \in Runners : pc[r] = "done" /\ undisturbed[r] =>
        \A f \in readFrom[r] : \A i \in DOMAIN f.records :
            \E j \in DOMAIN f.records :
                /\ f.records[j].id = f.records[i].id
                /\ Narrow[f.records[j].vec] = table[f.records[i].id]

\* seed-pgvector succeeds only on a table of the fixture's dimension, although
\* CREATE TABLE IF NOT EXISTS keeps a table of any; and with the table to itself
\* it upserted exactly its fixture over what it found, also over the rows of a
\* run that broke off.
PGSeedOverlays ==
    \A s \in PGSeeders : seedPc[s] = "done" =>
        /\ tableDim = FixtureOf[s].dim
        /\ intact[s] => table = Overlay(before[s], FixtureOf[s].records)

\* "The upsert behavior makes the same fixture safe to seed repeatedly"
\* (docs/pgvector-fixture-seeding.md): seeding a fixture whose records are all
\* in the table, by an earlier seed-pgvector or a migration, changes no row at
\* any point, also when it breaks off.
ReseedingIsInvisible ==
    \A s \in PGSeeders :
        /\ intact[s] /\ UniqueIds(FixtureOf[s].records)
        /\ before[s] = Overlay(before[s], FixtureOf[s].records)
        => table = before[s]

\* To a migration, seeding is what other clients do to its source and its target:
\* while collections are dropped and rows overwritten under it, it still copies
\* one snapshot, checked as a whole, and reports success only when nothing of it
\* is left to copy (Migrate, WritePGVectorMigrationRecords).
MigrationsKeepTheirContract ==
    [][\/ UNCHANGED Contract!cvars
       \/ \E s \in PGSeeders : SeedUpsert(s)
       \/ Contract!ContractNext]_allVars
=============================================================================
