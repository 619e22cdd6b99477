------------------------ MODULE FixtureSeedingProofs ------------------------
(***************************************************************************)
(* Proofs about FixtureSeeding for any number of seeders and migrations    *)
(* and for any fixtures.                                                   *)
(***************************************************************************)
EXTENDS FixtureSeeding, VectorMigrationProofs

-----------------------------------------------------------------------------
(* Type correctness.  *)

\* A fixture's records are records, and so are the rows made of them.
LEMMA FixtureType ==
  ASSUME NEW s \in Seeders
  PROVE  /\ FixtureOf[s] \in Fixture
         /\ FixtureOf[s].records \in Seq(Record)
         /\ FixtureOf[s].dim \in Nat
         /\ DOMAIN FixtureOf[s].records = 1..Len(FixtureOf[s].records)
         /\ StoredRows(FixtureOf[s].records) \in Seq(Record)
<1>1. FixtureOf[s] \in Fixture
  BY SeedingAssumption
<1>2. FixtureOf[s].records \in Seq(Record) /\ FixtureOf[s].dim \in Nat
  BY <1>1 DEF Fixture
<1> DEFINE records == FixtureOf[s].records
<1>3. \A i \in 1..Len(records) : Stored(records[i]) \in Record
  <2> SUFFICES ASSUME NEW i \in 1..Len(records) PROVE Stored(records[i]) \in Record
    OBVIOUS
  <2>1. records[i] \in Record
    BY <1>2
  <2>2. QED
    BY <2>1, SeedingAssumption DEF Stored, Record
<1>4. DOMAIN records = 1..Len(records) /\ Len(records) \in Nat
  BY <1>2
<1> HIDE DEF records
<1>5. StoredRows(records) \in Seq(Record)
  BY <1>3, <1>4 DEF StoredRows
<1>6. QED
  BY <1>1, <1>2, <1>4, <1>5 DEF records

\* The types hold initially.
LEMMA SeedTypeInit == SeedingInit => SeedTypeOK
<1> SUFFICES ASSUME SeedingInit PROVE SeedTypeOK
  OBVIOUS
<1>1. TypeOK
  BY TypeInit DEF SeedingInit
<1>2. QED
  BY <1>1, ConstantsAssumption DEF SeedingInit, SeedTypeOK, SeedEnded

\* A step of VectorMigration inside the composition keeps its types.
LEMMA InnerStep ==
  /\ \A r \in Runners : MigrationStep(r) => [Next]_vars
  /\ MilvusFlushes => [Next]_vars
  /\ UNCHANGED allVars => [Next]_vars
BY DEF MigrationStep, MilvusFlushes, Next, OtherClients, allVars

\* Every step keeps the types.
LEMMA SeedTypeStep == SeedTypeOK /\ [SeedingNext]_allVars => SeedTypeOK'
<1> SUFFICES ASSUME SeedTypeOK, [SeedingNext]_allVars PROVE SeedTypeOK'
  OBVIOUS
<1> USE DEF sourceVars, targetVars, runnerVars, auxVars
<1>0. /\ TypeOK
      /\ collDim \in Nat
      /\ seedPc \in [Seeders -> SeedActive \union SeedEnded]
      /\ sent \in [PGSeeders -> Nat \ {0}]
      /\ intact \in [Seeders -> BOOLEAN]
      /\ before \in [PGSeeders -> [Ids -> Vectors \union {NoVector}]]
      /\ readFrom \in [Runners -> SUBSET Fixture]
  BY DEF SeedTypeOK
<1>t. /\ rows \in Seq(Record) /\ flushed \in 0..Len(rows) /\ history \in SUBSET Record
      /\ table \in [Ids -> Vectors \union {NoVector}] /\ tableDim \in Nat
      /\ undisturbed \in [Runners -> BOOLEAN] /\ faults \in Nat
      /\ coll \in CollectionStates
  BY <1>0 DEF TypeOK
<1>s. MilvusSeeders \subseteq Seeders /\ PGSeeders \subseteq Seeders
  BY DEF Seeders
\* A seeder's step keeps the types when what it assigns has the right type.
<1>a. ASSUME UNCHANGED <<runnerVars, changes, sawAll, readFrom>>,
             coll' \in CollectionStates, rows' \in Seq(Record),
             flushed' \in 0..Len(rows'), history' \in SUBSET Record,
             table' \in [Ids -> Vectors \union {NoVector}], tableDim' \in Nat,
             undisturbed' \in [Runners -> BOOLEAN], faults' \in Nat,
             collDim' \in Nat, intact' \in [Seeders -> BOOLEAN],
             sent' \in [PGSeeders -> Nat \ {0}],
             before' \in [PGSeeders -> [Ids -> Vectors \union {NoVector}]],
             seedPc' \in [Seeders -> SeedActive \union SeedEnded]
      PROVE  SeedTypeOK'
  <2>1. TypeOK'
    BY <1>0, <1>a DEF TypeOK
  <2>2. QED
    BY <1>0, <1>a, <2>1 DEF SeedTypeOK
<1>g. ASSUME NEW s \in Seeders, NEW label \in SeedActive \union SeedEnded, SeedGoto(s, label)
      PROVE  seedPc' \in [Seeders -> SeedActive \union SeedEnded]
  BY <1>0, <1>g DEF SeedGoto
<1>l. /\ {"connect", "has", "drop", "create", "index", "load", "insert", "flush",
          "extension", "table", "upsert"} \subseteq SeedActive \union SeedEnded
      /\ {"done", "failed", "rejected", "crashed"} \subseteq SeedActive \union SeedEnded
  BY DEF SeedActive, SeedEnded, MilvusCalls, PGCalls
<1>e. << >> \in Seq(Record) /\ Len(<< >>) = 0
  OBVIOUS
<1>1. ASSUME NEW s \in MilvusSeeders, SeedStart(s) PROVE SeedTypeOK'
  <2>1. SeedGoto(s, "connect") /\ intact' \in [Seeders -> BOOLEAN]
    BY <1>0, <1>1 DEF SeedStart
  <2>2. QED
    BY <1>0, <1>1, <1>a, <1>g, <1>l, <1>s, <1>t, <2>1 DEF SeedStart, vars
<1>2. ASSUME NEW s \in MilvusSeeders, SeedConnect(s) PROVE SeedTypeOK'
  <2>1. SeedGoto(s, "has") \/ SeedGoto(s, "rejected")
    BY <1>2 DEF SeedConnect
  <2>2. QED
    BY <1>0, <1>2, <1>a, <1>g, <1>l, <1>s, <1>t, <2>1 DEF SeedConnect, vars
<1>3. ASSUME NEW s \in MilvusSeeders, HasCollection(s) PROVE SeedTypeOK'
  <2>1. SeedGoto(s, "create") \/ SeedGoto(s, "drop")
    BY <1>3 DEF HasCollection
  <2>2. intact' \in [Seeders -> BOOLEAN]
    BY <1>0, <1>3 DEF HasCollection
  <2>3. QED
    BY <1>0, <1>3, <1>a, <1>g, <1>l, <1>s, <1>t, <2>1, <2>2 DEF HasCollection, vars
<1>4. ASSUME NEW s \in MilvusSeeders, DropCollection(s) PROVE SeedTypeOK'
  <2>1. SeedGoto(s, "create") /\ intact' \in [Seeders -> BOOLEAN]
    BY <1>0, <1>4 DEF DropCollection, CollectionTouchedBy
  <2>2. /\ rows' = << >> /\ flushed' = 0 /\ history' = history
        /\ undisturbed' \in [Runners -> BOOLEAN]
    BY <1>4 DEF DropCollection, RowsBecome
  <2>3. coll' \in CollectionStates /\ collDim' \in Nat
    BY <1>4 DEF DropCollection, CollectionStates
  <2>4. QED
    BY <1>0, <1>4, <1>a, <1>e, <1>g, <1>l, <1>s, <1>t, <2>1, <2>2, <2>3 DEF DropCollection
<1>5. ASSUME NEW s \in MilvusSeeders, CreateCollection(s) PROVE SeedTypeOK'
  <2>1. SeedGoto(s, "index") /\ undisturbed' \in [Runners -> BOOLEAN]
    BY <1>5 DEF CreateCollection
  <2>2. coll' \in CollectionStates /\ collDim' \in Nat /\ intact' \in [Seeders -> BOOLEAN]
    BY <1>0, <1>5, <1>s, <1>t, FixtureType
       DEF CreateCollection, CollectionStates, CollectionTouchedBy
  <2>3. QED
    BY <1>0, <1>5, <1>a, <1>g, <1>l, <1>s, <1>t, <2>1, <2>2 DEF CreateCollection
<1>6. ASSUME NEW s \in MilvusSeeders, CreateIndex(s) PROVE SeedTypeOK'
  <2>1. SeedGoto(s, "load") /\ coll' \in CollectionStates
    BY <1>6, <1>t DEF CreateIndex, CollectionStates
  <2>2. QED
    BY <1>0, <1>6, <1>a, <1>g, <1>l, <1>s, <1>t, <2>1 DEF CreateIndex
<1>7. ASSUME NEW s \in MilvusSeeders, LoadCollection(s) PROVE SeedTypeOK'
  <2>1. SeedGoto(s, "insert") /\ coll' \in CollectionStates
    BY <1>7 DEF LoadCollection, CollectionStates
  <2>2. QED
    BY <1>0, <1>7, <1>a, <1>g, <1>l, <1>s, <1>t, <2>1 DEF LoadCollection
<1>8. ASSUME NEW s \in MilvusSeeders, Insert(s) PROVE SeedTypeOK'
  <2> DEFINE new == rows \o StoredRows(FixtureOf[s].records)
  <2>1. SeedGoto(s, "flush") /\ intact' \in [Seeders -> BOOLEAN]
    BY <1>0, <1>8 DEF Insert, CollectionTouchedBy
  <2>2. /\ new \in Seq(Record) /\ Len(new) \in Nat /\ Len(rows) <= Len(new)
        /\ flushed \in 0..Len(new)
    <3>1. StoredRows(FixtureOf[s].records) \in Seq(Record)
      BY <1>s, FixtureType
    <3>2. QED
      BY <1>t, <3>1
  <2>3. RowsBecome(new)
    BY <1>8 DEF Insert
  <2> HIDE DEF new
  <2>4. {new[i] : i \in DOMAIN new} \subseteq Record
    BY <2>2, ElementsOfSeq
  <2>5. /\ rows' = new /\ history' \in SUBSET Record
        /\ undisturbed' \in [Runners -> BOOLEAN]
    BY <1>t, <2>3, <2>4 DEF RowsBecome
  <2>6. UNCHANGED <<coll, flushed, targetVars, runnerVars, changes, faults, sawAll,
                    collDim, sent, before, readFrom>>
    BY <1>8 DEF Insert
  <2>7. QED
    BY <1>0, <1>a, <1>g, <1>l, <1>s, <1>t, <2>1, <2>2, <2>5, <2>6
<1>9. ASSUME NEW s \in MilvusSeeders, Flush(s) PROVE SeedTypeOK'
  <2>1. SeedGoto(s, "done") /\ flushed' \in 0..Len(rows)
    BY <1>9, <1>t DEF Flush
  <2>2. QED
    BY <1>0, <1>9, <1>a, <1>g, <1>l, <1>s, <1>t, <2>1 DEF Flush
<1>10. ASSUME NEW s \in PGSeeders, PGStart(s) PROVE SeedTypeOK'
  <2>1. SeedGoto(s, "extension") \/ SeedGoto(s, "rejected")
    BY <1>10 DEF PGStart
  <2>2. /\ intact' \in [Seeders -> BOOLEAN] /\ sent' \in [PGSeeders -> Nat \ {0}]
        /\ before' \in [PGSeeders -> [Ids -> Vectors \union {NoVector}]]
    <3>1. intact' = [intact EXCEPT ![s] = TRUE] /\ sent' = [sent EXCEPT ![s] = 1]
      BY <1>10 DEF PGStart
    <3>2. before' = [before EXCEPT ![s] = table]
      BY <1>10 DEF PGStart
    <3>3. intact' \in [Seeders -> BOOLEAN]
      BY <1>0, <3>1
    <3>4. sent' \in [PGSeeders -> Nat \ {0}]
      BY <1>0, <3>1
    <3>5. before' \in [PGSeeders -> [Ids -> Vectors \union {NoVector}]]
      BY <1>0, <1>t, <3>2
    <3>6. QED
      BY <3>3, <3>4, <3>5
  <2>3. QED
    BY <1>0, <1>10, <1>a, <1>g, <1>l, <1>s, <1>t, <2>1, <2>2 DEF PGStart, vars
<1>11. ASSUME NEW s \in PGSeeders, CreateExtension(s) PROVE SeedTypeOK'
  <2>1. SeedGoto(s, "table")
    BY <1>11 DEF CreateExtension
  <2>2. QED
    BY <1>0, <1>11, <1>a, <1>g, <1>l, <1>s, <1>t, <2>1 DEF CreateExtension, vars
<1>12. ASSUME NEW s \in PGSeeders, CreateTable(s) PROVE SeedTypeOK'
  <2>1. SeedGoto(s, "upsert") /\ tableDim' \in Nat
    BY <1>12, <1>s, <1>t, FixtureType DEF CreateTable
  <2>2. QED
    BY <1>0, <1>12, <1>a, <1>g, <1>l, <1>s, <1>t, <2>1 DEF CreateTable
<1>13. ASSUME NEW s \in PGSeeders, SeedUpsert(s) PROVE SeedTypeOK'
  <2>1. Stored(NextRecord(s)).vec \in Vectors
    <3>1. sent[s] \in 1..Len(FixtureOf[s].records) /\ FixtureOf[s].records \in Seq(Record)
      BY <1>0, <1>13, <1>s, FixtureType DEF SeedUpsert, ToUpsert
    <3>2. NextRecord(s) \in Record
      BY <3>1 DEF NextRecord
    <3>3. QED
      BY <3>2, SeedingAssumption DEF Stored, Record
  <2>2. /\ table' \in [Ids -> Vectors \union {NoVector}]
        /\ sent' \in [PGSeeders -> Nat \ {0}]
    <3>1. /\ table' = [table EXCEPT ![NextRecord(s).id] = Stored(NextRecord(s)).vec]
          /\ sent' = [sent EXCEPT ![s] = sent[s] + 1]
      BY <1>13 DEF SeedUpsert
    <3>2. table' \in [Ids -> Vectors \union {NoVector}]
      BY <1>t, <2>1, <3>1
    <3>3. sent' \in [PGSeeders -> Nat \ {0}]
      BY <1>0, <3>1
    <3>4. QED
      BY <3>2, <3>3
  <2>3. intact' \in [Seeders -> BOOLEAN] /\ undisturbed' \in [Runners -> BOOLEAN]
    BY <1>0, <1>13 DEF SeedUpsert, TableTouchedBy
  <2>4. QED
    BY <1>0, <1>13, <1>a, <1>t, <2>2, <2>3 DEF SeedUpsert
<1>14. ASSUME NEW s \in PGSeeders, SeedFinish(s) PROVE SeedTypeOK'
  <2>1. SeedGoto(s, "done")
    BY <1>14 DEF SeedFinish
  <2>2. QED
    BY <1>0, <1>14, <1>a, <1>g, <1>l, <1>s, <1>t, <2>1 DEF SeedFinish, vars
<1>15. ASSUME NEW s \in Seeders, SeedCallFails(s) \/ SeedCrash(s) PROVE SeedTypeOK'
  <2>1. SeedGoto(s, "failed") \/ SeedGoto(s, "crashed")
    BY <1>15 DEF SeedCallFails, SeedCrash
  <2>2. faults' \in Nat
    BY <1>15, <1>t DEF SeedCallFails, SeedCrash
  <2>3. UNCHANGED <<sourceVars, targetVars, runnerVars, changes, auxVars,
                    collDim, sent, intact, before, readFrom>>
    BY <1>15 DEF SeedCallFails, SeedCrash
  <2>4. QED
    BY <1>0, <1>a, <1>g, <1>l, <1>s, <1>t, <2>1, <2>2, <2>3
<1>16. ASSUME NEW r \in Runners, MigrationStep(r) PROVE SeedTypeOK'
  <2>1. TypeOK'
    BY <1>0, <1>16, InnerStep, TypeStep
  <2>2. intact' \in [Seeders -> BOOLEAN]
    BY <1>0, <1>16 DEF MigrationStep, TableTouchedBy
  <2>3. {FixtureOf[s] : s \in Settled} \subseteq Fixture
    BY <1>s, FixtureType DEF Settled
  <2>4. readFrom' \in [Runners -> SUBSET Fixture]
    BY <1>0, <1>16, <2>3 DEF MigrationStep
  <2>5. QED
    BY <1>0, <1>16, <2>1, <2>2, <2>4 DEF MigrationStep, SeedTypeOK
<1>17. CASE MilvusFlushes \/ UNCHANGED allVars
  <2>1. TypeOK' /\ UNCHANGED seedVars
    BY <1>0, <1>17, InnerStep, TypeStep DEF MilvusFlushes, allVars
  <2>2. QED
    BY <1>0, <2>1 DEF SeedTypeOK, seedVars
<1>18. QED
  BY <1>1, <1>2, <1>3, <1>4, <1>5, <1>6, <1>7, <1>8, <1>9, <1>10, <1>11, <1>12, <1>13,
     <1>14, <1>15, <1>16, <1>17
     DEF SeedingNext, MilvusSeederStep, PGSeederStep

\* Every variable of seeding and migrating together keeps its type; above all,
\* the row count never exceeds the rows, whoever drops or refills a collection.
THEOREM SeedingTypeCorrect == SeedingSpec => []SeedTypeOK
BY SeedTypeInit, SeedTypeStep, PTL DEF SeedingSpec

-----------------------------------------------------------------------------
(* seed-pgvector: the table is what it found, overlaid with a prefix of the *)
(* fixture.                                                                 *)

\* The table after the first n records were upserted in order.
Upto(tab, records, n) ==
    [k \in Ids |->
        LET mine == {i \in 1..n : records[i].id = k}
        IN  IF mine = {} THEN tab[k]
            ELSE Narrow[records[CHOOSE i \in mine : \A j \in mine : j <= i].vec]]

\* Nothing upserted, nothing changed.
LEMMA UptoNone ==
  ASSUME NEW S, NEW tab \in [Ids -> S], NEW records
  PROVE  Upto(tab, records, 0) = tab
<1>1. \A k \in Ids : {i \in 1..0 : records[i].id = k} = {}
  OBVIOUS
<1>2. \A k \in Ids : Upto(tab, records, 0)[k] = tab[k]
  BY <1>1 DEF Upto
<1>3. Upto(tab, records, 0) = [k \in Ids |-> Upto(tab, records, 0)[k]]
  BY DEF Upto
<1>4. QED
  BY <1>2, <1>3

\* One more record replaces the row of its id and leaves the others.
LEMMA UptoNext ==
  ASSUME NEW tab, NEW records, NEW n \in Nat
  PROVE  Upto(tab, records, n + 1) =
            [Upto(tab, records, n) EXCEPT ![records[n + 1].id] = Narrow[records[n + 1].vec]]
<1> DEFINE mine(k, m) == {i \in 1..m : records[i].id = k}
           last(k, m) == CHOOSE i \in mine(k, m) : \A j \in mine(k, m) : j <= i
           new == [Upto(tab, records, n) EXCEPT ![records[n + 1].id] = Narrow[records[n + 1].vec]]
<1>1. \A i \in 1..(n + 1) : i \in 1..n \/ i = n + 1
  OBVIOUS
<1>2. n + 1 \in 1..(n + 1) /\ 1..n \subseteq 1..(n + 1) /\ n + 1 \notin 1..n
  OBVIOUS
<1>3. \A k, m : m \in Nat /\ k \in Ids =>
        Upto(tab, records, m)[k] =
            IF mine(k, m) = {} THEN tab[k] ELSE Narrow[records[last(k, m)].vec]
  BY DEF Upto
<1>4. ASSUME NEW k \in Ids PROVE Upto(tab, records, n + 1)[k] = new[k]
  <2>1. CASE k = records[n + 1].id
    <3>1. n + 1 \in mine(k, n + 1) /\ \A j \in mine(k, n + 1) : j <= n + 1
      BY <1>2, <2>1
    <3>2. \A i \in mine(k, n + 1) : (\A j \in mine(k, n + 1) : j <= i) => i = n + 1
      <4>1. \A i \in 1..(n + 1) : n + 1 <= i => i = n + 1
        OBVIOUS
      <4>2. QED
        BY <3>1, <4>1
    <3> HIDE DEF mine
    <3>3. last(k, n + 1) = n + 1
      BY <3>1, <3>2
    <3> HIDE DEF last
    <3>4. Upto(tab, records, n + 1)[k] = Narrow[records[n + 1].vec]
      BY <1>3, <3>1, <3>3
    <3>5. new[k] = Narrow[records[n + 1].vec]
      BY <2>1 DEF Upto
    <3>6. QED
      BY <3>4, <3>5
  <2>2. CASE k # records[n + 1].id
    <3>1. mine(k, n + 1) = mine(k, n)
      BY <1>1, <1>2, <2>2
    <3>2. last(k, n + 1) = last(k, n)
      BY <3>1
    <3> HIDE DEF mine, last
    <3>3. Upto(tab, records, n + 1)[k] = Upto(tab, records, n)[k]
      BY <1>3, <3>1, <3>2
    <3>4. new[k] = Upto(tab, records, n)[k]
      BY <2>2 DEF Upto
    <3>5. QED
      BY <3>3, <3>4
  <2>3. QED
    BY <2>1, <2>2
<1>5. \A m : Upto(tab, records, m) = [k \in Ids |-> Upto(tab, records, m)[k]]
  BY DEF Upto
<1>6. new = [k \in Ids |-> new[k]]
  BY <1>5
<1>7. QED
  <2> DEFINE old == Upto(tab, records, n + 1)
  <2>1. old = [k \in Ids |-> old[k]]
    BY <1>5
  <2>2. \A k \in Ids : old[k] = new[k]
    BY <1>4
  <2> HIDE DEF new, old
  <2>3. [k \in Ids |-> old[k]] = [k \in Ids |-> new[k]]
    BY <2>2
  <2>4. old = new
    BY <1>6, <2>1, <2>3
  <2>5. QED
    BY <2>4 DEF new, old

\* All of them is the overlay.
LEMMA UptoAll ==
  ASSUME NEW tab, NEW records, DOMAIN records = 1..Len(records)
  PROVE  Upto(tab, records, Len(records)) = Overlay(tab, records)
BY DEF Upto, Overlay

\* Upserting part of a fixture with unique ids over a table that holds all of
\* it changes nothing.
LEMMA UptoOverItself ==
  ASSUME NEW S, NEW tab \in [Ids -> S], NEW records, UniqueIds(records),
         Len(records) \in Nat, DOMAIN records = 1..Len(records),
         tab = Overlay(tab, records),
         NEW n \in 0..Len(records)
  PROVE  Upto(tab, records, n) = tab
<1> DEFINE mine(k, m) == {i \in 1..m : records[i].id = k}
           last(k, m) == CHOOSE i \in mine(k, m) : \A j \in mine(k, m) : j <= i
<1>1. 1..n \subseteq 1..Len(records)
  OBVIOUS
<1>2. \A k \in Ids :
        /\ tab[k] = IF mine(k, Len(records)) = {} THEN tab[k]
                    ELSE Narrow[records[last(k, Len(records))].vec]
        /\ Upto(tab, records, n)[k] =
                IF mine(k, n) = {} THEN tab[k] ELSE Narrow[records[last(k, n)].vec]
  <2>1. \A k \in Ids : tab[k] = Upto(tab, records, Len(records))[k]
    BY UptoAll
  <2>2. QED
    BY <2>1 DEF Upto
<1>3. ASSUME NEW k \in Ids PROVE Upto(tab, records, n)[k] = tab[k]
  <2>1. CASE mine(k, n) = {}
    BY <1>2, <2>1
  <2>2. CASE mine(k, n) # {}
    <3>1. PICK i \in mine(k, n) : TRUE
      BY <2>2
    <3>2. mine(k, n) = {i} /\ mine(k, Len(records)) = {i}
      BY <1>1, <3>1 DEF UniqueIds
    <3>3. last(k, n) = last(k, Len(records))
      BY <3>2
    <3> HIDE DEF mine, last
    <3>4. QED
      BY <1>2, <3>2, <3>3
  <2>3. QED
    BY <2>1, <2>2
<1>4. Upto(tab, records, n) = [k \in Ids |-> Upto(tab, records, n)[k]]
  BY DEF Upto
<1>5. QED
  BY <1>3, <1>4

\* A seeder with the table to itself has upserted the records before `sent'.
OverlayInv ==
    \A s \in PGSeeders :
        /\ sent[s] <= Len(FixtureOf[s].records) + 1
        /\ seedPc[s] = "done" => sent[s] > Len(FixtureOf[s].records)
        /\ intact[s] => table = Upto(before[s], FixtureOf[s].records, sent[s] - 1)

\* Every step keeps that.
LEMMA OverlayStep == SeedTypeOK /\ OverlayInv /\ [SeedingNext]_allVars => OverlayInv'
<1> SUFFICES ASSUME SeedTypeOK, OverlayInv, [SeedingNext]_allVars PROVE OverlayInv'
  OBVIOUS
<1> USE DEF sourceVars, targetVars, runnerVars, auxVars
<1>0. /\ seedPc \in [Seeders -> SeedActive \union SeedEnded]
      /\ sent \in [PGSeeders -> Nat \ {0}]
      /\ intact \in [Seeders -> BOOLEAN]
      /\ before \in [PGSeeders -> [Ids -> Vectors \union {NoVector}]]
      /\ table \in [Ids -> Vectors \union {NoVector}]
  BY DEF SeedTypeOK, TypeOK
<1>s. /\ MilvusSeeders \subseteq Seeders /\ PGSeeders \subseteq Seeders
      /\ \A q \in PGSeeders : q \notin MilvusSeeders /\ q \notin Runners
  BY SeedingAssumption DEF Seeders
\* Steps that leave the table alone and finish no pgvector seeder.
<1>q. ASSUME UNCHANGED <<table, sent, before>>,
             \A q \in PGSeeders :
                /\ intact'[q] => intact[q]
                /\ seedPc'[q] = "done" => seedPc[q] = "done"
      PROVE  OverlayInv'
  BY <1>q DEF OverlayInv
<1>1. ASSUME NEW s \in MilvusSeeders, MilvusSeederStep(s) PROVE OverlayInv'
  <2>1. UNCHANGED <<table, sent, before>>
    BY <1>1 DEF MilvusSeederStep, SeedStart, SeedConnect, HasCollection, DropCollection,
                CreateCollection, CreateIndex, LoadCollection, Insert, Flush, vars
  <2>2. \E label : SeedGoto(s, label)
    BY <1>1 DEF MilvusSeederStep, SeedStart, SeedConnect, HasCollection, DropCollection,
                CreateCollection, CreateIndex, LoadCollection, Insert, Flush
  <2>3. \A q \in PGSeeders : seedPc'[q] = seedPc[q]
    BY <1>0, <1>s, <2>2 DEF SeedGoto
  <2>4. \A q \in PGSeeders : intact'[q] => intact[q]
    BY <1>0, <1>1, <1>s
       DEF MilvusSeederStep, SeedStart, SeedConnect, HasCollection, DropCollection,
           CreateCollection, CreateIndex, LoadCollection, Insert, Flush, CollectionTouchedBy
  <2>5. QED
    BY <1>q, <2>1, <2>3, <2>4
<1>2. ASSUME NEW s \in PGSeeders, PGStart(s) PROVE OverlayInv'
  <2>1. /\ seedPc'[s] # "done" /\ sent'[s] = 1 /\ before'[s] = table
        /\ table' = table
    BY <1>0, <1>2, <1>s DEF PGStart, SeedGoto, vars
  <2>2. \A q \in PGSeeders : q # s =>
            /\ seedPc'[q] = seedPc[q] /\ sent'[q] = sent[q]
            /\ before'[q] = before[q] /\ intact'[q] = intact[q]
    BY <1>0, <1>2, <1>s DEF PGStart, SeedGoto
  <2>3. Upto(table, FixtureOf[s].records, 0) = table
    BY <1>0, UptoNone
  <2>4. Len(FixtureOf[s].records) \in Nat
    BY <1>s, FixtureType
  <2>5. /\ sent'[s] <= Len(FixtureOf[s].records) + 1
        /\ table' = Upto(before'[s], FixtureOf[s].records, sent'[s] - 1)
    BY <2>1, <2>3, <2>4
  <2>6. QED
    BY <2>1, <2>2, <2>5 DEF OverlayInv
<1>3. ASSUME NEW s \in PGSeeders, CreateExtension(s) \/ CreateTable(s) PROVE OverlayInv'
  <2>1. /\ UNCHANGED <<table, sent, before, intact>>
        /\ SeedGoto(s, "table") \/ SeedGoto(s, "upsert")
    BY <1>3 DEF CreateExtension, CreateTable, vars
  <2>2. QED
    BY <1>0, <1>q, <1>s, <2>1 DEF SeedGoto
<1>4. ASSUME NEW s \in PGSeeders, SeedUpsert(s) PROVE OverlayInv'
  <2> DEFINE records == FixtureOf[s].records
             n == sent[s] - 1
  <2>1. /\ table' = [table EXCEPT ![records[sent[s]].id] = Narrow[records[sent[s]].vec]]
        /\ UNCHANGED <<before, seedPc>> /\ seedPc[s] = "upsert"
        /\ sent' = [sent EXCEPT ![s] = sent[s] + 1]
        /\ sent[s] <= Len(records)
    BY <1>4 DEF SeedUpsert, NextRecord, Stored, ToUpsert
  <2>2. \A q \in PGSeeders : intact'[q] => q = s /\ intact[s]
    BY <1>4, <1>s DEF SeedUpsert, TableTouchedBy
  <2>3. n \in Nat /\ sent[s] = n + 1 /\ sent'[s] = n + 2 /\ Len(records) \in Nat
    <3>1. sent[s] \in Nat \ {0} /\ sent'[s] = sent[s] + 1
      BY <1>0, <2>1
    <3>2. QED
      BY <1>s, <3>1, FixtureType
  <2>4. ASSUME intact[s] PROVE table' = Upto(before[s], records, n + 1)
    <3>1. table = Upto(before[s], records, n)
      BY <2>4 DEF OverlayInv
    <3> HIDE DEF n, records
    <3>2. QED
      BY <2>1, <2>3, <3>1, UptoNext
  <2>5. \A q \in PGSeeders : q # s => sent'[q] = sent[q]
    BY <1>0, <2>1
  <2>6. /\ sent'[s] <= Len(records) + 1 /\ sent'[s] - 1 = n + 1
        /\ seedPc'[s] # "done"
    BY <2>1, <2>3
  <2> HIDE DEF n
  <2>7. QED
    BY <2>1, <2>2, <2>4, <2>5, <2>6 DEF OverlayInv
<1>5. ASSUME NEW s \in PGSeeders, SeedFinish(s) PROVE OverlayInv'
  <2>1. /\ UNCHANGED <<table, sent, before, intact>>
        /\ sent[s] > Len(FixtureOf[s].records)
        /\ \A q \in PGSeeders : q # s => seedPc'[q] = seedPc[q]
    BY <1>0, <1>5, <1>s DEF SeedFinish, SeedGoto, vars
  <2>2. QED
    BY <2>1 DEF OverlayInv
<1>6. ASSUME NEW s \in Seeders, SeedCallFails(s) \/ SeedCrash(s) PROVE OverlayInv'
  <2>1. /\ UNCHANGED <<table, sent, before, intact>>
        /\ SeedGoto(s, "failed") \/ SeedGoto(s, "crashed")
    BY <1>6 DEF SeedCallFails, SeedCrash
  <2>2. QED
    BY <1>0, <1>q, <1>s, <2>1 DEF SeedGoto
<1>7. ASSUME NEW r \in Runners, MigrationStep(r) PROVE OverlayInv'
  <2>1. UNCHANGED <<sent, before, seedPc>>
    BY <1>7 DEF MigrationStep
  <2>2. CASE table' = table
    BY <1>7, <1>q, <2>1, <2>2 DEF MigrationStep
  <2>3. CASE table' # table
    <3>1. \A q \in PGSeeders : ~intact'[q]
      BY <1>7, <1>s, <2>3 DEF MigrationStep, TableTouchedBy
    <3>2. QED
      BY <2>1, <3>1 DEF OverlayInv
  <2>4. QED
    BY <2>2, <2>3
<1>8. CASE MilvusFlushes \/ UNCHANGED allVars
  BY <1>8, <1>q DEF MilvusFlushes, SourceFlush, allVars, seedVars, vars
<1>9. QED
  BY <1>1, <1>2, <1>3, <1>4, <1>5, <1>6, <1>7, <1>8 DEF SeedingNext, PGSeederStep

\* What holds of the seeders before the first one starts.
LEMMA OverlayInit == SeedingInit => OverlayInv
<1> SUFFICES ASSUME SeedingInit, NEW s \in PGSeeders
             PROVE  /\ sent[s] <= Len(FixtureOf[s].records) + 1
                    /\ seedPc[s] # "done" /\ ~intact[s]
  BY DEF OverlayInv
<1>1. Len(FixtureOf[s].records) \in Nat /\ s \in Seeders
  BY FixtureType DEF Seeders
<1>2. QED
  BY <1>1 DEF SeedingInit

\* A seeder that upserted a row found, or created, a table of its fixture's
\* dimension, and no table changes its dimension after that.
DimensionInv ==
    \A s \in PGSeeders :
        /\ sent[s] > 1 => tableDim = FixtureOf[s].dim /\ tableDim # 0
        /\ seedPc[s] \in {"extension", "table", "upsert"} => WellFormed(FixtureOf[s])

\* Every step keeps that.
LEMMA DimensionStep == SeedTypeOK /\ DimensionInv /\ [SeedingNext]_allVars => DimensionInv'
<1> SUFFICES ASSUME SeedTypeOK, DimensionInv, [SeedingNext]_allVars PROVE DimensionInv'
  OBVIOUS
<1> USE DEF sourceVars, targetVars, runnerVars, auxVars
<1>0. /\ seedPc \in [Seeders -> SeedActive \union SeedEnded]
      /\ sent \in [PGSeeders -> Nat \ {0}]
  BY DEF SeedTypeOK
<1>s. /\ MilvusSeeders \subseteq Seeders /\ PGSeeders \subseteq Seeders
      /\ \A q \in PGSeeders : q \notin MilvusSeeders
  BY SeedingAssumption DEF Seeders
\* Steps that keep the table's dimension and start no pgvector seeder.
<1>q. ASSUME UNCHANGED <<tableDim, sent>>,
             \A q \in PGSeeders :
                seedPc'[q] \in {"extension", "table", "upsert"} =>
                    seedPc[q] \in {"extension", "table", "upsert"}
      PROVE  DimensionInv'
  BY <1>q DEF DimensionInv
<1>1. ASSUME NEW s \in MilvusSeeders, MilvusSeederStep(s) PROVE DimensionInv'
  <2>1. UNCHANGED <<tableDim, sent>>
    BY <1>1 DEF MilvusSeederStep, SeedStart, SeedConnect, HasCollection, DropCollection,
                CreateCollection, CreateIndex, LoadCollection, Insert, Flush, vars
  <2>2. \E label : SeedGoto(s, label)
    BY <1>1 DEF MilvusSeederStep, SeedStart, SeedConnect, HasCollection, DropCollection,
                CreateCollection, CreateIndex, LoadCollection, Insert, Flush
  <2>3. \A q \in PGSeeders : seedPc'[q] = seedPc[q]
    BY <1>0, <1>s, <2>2 DEF SeedGoto
  <2>4. QED
    BY <1>q, <2>1, <2>3
<1>2. ASSUME NEW s \in PGSeeders, PGStart(s) PROVE DimensionInv'
  <2>1. /\ tableDim' = tableDim /\ sent'[s] = 1
        /\ seedPc'[s] \in {"extension", "table", "upsert"} => WellFormed(FixtureOf[s])
        /\ \A q \in PGSeeders : q # s => seedPc'[q] = seedPc[q] /\ sent'[q] = sent[q]
    BY <1>0, <1>2, <1>s DEF PGStart, SeedGoto, vars
  <2>2. ~(1 > 1)
    OBVIOUS
  <2>3. QED
    BY <2>1, <2>2 DEF DimensionInv
<1>3. ASSUME NEW s \in PGSeeders, CreateExtension(s) PROVE DimensionInv'
  <2>1. /\ UNCHANGED <<tableDim, sent>> /\ SeedGoto(s, "table")
        /\ seedPc[s] = "extension"
    BY <1>3 DEF CreateExtension, vars
  <2>2. QED
    BY <1>0, <1>q, <1>s, <2>1 DEF SeedGoto
<1>4. ASSUME NEW s \in PGSeeders, CreateTable(s) PROVE DimensionInv'
  <2>1. /\ tableDim # 0 => tableDim' = tableDim
        /\ sent' = sent /\ SeedGoto(s, "upsert") /\ seedPc[s] = "table"
    BY <1>4 DEF CreateTable
  <2>2. \A q \in PGSeeders :
          seedPc'[q] \in {"extension", "table", "upsert"} =>
              seedPc[q] \in {"extension", "table", "upsert"}
    BY <1>0, <1>s, <2>1 DEF SeedGoto
  <2>3. QED
    BY <2>1, <2>2 DEF DimensionInv
<1>5. ASSUME NEW s \in PGSeeders, SeedUpsert(s) PROVE DimensionInv'
  <2> DEFINE records == FixtureOf[s].records
             x == records[sent[s]].vec
  <2>1. /\ seedPc[s] = "upsert" /\ sent[s] <= Len(records)
        /\ tableDim # 0 /\ DimensionOf[Narrow[x]] = tableDim
        /\ UNCHANGED <<tableDim, seedPc>>
        /\ \A q \in PGSeeders : q # s => sent'[q] = sent[q]
    BY <1>0, <1>5 DEF SeedUpsert, ToUpsert, NextRecord, Stored, TableAccepts
  <2>2. sent[s] \in DOMAIN records
    <3>1. DOMAIN records = 1..Len(records) /\ Len(records) \in Nat
      BY <1>s, FixtureType
    <3>2. sent[s] \in Nat \ {0}
      BY <1>0
    <3>3. QED
      BY <2>1, <3>1, <3>2
  <2>3. x \in Vectors
    <3>1. records[sent[s]] \in Record
      BY <1>s, <2>2, FixtureType
    <3>2. QED
      BY <3>1 DEF Record
  <2>4. DimensionOf[x] = FixtureOf[s].dim
    BY <2>1, <2>2 DEF DimensionInv, WellFormed
  <2>5. tableDim = FixtureOf[s].dim
    BY <2>1, <2>3, <2>4, SeedingAssumption
  <2>6. QED
    BY <2>1, <2>5 DEF DimensionInv
<1>6. ASSUME NEW s \in PGSeeders, SeedFinish(s) PROVE DimensionInv'
  <2>1. UNCHANGED <<tableDim, sent>> /\ SeedGoto(s, "done")
    BY <1>6 DEF SeedFinish, vars
  <2>2. QED
    BY <1>0, <1>q, <1>s, <2>1 DEF SeedGoto
<1>7. ASSUME NEW s \in Seeders, SeedCallFails(s) \/ SeedCrash(s) PROVE DimensionInv'
  <2>1. /\ UNCHANGED <<tableDim, sent>>
        /\ SeedGoto(s, "failed") \/ SeedGoto(s, "crashed")
    BY <1>7 DEF SeedCallFails, SeedCrash
  <2>2. QED
    BY <1>0, <1>q, <1>s, <2>1 DEF SeedGoto
<1>8. ASSUME NEW r \in Runners, MigrationStep(r) PROVE DimensionInv'
  <2>1. UNCHANGED <<sent, seedPc>> /\ RunnerStep(r)
    BY <1>8 DEF MigrationStep
  <2>2. tableDim' = tableDim
    BY <2>1 DEF RunnerStep, Progress, Start, CountRows, QueryRows, Validate, ConnectTarget, UpsertNext,
                ApplyUpsert, UpsertAnswerLost, Finish, CallFails, Crash
  <2>3. QED
    BY <1>q, <2>1, <2>2
<1>9. CASE MilvusFlushes \/ UNCHANGED allVars
  BY <1>9, <1>q DEF MilvusFlushes, SourceFlush, allVars, seedVars, vars
<1>10. QED
  BY <1>1, <1>2, <1>3, <1>4, <1>5, <1>6, <1>7, <1>8, <1>9 DEF SeedingNext, PGSeederStep

\* What holds of the dimension before the first seeder starts.
LEMMA DimensionInit == SeedingInit => DimensionInv
<1>1. ~(1 > 1)
  OBVIOUS
<1>2. PGSeeders \subseteq Seeders
  BY DEF Seeders
<1>3. QED
  BY <1>1, <1>2 DEF SeedingInit, DimensionInv

\* A seeder that is done has upserted the records of its fixture, of which
\* there is at least one.
LEMMA DimensionConsequence ==
  ASSUME SeedTypeOK, OverlayInv, DimensionInv, NEW s \in PGSeeders, seedPc[s] = "done"
  PROVE  tableDim = FixtureOf[s].dim
<1> DEFINE records == FixtureOf[s].records
           n == Len(records)
           k == sent[s]
<1>1. n \in Nat /\ n # 0
  <2>1. records \in Seq(Record) /\ records # << >>
    BY FixtureType, SeedingAssumption DEF Seeders
  <2>2. QED
    BY <2>1
<1>2. k > n
  BY DEF OverlayInv
<1>3. k > 1 => tableDim = FixtureOf[s].dim
  BY DEF DimensionInv
<1>4. k \in Nat
  BY DEF SeedTypeOK
<1> HIDE DEF n, k
<1>5. k > 1
  BY <1>1, <1>2, <1>4
<1>6. QED
  BY <1>3, <1>5

\* The invariant gives both statements about seed-pgvector.
LEMMA OverlayConsequence ==
  SeedTypeOK /\ OverlayInv /\ DimensionInv => PGSeedOverlays /\ ReseedingIsInvisible
<1> SUFFICES ASSUME SeedTypeOK, OverlayInv, DimensionInv
             PROVE  PGSeedOverlays /\ ReseedingIsInvisible
  OBVIOUS
<1>0. \A s \in PGSeeders : seedPc[s] = "done" => tableDim = FixtureOf[s].dim
  BY DimensionConsequence
<1> SUFFICES ASSUME NEW s \in PGSeeders, intact[s]
             PROVE  /\ seedPc[s] = "done" =>
                            table = Overlay(before[s], FixtureOf[s].records)
                    /\ /\ UniqueIds(FixtureOf[s].records)
                       /\ before[s] = Overlay(before[s], FixtureOf[s].records)
                       => table = before[s]
  BY <1>0 DEF PGSeedOverlays, ReseedingIsInvisible
<1> DEFINE records == FixtureOf[s].records
<1>1. DOMAIN records = 1..Len(records) /\ Len(records) \in Nat
  <2>1. records \in Seq(Record) /\ DOMAIN records = 1..Len(records)
    BY FixtureType DEF Seeders
  <2>2. QED
    BY <2>1
<1>2. sent[s] \in Nat \ {0} /\ before[s] \in [Ids -> Vectors \union {NoVector}]
  BY DEF SeedTypeOK
<1>3. /\ table = Upto(before[s], records, sent[s] - 1)
      /\ sent[s] <= Len(records) + 1
      /\ seedPc[s] = "done" => sent[s] > Len(records)
  BY DEF OverlayInv
<1> HIDE DEF records
<1>4. sent[s] - 1 \in 0..Len(records) /\ (seedPc[s] = "done" => sent[s] - 1 = Len(records))
  BY <1>1, <1>2, <1>3
<1>5. seedPc[s] = "done" => table = Overlay(before[s], records)
  BY <1>1, <1>3, <1>4, UptoAll
<1>6. UniqueIds(records) /\ before[s] = Overlay(before[s], records) => table = before[s]
  BY <1>1, <1>2, <1>3, <1>4, UptoOverItself
<1>7. QED
  BY <1>5, <1>6 DEF records

\* A successful seed-pgvector found, or made, a table of its fixture's dimension;
\* with the table to itself it leaves what it found overlaid with its fixture.
THEOREM PGSeedingOverlays == SeedingSpec => []PGSeedOverlays
BY OverlayInit, OverlayStep, DimensionInit, DimensionStep, OverlayConsequence,
   SeedingTypeCorrect, PTL DEF SeedingSpec

\* Seeding a fixture that is in the table already changes no row, even if it
\* breaks off.
THEOREM ReseedingChangesNothing == SeedingSpec => []ReseedingIsInvisible
BY OverlayInit, OverlayStep, DimensionInit, DimensionStep, OverlayConsequence,
   SeedingTypeCorrect, PTL DEF SeedingSpec

-----------------------------------------------------------------------------
(* seed-milvus: what the collection holds at each call of a seeder that has *)
(* it to itself.                                                            *)

CollectionInv ==
    /\ coll = "absent" => rows = << >> /\ flushed = 0
    /\ \A s \in MilvusSeeders : intact[s] =>
        /\ seedPc[s] = "create" => coll = "absent"
        /\ seedPc[s] = "index" => coll # "absent"
        /\ seedPc[s] = "load" => coll \in {"indexed", "loaded"}
        /\ seedPc[s] \in {"insert", "flush", "done"} => coll = "loaded"
        /\ seedPc[s] \in {"index", "load", "insert"} => rows = << >>
        /\ seedPc[s] \in {"flush", "done"} => rows = StoredRows(FixtureOf[s].records)
        /\ seedPc[s] = "done" => flushed = Len(rows)

\* Every step keeps that.
LEMMA CollectionStep == SeedTypeOK /\ CollectionInv /\ [SeedingNext]_allVars => CollectionInv'
<1> SUFFICES ASSUME SeedTypeOK, CollectionInv, [SeedingNext]_allVars PROVE CollectionInv'
  OBVIOUS
<1> USE DEF sourceVars, targetVars, runnerVars, auxVars
<1>0. /\ seedPc \in [Seeders -> SeedActive \union SeedEnded]
      /\ intact \in [Seeders -> BOOLEAN]
      /\ coll \in CollectionStates
      /\ rows \in Seq(Record) /\ flushed \in 0..Len(rows)
  BY DEF SeedTypeOK, TypeOK
<1>s. /\ MilvusSeeders \subseteq Seeders /\ PGSeeders \subseteq Seeders
      /\ \A q \in PGSeeders : q \notin MilvusSeeders
  BY SeedingAssumption DEF Seeders
<1>g. ASSUME NEW s \in Seeders, NEW label, SeedGoto(s, label)
      PROVE  \A q \in MilvusSeeders : seedPc'[q] = IF q = s THEN label ELSE seedPc[q]
  BY <1>0, <1>g, <1>s DEF SeedGoto
\* Steps that leave the collection alone and take no Milvus seeder further.
<1>q. ASSUME UNCHANGED <<coll, rows, flushed>>,
             \A q \in MilvusSeeders :
                /\ intact'[q] => intact[q]
                /\ \/ seedPc'[q] = seedPc[q]
                   \/ seedPc'[q] \in {"connect", "has", "rejected", "failed", "crashed"}
      PROVE  CollectionInv'
  BY <1>q DEF CollectionInv
<1>1. ASSUME NEW s \in MilvusSeeders, SeedStart(s) \/ SeedConnect(s) PROVE CollectionInv'
  <2>1. /\ SeedGoto(s, "connect") \/ SeedGoto(s, "has") \/ SeedGoto(s, "rejected")
        /\ UNCHANGED <<coll, rows, flushed>>
    BY <1>1 DEF SeedStart, SeedConnect, vars
  <2>2. \A q \in MilvusSeeders : intact'[q] => intact[q]
    BY <1>0, <1>1, <1>s DEF SeedStart, SeedConnect
  <2>3. \A q \in MilvusSeeders :
            seedPc'[q] = seedPc[q] \/ seedPc'[q] \in {"connect", "has", "rejected"}
    BY <1>g, <1>s, <2>1
  <2>4. QED
    BY <1>q, <2>1, <2>2, <2>3
<1>2. ASSUME NEW s \in MilvusSeeders, HasCollection(s) PROVE CollectionInv'
  <2>1. /\ UNCHANGED <<coll, rows, flushed>>
        /\ \A q \in MilvusSeeders : q # s => intact'[q] = intact[q]
    BY <1>0, <1>2, <1>s DEF HasCollection, vars
  <2>2. SeedGoto(s, IF coll = "absent" THEN "create" ELSE "drop")
    BY <1>2 DEF HasCollection
  <2>3. \A q \in MilvusSeeders : seedPc'[q] =
            IF q = s THEN (IF coll = "absent" THEN "create" ELSE "drop") ELSE seedPc[q]
    BY <1>g, <1>s, <2>2
  <2>4. QED
    BY <2>1, <2>3 DEF CollectionInv
<1>3. ASSUME NEW s \in MilvusSeeders, DropCollection(s) PROVE CollectionInv'
  <2>1. coll' = "absent" /\ rows' = << >> /\ flushed' = 0
    BY <1>3 DEF DropCollection, RowsBecome
  <2>2. \A q \in MilvusSeeders : intact'[q] => q = s
    BY <1>3, <1>s DEF DropCollection, CollectionTouchedBy
  <2>3. seedPc'[s] = "create"
    BY <1>3, <1>g, <1>s DEF DropCollection
  <2>4. QED
    BY <2>1, <2>2, <2>3 DEF CollectionInv
<1>4. ASSUME NEW s \in MilvusSeeders, CreateCollection(s) PROVE CollectionInv'
  <2>1. /\ seedPc[s] = "create" /\ UNCHANGED <<rows, flushed>>
        /\ \A q \in MilvusSeeders : seedPc'[q] = IF q = s THEN "index" ELSE seedPc[q]
    BY <1>4, <1>g, <1>s DEF CreateCollection
  <2>2. CASE coll = "absent" /\ coll' = "created" /\ CollectionTouchedBy(s)
    <3>1. \A q \in MilvusSeeders : intact'[q] => q = s
      BY <1>s, <2>2 DEF CollectionTouchedBy
    <3>2. rows' = << >>
      BY <2>1, <2>2 DEF CollectionInv
    <3>3. QED
      BY <2>1, <2>2, <3>1, <3>2 DEF CollectionInv
  <2>3. CASE coll # "absent" /\ UNCHANGED <<coll, intact>>
    <3>1. ~intact[s]
      BY <2>1, <2>3 DEF CollectionInv
    <3>2. QED
      BY <2>1, <2>3, <3>1 DEF CollectionInv
  <2>4. QED
    BY <1>4, <2>2, <2>3 DEF CreateCollection
<1>5. ASSUME NEW s \in MilvusSeeders, CreateIndex(s) PROVE CollectionInv'
  <2>1. /\ seedPc[s] = "index" /\ UNCHANGED <<rows, flushed, intact>>
        /\ \A q \in MilvusSeeders : seedPc'[q] = IF q = s THEN "load" ELSE seedPc[q]
    BY <1>5, <1>g, <1>s DEF CreateIndex
  <2>2. coll # "absent" /\ coll' = IF coll = "created" THEN "indexed" ELSE coll
    BY <1>5 DEF CreateIndex
  <2>3. QED
    BY <1>0, <2>1, <2>2 DEF CollectionInv, CollectionStates
<1>6. ASSUME NEW s \in MilvusSeeders, LoadCollection(s) PROVE CollectionInv'
  <2>1. /\ seedPc[s] = "load" /\ UNCHANGED <<rows, flushed, intact>>
        /\ \A q \in MilvusSeeders : seedPc'[q] = IF q = s THEN "insert" ELSE seedPc[q]
    BY <1>6, <1>g, <1>s DEF LoadCollection
  <2>2. coll # "absent" /\ coll' = "loaded"
    BY <1>6 DEF LoadCollection
  <2>3. \A q \in MilvusSeeders : intact'[q] => seedPc[q] # "create"
    BY <2>1, <2>2 DEF CollectionInv
  <2>4. QED
    BY <2>1, <2>2, <2>3 DEF CollectionInv
<1>7. ASSUME NEW s \in MilvusSeeders, Insert(s) PROVE CollectionInv'
  <2>1. /\ seedPc[s] = "insert" /\ UNCHANGED coll /\ coll # "absent"
        /\ seedPc'[s] = "flush"
    BY <1>7, <1>g, <1>s DEF Insert
  <2>2. rows' = rows \o StoredRows(FixtureOf[s].records)
    BY <1>7 DEF Insert, RowsBecome
  <2>3. \A q \in MilvusSeeders : intact'[q] => q = s /\ intact[s]
    BY <1>7, <1>s DEF Insert, CollectionTouchedBy
  <2>4. rows = << >> => rows' = StoredRows(FixtureOf[s].records)
    <3>1. StoredRows(FixtureOf[s].records) \in Seq(Record)
      BY <1>s, FixtureType
    <3>2. QED
      BY <2>2, <3>1
  <2>5. QED
    BY <2>1, <2>3, <2>4 DEF CollectionInv
<1>8. ASSUME NEW s \in MilvusSeeders, Flush(s) PROVE CollectionInv'
  <2>1. /\ seedPc[s] = "flush" /\ UNCHANGED <<coll, rows, intact>>
        /\ coll # "absent" /\ flushed' = Len(rows)
        /\ \A q \in MilvusSeeders : seedPc'[q] = IF q = s THEN "done" ELSE seedPc[q]
    BY <1>8, <1>g, <1>s DEF Flush
  <2>2. QED
    BY <2>1 DEF CollectionInv
<1>9. ASSUME NEW s \in PGSeeders, PGSeederStep(s) PROVE CollectionInv'
  <2>1. UNCHANGED <<coll, rows, flushed>>
    BY <1>9 DEF PGSeederStep, PGStart, CreateExtension, CreateTable, SeedUpsert,
                SeedFinish, vars
  <2>2. \A q \in MilvusSeeders : intact'[q] => intact[q]
    BY <1>0, <1>9, <1>s
       DEF PGSeederStep, PGStart, CreateExtension, CreateTable, SeedUpsert, SeedFinish,
           TableTouchedBy
  <2>3. (\E label : SeedGoto(s, label)) \/ UNCHANGED seedPc
    BY <1>9 DEF PGSeederStep, PGStart, CreateExtension, CreateTable, SeedUpsert, SeedFinish
  <2>4. \A q \in MilvusSeeders : seedPc'[q] = seedPc[q]
    BY <1>g, <1>s, <2>3
  <2>5. QED
    BY <1>q, <2>1, <2>2, <2>4
<1>10. ASSUME NEW s \in Seeders, SeedCallFails(s) \/ SeedCrash(s) PROVE CollectionInv'
  <2>1. /\ UNCHANGED <<coll, rows, flushed, intact>>
        /\ SeedGoto(s, "failed") \/ SeedGoto(s, "crashed")
    BY <1>10 DEF SeedCallFails, SeedCrash
  <2>2. \A q \in MilvusSeeders :
            seedPc'[q] = seedPc[q] \/ seedPc'[q] \in {"failed", "crashed"}
    BY <1>g, <2>1
  <2>3. QED
    BY <1>q, <2>1, <2>2
<1>11. ASSUME NEW r \in Runners, MigrationStep(r) PROVE CollectionInv'
  <2>1. UNCHANGED seedPc /\ \A q \in MilvusSeeders : intact'[q] => intact[q]
    BY <1>11, <1>s DEF MigrationStep, TableTouchedBy
  <2>2. UNCHANGED <<coll, rows, flushed>>
    <3>1. RunnerStep(r)
      BY <1>11 DEF MigrationStep
    <3>2. QED
      BY <3>1 DEF RunnerStep, Progress, Start, CountRows, QueryRows, Validate, ConnectTarget,
                  UpsertNext, UpsertAnswerLost, ApplyUpsert, Finish, CallFails, Crash
  <2>3. QED
    BY <1>q, <2>1, <2>2
<1>12. CASE MilvusFlushes
  <2>1. flushed' = Len(rows) /\ UNCHANGED <<coll, rows, seedPc, intact>> /\ flushed < Len(rows)
    BY <1>12 DEF MilvusFlushes, SourceFlush, seedVars
  <2>2. coll # "absent"
    <3>1. rows = << >> => Len(rows) = 0
      BY <1>0
    <3>2. QED
      BY <1>0, <2>1, <3>1 DEF CollectionInv
  <2>3. QED
    BY <2>1, <2>2 DEF CollectionInv
<1>13. CASE UNCHANGED allVars
  BY <1>13, <1>q DEF allVars, seedVars, vars
<1>14. QED
  BY <1>1, <1>2, <1>3, <1>4, <1>5, <1>6, <1>7, <1>8, <1>9, <1>10, <1>11, <1>12, <1>13
     DEF SeedingNext, MilvusSeederStep

\* No seeder has the collection to itself before it started.
LEMMA CollectionInit == SeedingInit => CollectionInv
BY DEF SeedingInit, Init, CollectionInv, Seeders

\* The invariant says what a successful seeder leaves.
LEMMA CollectionConsequence == CollectionInv => SeededExactly
BY DEF CollectionInv, SeededExactly, Settled

\* A successful seed-milvus that had the collection to itself leaves it loaded,
\* with the fixture's records, all counted, and nothing else.
THEOREM MilvusSeedingIsExact == SeedingSpec => []SeededExactly
BY CollectionInit, CollectionStep, CollectionConsequence, SeedingTypeCorrect, PTL DEF SeedingSpec

-----------------------------------------------------------------------------
(* Seeding and migrating together.  *)

\* Seeding disturbs every run when it changes the rows or the table, and a
\* Flush only completes a row count.
LEMMA SeederDisturbs ==
  ASSUME SeedTypeOK, [SeedingNext]_allVars,
         ~ \E r \in Runners : MigrationStep(r)
  PROVE  /\ UNCHANGED <<pc, limit, batch, next, sawAll, readFrom>>
         /\ \/ \A r \in Runners : ~undisturbed'[r]
            \/ /\ UNCHANGED <<rows, table, undisturbed>>
               /\ flushed' = flushed \/ flushed' = Len(rows)
<1> USE DEF sourceVars, targetVars, runnerVars, auxVars
<1>1. ASSUME NEW s \in MilvusSeeders, MilvusSeederStep(s)
      PROVE  /\ UNCHANGED <<pc, limit, batch, next, sawAll, readFrom>>
             /\ \/ \A r \in Runners : ~undisturbed'[r]
                \/ /\ UNCHANGED <<rows, table, undisturbed>>
                   /\ flushed' = flushed \/ flushed' = Len(rows)
  BY <1>1 DEF MilvusSeederStep, SeedStart, SeedConnect, HasCollection, DropCollection,
              CreateCollection, CreateIndex, LoadCollection, Insert, Flush, RowsBecome, vars
<1>2. ASSUME NEW s \in PGSeeders, PGSeederStep(s)
      PROVE  /\ UNCHANGED <<pc, limit, batch, next, sawAll, readFrom, rows, flushed>>
             /\ (\A r \in Runners : ~undisturbed'[r]) \/ UNCHANGED <<table, undisturbed>>
  BY <1>2 DEF PGSeederStep, PGStart, CreateExtension, CreateTable, SeedUpsert, SeedFinish, vars
<1>3. ASSUME NEW s \in Seeders, SeedCallFails(s) \/ SeedCrash(s)
      PROVE  UNCHANGED <<pc, limit, batch, next, sawAll, readFrom, rows, flushed, table, undisturbed>>
  BY <1>3 DEF SeedCallFails, SeedCrash
<1>4. CASE MilvusFlushes
  BY <1>4 DEF MilvusFlushes, SourceFlush, seedVars
<1>5. CASE UNCHANGED allVars
  BY <1>5 DEF allVars, vars, seedVars
<1>6. QED
  BY <1>1, <1>2, <1>3, <1>4, <1>5 DEF SeedingNext

\* What makes a migration complete survives seeding next to it.
LEMMA SeedingKeepsCompleteness ==
  SeedTypeOK /\ CompletenessInv /\ [SeedingNext]_allVars => CompletenessInv'
<1> SUFFICES ASSUME SeedTypeOK, CompletenessInv, [SeedingNext]_allVars PROVE CompletenessInv'
  OBVIOUS
<1>1. CASE \E r \in Runners : MigrationStep(r)
  BY <1>1, InnerStep, CompletenessStep DEF SeedTypeOK
<1>2. CASE ~ \E r \in Runners : MigrationStep(r)
  <2>1. /\ UNCHANGED <<pc, limit, batch, next, sawAll>>
        /\ \/ \A r \in Runners : ~undisturbed'[r]
           \/ /\ UNCHANGED <<rows, table, undisturbed>>
              /\ flushed' = flushed \/ flushed' = Len(rows)
    BY <1>2, SeederDisturbs
  <2>2. CASE \A r \in Runners : ~undisturbed'[r]
    BY <2>1, <2>2
       DEF CompletenessInv, Fresh, Current, Counted, Covered, Finished, PartialRunIsPrefix
  <2>3. CASE /\ UNCHANGED <<rows, table, undisturbed>>
             /\ flushed' = flushed \/ flushed' = Len(rows)
    <3>1. RowSet' = RowSet
      BY <2>3 DEF RowSet
    <3>2. Counted'
      BY <2>1, <2>3 DEF CompletenessInv, Counted
    <3>3. QED
      BY <2>1, <2>3, <3>1, <3>2
         DEF CompletenessInv, Fresh, Current, Covered, Finished, PartialRunIsPrefix
  <2>4. QED
    BY <2>1, <2>2, <2>3
<1>3. QED
  BY <1>1, <1>2

\* An undisturbed run that counted the rows of a seeded fixture still faces
\* exactly those rows, and counted all of them.
SeededInv ==
    \A r \in Runners :
        undisturbed[r] /\ pc[r] \in {"query", "validate", "connect", "write", "done"} =>
            \A f \in readFrom[r] : rows = StoredRows(f.records) /\ sawAll[r]

\* Every step keeps that.
LEMMA SeededStep ==
  SeedTypeOK /\ CollectionInv /\ SeededInv /\ [SeedingNext]_allVars => SeededInv'
<1> SUFFICES ASSUME SeedTypeOK, CollectionInv, SeededInv, [SeedingNext]_allVars
             PROVE  SeededInv'
  OBVIOUS
<1> USE DEF sourceVars, targetVars, runnerVars, auxVars
<1>0. /\ pc \in [Runners -> Active \union Ended]
      /\ undisturbed \in [Runners -> BOOLEAN]
      /\ sawAll \in [Runners -> BOOLEAN]
      /\ readFrom \in [Runners -> SUBSET Fixture]
  BY DEF SeedTypeOK, TypeOK
<1>1. ASSUME NEW r \in Runners, MigrationStep(r), CountRows(r) PROVE SeededInv'
  <2>1. /\ pc[r] = "count" /\ pc'[r] = "query"
        /\ sawAll'[r] = (flushed = Len(rows)) /\ UNCHANGED rows
        /\ \A q \in Runners : q # r =>
              pc'[q] = pc[q] /\ undisturbed'[q] = undisturbed[q] /\ sawAll'[q] = sawAll[q]
    BY <1>0, <1>1 DEF CountRows, Goto
  <2>2. readFrom' = [readFrom EXCEPT ![r] = {FixtureOf[s] : s \in Settled}]
    BY <1>1, <2>1 DEF MigrationStep
  <2>3. \A f \in readFrom'[r] : \E s \in Settled : f = FixtureOf[s]
    BY <1>0, <2>2
  <2>4. \A s \in Settled : rows = StoredRows(FixtureOf[s].records) /\ flushed = Len(rows)
    BY CollectionConsequence DEF SeededExactly
  <2>5. \A q \in Runners : q # r => readFrom'[q] = readFrom[q]
    BY <1>0, <2>2
  <2>6. \A f \in readFrom'[r] : rows' = StoredRows(f.records) /\ sawAll'[r]
    BY <2>1, <2>3, <2>4
  <2>7. QED
    BY <2>1, <2>5, <2>6 DEF SeededInv
\* Any other step of a runner starts a run, or follows its row count.
<1>2. ASSUME NEW r \in Runners, MigrationStep(r), ~CountRows(r) PROVE SeededInv'
  <2>1. RunnerStep(r)
    BY <1>2 DEF MigrationStep
  <2>2. /\ UNCHANGED <<rows, sawAll>>
        /\ \A q \in Runners : undisturbed'[q] => undisturbed[q]
    BY <1>0, <1>2, <2>1
       DEF RunnerStep, Progress, Start, QueryRows, Validate, ConnectTarget, UpsertNext,
           UpsertAnswerLost, ApplyUpsert, Finish, CallFails, Crash
  <2>3. pc' = pc \/ \E label \in {"count", "validate", "connect", "write", "rejected", "done",
                                  "failed", "crashed"} :
            /\ pc' = [pc EXCEPT ![r] = label]
            /\ label \in {"validate", "connect", "write", "done"} =>
                    pc[r] \in {"query", "validate", "connect", "write", "done"}
    BY <1>2, <2>1
       DEF RunnerStep, Progress, Start, QueryRows, Validate, ConnectTarget, UpsertNext,
           UpsertAnswerLost, ApplyUpsert, Finish, CallFails, Crash, Goto
  <2>4. \A q \in Runners :
            pc'[q] \in {"query", "validate", "connect", "write", "done"} =>
                pc[q] \in {"query", "validate", "connect", "write", "done"}
    BY <1>0, <2>3
  <2>5. ~(pc[r] = "count" /\ pc'[r] = "query")
    BY <1>0, <2>3
  <2>6. readFrom' = readFrom
    BY <1>2, <2>5 DEF MigrationStep
  <2>7. QED
    BY <2>2, <2>4, <2>6 DEF SeededInv
<1>3. CASE ~ \E r \in Runners : MigrationStep(r)
  BY <1>3, SeederDisturbs DEF SeededInv
<1>4. QED
  BY <1>1, <1>2, <1>3

\* All three invariants hold before anything was started.
LEMMA SeedingTogetherInit == SeedingInit => CompletenessInv /\ SeededInv
<1>1. SeedingInit => CompletenessInv
  BY CompletenessInit DEF SeedingInit
<1>2. SeedingInit => SeededInv
  BY DEF SeedingInit, Init, SeededInv
<1>3. QED
  BY <1>1, <1>2

\* A complete migration of exactly the fixture's rows carries the fixture.
LEMMA SeededConsequence ==
  SeedTypeOK /\ CompletenessInv /\ SeededInv => SeededFixtureMigrates
<1> SUFFICES ASSUME SeedTypeOK, CompletenessInv, SeededInv, NEW r \in Runners,
                    pc[r] = "done", undisturbed[r], NEW f \in readFrom[r],
                    NEW i \in DOMAIN f.records
             PROVE  \E j \in DOMAIN f.records :
                        /\ f.records[j].id = f.records[i].id
                        /\ Narrow[f.records[j].vec] = table[f.records[i].id]
  BY DEF SeededFixtureMigrates
<1>1. rows = StoredRows(f.records) /\ sawAll[r]
  BY DEF SeededInv
<1>2. SuccessIsComplete
  BY CompletenessConsequence DEF SeedTypeOK
<1>3. DOMAIN rows = DOMAIN f.records /\ \A j \in DOMAIN f.records : rows[j] = Stored(f.records[j])
  BY <1>1 DEF StoredRows
<1>s. \A j \in DOMAIN f.records :
        rows[j] = [id |-> f.records[j].id, vec |-> Narrow[f.records[j].vec]]
  BY <1>3 DEF Stored
<1>4. rows[i] \in RowSet
  BY <1>3 DEF RowSet
<1>5. [id |-> rows[i].id, vec |-> table[rows[i].id]] \in RowSet
  BY <1>1, <1>2, <1>4 DEF SuccessIsComplete
<1>6. PICK j \in DOMAIN rows : rows[j] = [id |-> rows[i].id, vec |-> table[rows[i].id]]
  BY <1>5 DEF RowSet
<1>7. rows[i].id = f.records[i].id
  <2>1. rows[i] = [id |-> f.records[i].id, vec |-> Narrow[f.records[i].vec]]
    BY <1>s
  <2>2. QED
    BY <2>1
<1>8. f.records[j].id = f.records[i].id /\ Narrow[f.records[j].vec] = table[f.records[i].id]
  <2>1. rows[j] = [id |-> f.records[j].id, vec |-> Narrow[f.records[j].vec]]
    BY <1>3, <1>6, <1>s
  <2>2. rows[j] = [id |-> f.records[i].id, vec |-> table[f.records[i].id]]
    BY <1>6, <1>7
  <2>3. /\ rows[j].id = f.records[j].id /\ rows[j].vec = Narrow[f.records[j].vec]
        /\ rows[j].id = f.records[i].id /\ rows[j].vec = table[f.records[i].id]
    <3>1. rows[j].id = f.records[j].id /\ rows[j].vec = Narrow[f.records[j].vec]
      BY <2>1
    <3>2. rows[j].id = f.records[i].id /\ rows[j].vec = table[f.records[i].id]
      BY <2>2
    <3>3. QED
      BY <3>1, <3>2
  <2>4. QED
    BY <2>3
<1>9. QED
  BY <1>3, <1>8

\* A migration whose row count came after a successful seed-milvus, and that
\* succeeds undisturbed, leaves every id of the fixture in the table with a
\* vector of the fixture.
THEOREM SeedThenMigrate == SeedingSpec => []SeededFixtureMigrates
BY SeedingTogetherInit, CollectionInit, CollectionStep, SeedingKeepsCompleteness, SeededStep,
   SeededConsequence, SeedingTypeCorrect, PTL DEF SeedingSpec

-----------------------------------------------------------------------------
(* A migration keeps its contract while both databases are seeded.  *)

\* What the refinement needs is about the runs alone, and a seeder moves none.
LEMMA SeedingKeepsRefinement ==
  SeedTypeOK /\ RefinementInv /\ [SeedingNext]_allVars => RefinementInv'
<1> SUFFICES ASSUME SeedTypeOK, RefinementInv, [SeedingNext]_allVars PROVE RefinementInv'
  OBVIOUS
<1>1. CASE \E r \in Runners : MigrationStep(r)
  BY <1>1, InnerStep, RefinementInvStep DEF SeedTypeOK
<1>2. CASE ~ \E r \in Runners : MigrationStep(r)
  BY <1>2, SeederDisturbs DEF RefinementInv, Fresh, Checked, Finished
<1>3. QED
  BY <1>1, <1>2

\* The table is written by migrations and by seed-pgvector only.
LEMMA OthersKeepTable ==
  ASSUME SeedTypeOK, [SeedingNext]_allVars,
         ~ \E r \in Runners : MigrationStep(r),
         ~ \E s \in PGSeeders : SeedUpsert(s)
  PROVE  UNCHANGED table
<1> USE DEF sourceVars, targetVars, runnerVars, auxVars
<1>1. ASSUME NEW s \in MilvusSeeders, MilvusSeederStep(s) PROVE UNCHANGED table
  BY <1>1 DEF MilvusSeederStep, SeedStart, SeedConnect, HasCollection, DropCollection,
              CreateCollection, CreateIndex, LoadCollection, Insert, Flush, vars
<1>2. ASSUME NEW s \in PGSeeders, PGSeederStep(s) PROVE UNCHANGED table
  BY <1>2 DEF PGSeederStep, PGStart, CreateExtension, CreateTable, SeedFinish, vars
<1>3. ASSUME NEW s \in Seeders, SeedCallFails(s) \/ SeedCrash(s) PROVE UNCHANGED table
  BY <1>3 DEF SeedCallFails, SeedCrash
<1>4. CASE MilvusFlushes
  BY <1>4 DEF MilvusFlushes, SourceFlush
<1>5. CASE UNCHANGED allVars
  BY <1>5 DEF allVars, vars
<1>6. QED
  BY <1>1, <1>2, <1>3, <1>4, <1>5 DEF SeedingNext

\* Every step is one of the contract, a stutter, or a write of seed-pgvector:
\* what seed-milvus does moves the source and nothing else.
LEMMA SeedingContractStep ==
  SeedTypeOK /\ SeedTypeOK' /\ RefinementInv /\ [SeedingNext]_allVars =>
    \/ UNCHANGED Contract!cvars
    \/ \E s \in PGSeeders : SeedUpsert(s)
    \/ Contract!ContractNext
<1> SUFFICES ASSUME SeedTypeOK, SeedTypeOK', RefinementInv, [SeedingNext]_allVars
             PROVE  \/ UNCHANGED Contract!cvars
                    \/ \E s \in PGSeeders : SeedUpsert(s)
                    \/ Contract!ContractNext
  OBVIOUS
<1>1. CASE \E r \in Runners : MigrationStep(r)
  BY <1>1, InnerStep, ContractStep DEF SeedTypeOK
<1>2. CASE \E s \in PGSeeders : SeedUpsert(s)
  BY <1>2
<1>3. CASE /\ ~ \E r \in Runners : MigrationStep(r)
           /\ ~ \E s \in PGSeeders : SeedUpsert(s)
  <2>1. UNCHANGED <<pc, batch, next, table>>
    BY <1>3, SeederDisturbs, OthersKeepTable
  <2>2. UNCHANGED <<phaseBar, todoBar>>
    BY <2>1 DEF phaseBar, ContractPhase, todoBar
  <2>3. RowSet' \subseteq Record
    BY ElementsOfSeq DEF SeedTypeOK, TypeOK, RowSet
  <2>4. Contract!SourceMoves
    BY <2>1, <2>2, <2>3 DEF Contract!SourceMoves, Contract!Record, Record
  <2>5. QED
    BY <2>4 DEF Contract!ContractNext
<1>4. QED
  BY <1>1, <1>2, <1>3

\* However many seeders recreate the collection and overwrite the table, and
\* wherever they fail, every migration is still the copy of one snapshot that
\* reports success only when nothing of it is left to copy.
THEOREM SeededMigrationsKeepContract == SeedingSpec => MigrationsKeepTheirContract
<1>1. SeedingInit => RefinementInv
  BY DEF SeedingInit, Init, RefinementInv, Fresh, Checked, Finished
<1>2. QED
  BY <1>1, SeedingKeepsRefinement, SeedingContractStep, SeedingTypeCorrect, PTL
     DEF SeedingSpec, MigrationsKeepTheirContract
=============================================================================
