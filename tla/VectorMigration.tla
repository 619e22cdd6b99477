-------------------------- MODULE VectorMigration --------------------------
(***************************************************************************)
(* internal/migration: one or more processes, each running                 *)
(* VectorMigrationRunner.Migrate from a Milvus collection to a pgvector    *)
(* table, while other clients insert into and update the collection.       *)
(*                                                                         *)
(* Every call that reaches a database is one action; the local code        *)
(* between two calls belongs to the action before it.  A call may fail, an *)
(* upsert may be applied although its answer is lost, a process may be     *)
(* killed, and an operator may start the command again.                    *)
(***************************************************************************)
EXTENDS Naturals, Sequences, FiniteSets

CONSTANTS
    Runners,         \* migrate processes
    Ids,             \* record ids
    EmptyId,         \* the id "", in Ids or not
    Vectors,         \* vector values
    NoVector,        \* "no row" in the target table
    DimensionOf,     \* number of components of each vector
    FiniteVectors,   \* the vectors without NaN or infinite components
    Dimension,       \* VectorMigrationConfig.Dimension, the --dimension flag
    FallbackLimit,   \* defaultMilvusMigrationBatchSize
    TargetDims,      \* dimension the target table may have; 0: no such table
    Preexisting,     \* target rows before the first migration
    MaxRows,         \* bound: rows in the collection
    MaxChanges,      \* bound: inserts and updates by other clients
    MaxFaults        \* bound: failed calls, lost answers and crashes

ASSUME ConstantsAssumption ==
    /\ NoVector \notin Vectors
    /\ DimensionOf \in [Vectors -> Nat]
    /\ FiniteVectors \subseteq Vectors
    /\ Dimension \in Nat \ {0}
    /\ FallbackLimit \in Nat \ {0}
    /\ TargetDims \subseteq Nat
    /\ Preexisting \in [Ids -> Vectors \union {NoVector}]
    /\ {MaxRows, MaxChanges, MaxFaults} \subseteq Nat

VARIABLES
    coll,         \* Milvus collection: "absent", "created", "indexed", "loaded"
    rows,         \* its rows in insertion order; Milvus keeps duplicate ids
    flushed,      \* how many of them row_count reports
    table,        \* pgvector table, id -> vector or NoVector
    tableDim,     \* its vector column's dimension, 0 when there is no table
    pc,           \* per runner: the call it is about to make, or how it ended
    limit,        \* per runner: limit of its query
    batch,        \* per runner: the records its query returned
    next,         \* per runner: index in batch of the next record to upsert
    changes,      \* counts what other clients changed
    faults,       \* counts failures
    history,      \* auxiliary: every record the collection ever held
    undisturbed,  \* auxiliary, per runner: since it asked for the row count
                  \* nobody else changed the rows or the table
    sawAll        \* auxiliary, per runner: that row count was of every row

sourceVars == <<coll, rows, flushed, history>>
targetVars == <<table, tableDim>>
runnerVars == <<pc, limit, batch, next>>
auxVars == <<undisturbed, sawAll>>
vars == <<sourceVars, targetVars, runnerVars, changes, faults, auxVars>>

Record == [id: Ids, vec: Vectors]
CollectionStates == {"absent", "created", "indexed", "loaded"}
Active == {"count", "query", "validate", "connect", "write"}
Ended == {"idle", "done", "failed", "rejected", "crashed"}

RowSet == {rows[i] : i \in DOMAIN rows}

\* The per-record test of validateVectorMigrationRecords.
ValidRecord(rec) ==
    /\ rec.id # EmptyId
    /\ DimensionOf[rec.vec] = Dimension
    /\ rec.vec \in FiniteVectors

\* What the table accepts: the writer refuses to format a non-finite vector,
\* the column has one dimension, and a missing table accepts nothing.
TableAccepts(rec) ==
    /\ rec.vec \in FiniteVectors
    /\ tableDim # 0
    /\ DimensionOf[rec.vec] = tableDim

\* Row indexes a query with this limit may return, in order: no row twice, at
\* most the limit, and fewer only when every flushed row is there.  Rows that
\* are not flushed may be visible or not.
Answers(n) ==
    {pick \in UNION {[1..k -> 1..Len(rows)] : k \in 0..Len(rows)} :
        /\ \A i, j \in DOMAIN pick : pick[i] = pick[j] => i = j
        /\ Len(pick) <= n
        /\ Len(pick) = n \/ \A i \in 1..flushed : \E j \in DOMAIN pick : pick[j] = i}

Init ==
    /\ coll = "loaded"
    /\ rows = << >>
    /\ flushed = 0
    /\ history = {}
    /\ table = Preexisting
    /\ tableDim \in TargetDims
    /\ pc = [r \in Runners |-> "idle"]
    /\ limit = [r \in Runners |-> 0]
    /\ batch = [r \in Runners |-> << >>]
    /\ next = [r \in Runners |-> 1]
    /\ changes = 0
    /\ faults = 0
    /\ undisturbed = [r \in Runners |-> FALSE]
    /\ sawAll = [r \in Runners |-> FALSE]

-----------------------------------------------------------------------------
(* The migrate command.  *)

Goto(r, label) == pc' = [pc EXCEPT ![r] = label]

\* Faulty variant: counts records from zero.
Start_ZeroBased(r) ==
    /\ pc[r] \in Ended
    /\ Goto(r, "count")
    /\ limit' = [limit EXCEPT ![r] = 0]
    /\ batch' = [batch EXCEPT ![r] = << >>]
    /\ next' = [next EXCEPT ![r] = 0]
    /\ undisturbed' = [undisturbed EXCEPT ![r] = FALSE]
    /\ UNCHANGED <<sourceVars, targetVars, changes, faults, sawAll>>

\* A new process: nothing of an earlier run is left but the two databases.
Start(r) ==
    /\ pc[r] \in Ended
    /\ Goto(r, "count")
    /\ limit' = [limit EXCEPT ![r] = 0]
    /\ batch' = [batch EXCEPT ![r] = << >>]
    /\ next' = [next EXCEPT ![r] = 1]
    /\ undisturbed' = [undisturbed EXCEPT ![r] = FALSE]
    /\ UNCHANGED <<sourceVars, targetVars, changes, faults, sawAll>>

\* GetCollectionStatistics; a row count of zero becomes the reader's own
\* batch size.
CountRows(r) ==
    /\ pc[r] = "count"
    /\ coll # "absent"
    /\ limit' = [limit EXCEPT ![r] = IF flushed = 0 THEN FallbackLimit ELSE flushed]
    /\ undisturbed' = [undisturbed EXCEPT ![r] = TRUE]
    /\ sawAll' = [sawAll EXCEPT ![r] = flushed = Len(rows)]
    /\ Goto(r, "query")
    /\ UNCHANGED <<sourceVars, targetVars, batch, next, changes, faults>>

QueryRows(r) ==
    /\ pc[r] = "query"
    /\ coll = "loaded"
    /\ \E pick \in Answers(limit[r]) :
        batch' = [batch EXCEPT ![r] = [i \in DOMAIN pick |-> rows[pick[i]]]]
    /\ Goto(r, "validate")
    /\ UNCHANGED <<sourceVars, targetVars, limit, next, changes, faults, auxVars>>

\* Faulty variant: looks at the first record only.
Validate_FirstOnly(r) ==
    /\ pc[r] = "validate"
    /\ Goto(r, IF batch[r] = << >> \/ ValidRecord(batch[r][1])
               THEN "connect" ELSE "rejected")
    /\ UNCHANGED <<sourceVars, targetVars, limit, batch, next, changes, faults, auxVars>>

\* The whole batch is validated before the first write.
Validate(r) ==
    /\ pc[r] = "validate"
    /\ Goto(r, IF \A i \in DOMAIN batch[r] : ValidRecord(batch[r][i])
               THEN "connect" ELSE "rejected")
    /\ UNCHANGED <<sourceVars, targetVars, limit, batch, next, changes, faults, auxVars>>

\* The writer connects before it looks at the records, even at none.
ConnectTarget(r) ==
    /\ pc[r] = "connect"
    /\ Goto(r, "write")
    /\ UNCHANGED <<sourceVars, targetVars, limit, batch, next, changes, faults, auxVars>>

ToWrite(r) == pc[r] = "write" /\ next[r] <= Len(batch[r])

\* Faulty variant: records share one vector buffer, the last one's.
ApplyUpsert_SharedBuffer(r) ==
    LET rec == [batch[r][next[r]] EXCEPT !.vec = batch[r][Len(batch[r])].vec] IN
    /\ TableAccepts(rec)
    /\ table' = [table EXCEPT ![rec.id] = rec.vec]
    /\ undisturbed' = [q \in Runners |-> undisturbed[q] /\ q = r]
    /\ UNCHANGED <<sourceVars, tableDim, limit, batch, changes, sawAll>>

\* Faulty variant: ON CONFLICT DO NOTHING.
ApplyUpsert_KeepsOldRow(r) ==
    LET rec == batch[r][next[r]] IN
    /\ TableAccepts(rec)
    /\ table' = [table EXCEPT ![rec.id] = IF @ = NoVector THEN rec.vec ELSE @]
    /\ undisturbed' = [q \in Runners |-> undisturbed[q] /\ q = r]
    /\ UNCHANGED <<sourceVars, tableDim, limit, batch, changes, sawAll>>

\* INSERT .. ON CONFLICT DO UPDATE of one record, committed on its own.
ApplyUpsert(r) ==
    LET rec == batch[r][next[r]] IN
    /\ TableAccepts(rec)
    /\ table' = [table EXCEPT ![rec.id] = rec.vec]
    /\ undisturbed' = [q \in Runners |-> undisturbed[q] /\ q = r]
    /\ UNCHANGED <<sourceVars, tableDim, limit, batch, changes, sawAll>>

\* Faulty variant: skips a record the table refuses and goes on.
UpsertNext_SkipsRefused(r) ==
    /\ ToWrite(r)
    /\ \/ ApplyUpsert(r)
       \/ /\ ~TableAccepts(batch[r][next[r]])
          /\ UNCHANGED <<sourceVars, targetVars, limit, batch, changes, auxVars>>
    /\ next' = [next EXCEPT ![r] = @ + 1]
    /\ UNCHANGED <<pc, faults>>

UpsertNext(r) ==
    /\ ToWrite(r)
    /\ ApplyUpsert(r)
    /\ next' = [next EXCEPT ![r] = @ + 1]
    /\ UNCHANGED <<pc, faults>>

\* The row is committed but the answer is lost, so the run stops with an error.
UpsertAnswerLost(r) ==
    /\ ToWrite(r)
    /\ faults < MaxFaults
    /\ ApplyUpsert(r)
    /\ faults' = faults + 1
    /\ Goto(r, "failed")
    /\ UNCHANGED next

\* Faulty variant: stops one record early.
Finish_OffByOne(r) ==
    /\ pc[r] = "write"
    /\ next[r] >= Len(batch[r])
    /\ Goto(r, "done")
    /\ UNCHANGED <<sourceVars, targetVars, limit, batch, next, changes, faults, auxVars>>

Finish(r) ==
    /\ pc[r] = "write"
    /\ next[r] > Len(batch[r])
    /\ Goto(r, "done")
    /\ UNCHANGED <<sourceVars, targetVars, limit, batch, next, changes, faults, auxVars>>

\* The call the runner is about to make can only fail.
Refused(r) ==
    \/ pc[r] = "count" /\ coll = "absent"
    \/ pc[r] = "query" /\ coll # "loaded"
    \/ ToWrite(r) /\ ~TableAccepts(batch[r][next[r]])

\* Faulty variant: the error of a call is dropped and the run reports success.
CallFails_Swallowed(r) ==
    /\ pc[r] \in {"count", "query", "connect"} \/ ToWrite(r)
    /\ \/ Refused(r) /\ UNCHANGED faults
       \/ ~Refused(r) /\ faults < MaxFaults /\ faults' = faults + 1
    /\ Goto(r, "done")
    /\ UNCHANGED <<sourceVars, targetVars, limit, batch, next, changes, auxVars>>

\* Any error ends the run at once; rows already upserted stay.
CallFails(r) ==
    /\ pc[r] \in {"count", "query", "connect"} \/ ToWrite(r)
    /\ \/ Refused(r) /\ UNCHANGED faults
       \/ ~Refused(r) /\ faults < MaxFaults /\ faults' = faults + 1
    /\ Goto(r, "failed")
    /\ UNCHANGED <<sourceVars, targetVars, limit, batch, next, changes, auxVars>>

Crash(r) ==
    /\ pc[r] \in Active
    /\ faults < MaxFaults
    /\ faults' = faults + 1
    /\ Goto(r, "crashed")
    /\ UNCHANGED <<sourceVars, targetVars, limit, batch, next, changes, auxVars>>

Progress(r) ==
    \/ CountRows(r) \/ QueryRows(r) \/ Validate(r) \/ ConnectTarget(r)
    \/ UpsertNext(r) \/ Finish(r) \/ CallFails(r)

RunnerStep(r) == Start(r) \/ Progress(r) \/ UpsertAnswerLost(r) \/ Crash(r)

-----------------------------------------------------------------------------
(* Other clients of the Milvus collection.  *)

RowsBecome(new) ==
    /\ rows' = new
    /\ history' = history \union {new[i] : i \in DOMAIN new}
    /\ undisturbed' = [r \in Runners |-> FALSE]

\* A second row with an id already there is a duplicate, not an update.  The
\* vector field has one dimension.
SourceInsert ==
    /\ changes < MaxChanges
    /\ Len(rows) < MaxRows
    /\ coll = "loaded"
    /\ \E rec \in Record :
        /\ \A i \in DOMAIN rows : DimensionOf[rows[i].vec] = DimensionOf[rec.vec]
        /\ RowsBecome(Append(rows, rec))
    /\ changes' = changes + 1
    /\ UNCHANGED <<coll, flushed, targetVars, runnerVars, faults, sawAll>>

SourceUpdate ==
    /\ changes < MaxChanges
    /\ \E i \in DOMAIN rows : \E x \in Vectors \ {rows[i].vec} :
        /\ DimensionOf[x] = DimensionOf[rows[i].vec]
        /\ RowsBecome([rows EXCEPT ![i].vec = x])
    /\ changes' = changes + 1
    /\ UNCHANGED <<coll, flushed, targetVars, runnerVars, faults, sawAll>>

SourceFlush ==
    /\ flushed < Len(rows)
    /\ flushed' = Len(rows)
    /\ UNCHANGED <<coll, rows, history, targetVars, runnerVars, changes, faults, auxVars>>

OtherClients == SourceInsert \/ SourceUpdate \/ SourceFlush

Next == (\E r \in Runners : RunnerStep(r)) \/ OtherClients

Spec == Init /\ [][Next]_vars

(* A runner that can make its next call makes it; an operator keeps running
   the command; Milvus flushes on its own.  Nothing forces a client to change
   the source or a failure to happen.  *)
Fairness ==
    /\ \A r \in Runners : WF_vars(Start(r)) /\ WF_vars(Progress(r))
    /\ WF_vars(SourceFlush)

FairSpec == Spec /\ Fairness
-----------------------------------------------------------------------------
(* Properties.  *)

TypeOK ==
    /\ coll \in CollectionStates
    /\ rows \in Seq(Record)
    /\ flushed \in 0..Len(rows)
    /\ history \in SUBSET Record
    /\ table \in [Ids -> Vectors \union {NoVector}]
    /\ tableDim \in Nat
    /\ pc \in [Runners -> Active \union Ended]
    /\ limit \in [Runners -> Nat]
    /\ batch \in [Runners -> Seq(Record)]
    /\ next \in [Runners -> Nat \ {0}]
    /\ changes \in Nat
    /\ faults \in Nat
    /\ undisturbed \in [Runners -> BOOLEAN]
    /\ sawAll \in [Runners -> BOOLEAN]

\* Every target row is either one that was there before or carries a vector
\* the source once held under that very id (Migrate, WritePGVectorMigration-
\* Records): no run mixes ids and vectors up or touches foreign rows.
TargetProvenance ==
    \A k \in Ids :
        \/ table[k] = Preexisting[k]
        \/ [id |-> k, vec |-> table[k]] \in history

\* "fails fast on malformed or incomplete source data": a row a migration
\* wrote is valid, and so is every other record of a batch of which at least
\* one row was written (Migrate validates the whole batch first).
OnlyValidRowsReachTarget ==
    /\ \A k \in Ids :
        \/ table[k] = Preexisting[k]
        \/ ValidRecord([id |-> k, vec |-> table[k]])
    /\ \A r \in Runners : next[r] > 1 =>
        \A i \in DOMAIN batch[r] : ValidRecord(batch[r][i])

\* Completeness.  When the row count saw every row and nothing moved since,
\* a successful run leaves the table with a row for every source row, holding
\* the vector of a source row of that id (Count and Query agree, and
\* WriteRecords returns nil only after the last record).
SuccessIsComplete ==
    \A r \in Runners : pc[r] = "done" /\ undisturbed[r] /\ sawAll[r] =>
        \A rec \in RowSet : [id |-> rec.id, vec |-> table[rec.id]] \in RowSet

\* "expected conservative Milvus iterator batch size 1 to avoid dropping small
\* collections" (vector_migration_real_adapters_test.go:27): a successful run
\* over a source nobody touched leaves a row out only when the query found
\* fewer rows than it was allowed to return.  The code breaks it: a row count
\* of zero, which Milvus reports until rows are flushed, becomes a query limit
\* of one, and the run succeeds with one record.
SmallCollectionKept ==
    \A r \in Runners : pc[r] = "done" /\ undisturbed[r] =>
        \A rec \in RowSet : table[rec.id] # NoVector \/ Len(batch[r]) < limit[r]

\* A run that stopped half way, for whatever reason, leaves at least the rows
\* it counted as written: each record before the one it stopped at is in the
\* table, unless someone else moved the data meanwhile.  An upsert whose answer
\* was lost may have added the next one.
PartialRunIsPrefix ==
    \A r \in Runners : undisturbed[r] =>
        \A j \in 1..(next[r] - 1) :
            \E i \in DOMAIN batch[r] :
                /\ batch[r][i].id = batch[r][j].id
                /\ batch[r][i].vec = table[batch[r][j].id]

\* Records a migration keeps on running over end up in the target: a target
\* that went stale, a crash and a lost answer are all repaired by running the
\* command again, provided the source only holds valid records.
InSync == \A rec \in RowSet : [id |-> rec.id, vec |-> table[rec.id]] \in RowSet
Migratable == tableDim = Dimension /\ \A rec \in RowSet : ValidRecord(rec)
RerunsConverge == <>[]Migratable => <>[]InSync

\* The records a run may still write, and a row that is repaired: it holds what
\* the source has for its id, and no run carries an older record of that id.
Carried(r) ==
    IF pc[r] \in {"validate", "connect", "write"}
    THEN {batch[r][i] : i \in next[r]..Len(batch[r])} ELSE {}

Repaired(k) ==
    /\ [id |-> k, vec |-> table[k]] \in RowSet
    /\ \A r \in Runners : \A rec \in Carried(r) : rec.id = k => rec \in RowSet

\* Why reruns converge, and what a slow process can undo: a repaired row stays
\* repaired until the source changes, however many runs start, fail, are killed
\* or repeat a write (ON CONFLICT DO UPDATE in any order).
RepairsStick == [][rows' = rows => \A k \in Ids : Repaired(k) => Repaired(k)']_vars

-----------------------------------------------------------------------------
(* The run implements the contract: it has its snapshot once the query answered
   and copies from the moment that batch passed validation; what is left to
   copy is the rest of the batch.  *)

ContractPhase(r) ==
    CASE pc[r] \in {"idle", "count", "query"} -> "idle"
      [] pc[r] = "validate" -> "checking"
      [] pc[r] \in {"connect", "write"} -> "copying"
      [] pc[r] = "done" -> "succeeded"
      [] OTHER -> "stopped"

phaseBar == [r \in Runners |-> ContractPhase(r)]
todoBar == [r \in Runners |-> {batch[r][i] : i \in next[r]..Len(batch[r])}]

Contract == INSTANCE MigrationContract WITH
    source <- RowSet,
    target <- table,
    phase <- phaseBar,
    todo <- todoBar,
    Acceptable <- {rec \in Record : ValidRecord(rec)}

\* Refinement: whatever the calls, failures, crashes and interleavings, a
\* migration is a copy of one snapshot of the collection that says so only
\* when nothing of the snapshot is left to copy.
ImplementsContract == Contract!ContractSpec
=============================================================================
