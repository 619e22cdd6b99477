----------------------- MODULE VectorMigrationProofs -----------------------
(***************************************************************************)
(* Proofs about VectorMigration for any number of runners, ids, vectors    *)
(* and rows.                                                               *)
(***************************************************************************)
EXTENDS VectorMigration, FiniteSetTheorems, SequenceTheorems, TLAPS

-----------------------------------------------------------------------------
(* Sequences.  *)

\* The elements of a sequence over S are in S.
LEMMA ElementsOfSeq ==
  ASSUME NEW S, NEW s \in Seq(S)
  PROVE  {s[i] : i \in DOMAIN s} \subseteq S
<1>1. DOMAIN s = 1..Len(s) /\ \A i \in 1..Len(s) : s[i] \in S
  OBVIOUS
<1>2. QED
  BY <1>1

\* As many different numbers of 1..n as it holds are all the numbers of 1..n.
LEMMA InjectionCovers ==
  ASSUME NEW n \in Nat, NEW pick \in Seq(1..n), Len(pick) >= n,
         \A i, j \in DOMAIN pick : pick[i] = pick[j] => i = j
  PROVE  \A x \in 1..n : \E i \in DOMAIN pick : pick[i] = x
<1>0. DOMAIN pick = 1..Len(pick) /\ pick \in [1..Len(pick) -> 1..n]
  OBVIOUS
<1>1. pick \in Injection(1..Len(pick), 1..n)
  BY <1>0 DEF Injection, IsInjective
<1>2. Len(pick) \in Nat /\ IsFiniteSet(1..n)
      /\ Cardinality(1..n) = n /\ Cardinality(1..Len(pick)) = Len(pick)
  <2>1. Len(pick) \in Nat
    OBVIOUS
  <2>2. \A m \in Nat : IsFiniteSet(1..m) /\ Cardinality(1..m) = m
    BY FS_Interval
  <2>3. QED
    BY <2>1, <2>2
<1>3. Cardinality(1..Len(pick)) = Cardinality(1..n)
  BY <1>1, <1>2, FS_Injection
<1>4. pick \in Surjection(1..Len(pick), 1..n)
  BY <1>1, <1>2, <1>3, FS_Injection
<1>5. QED
  BY <1>0, <1>4 DEF Surjection

-----------------------------------------------------------------------------
(* Type correctness.  *)

\* The type invariant is inductive.
LEMMA TypeInit == Init => TypeOK
<1> SUFFICES ASSUME Init PROVE TypeOK
  OBVIOUS
<1> USE ConstantsAssumption
<1>1. rows \in Seq(Record) /\ Len(rows) = 0
  BY DEF Init
<1>2. batch \in [Runners -> Seq(Record)]
  BY DEF Init
<1>3. QED
  BY <1>1, <1>2 DEF Init, TypeOK, CollectionStates, Active, Ended

\* What a query returns is a sequence of rows of the collection.
LEMMA AnswerType ==
  ASSUME TypeOK, NEW n \in Nat, NEW pick \in Answers(n)
  PROVE  /\ pick \in Seq(1..Len(rows))
         /\ [i \in DOMAIN pick |-> rows[pick[i]]] \in Seq(Record)
         /\ DOMAIN [i \in DOMAIN pick |-> rows[pick[i]]] = DOMAIN pick
         /\ \A i \in DOMAIN pick : pick[i] \in DOMAIN rows
         /\ \A i \in DOMAIN pick : rows[pick[i]] \in RowSet
<1> rows \in Seq(Record)
  BY DEF TypeOK
<1>1. PICK k \in 0..Len(rows) : pick \in [1..k -> 1..Len(rows)]
  BY DEF Answers
<1>2. k \in Nat /\ DOMAIN pick = 1..k /\ DOMAIN rows = 1..Len(rows)
  BY <1>1
<1>3. \A i \in 1..k : pick[i] \in DOMAIN rows /\ rows[pick[i]] \in Record
  BY <1>1, <1>2
<1>4. pick \in Seq(1..Len(rows))
  BY <1>1, <1>2
<1>5. [i \in 1..k |-> rows[pick[i]]] \in Seq(Record)
  BY <1>2, <1>3
<1>6. \A i \in 1..k : rows[pick[i]] \in RowSet
  BY <1>3 DEF RowSet
<1>7. QED
  BY <1>2, <1>3, <1>4, <1>5, <1>6

\* Every step keeps the types.
LEMMA TypeStep == TypeOK /\ [Next]_vars => TypeOK'
<1> SUFFICES ASSUME TypeOK, [Next]_vars PROVE TypeOK'
  OBVIOUS
<1> USE ConstantsAssumption DEF TypeOK, Goto, sourceVars, targetVars, runnerVars, auxVars
<1>1. ASSUME NEW r \in Runners, Start(r) PROVE TypeOK'
  BY <1>1 DEF Start, Active
<1>2. ASSUME NEW r \in Runners, CountRows(r) PROVE TypeOK'
  BY <1>2 DEF CountRows, Active
<1>3. ASSUME NEW r \in Runners, QueryRows(r) PROVE TypeOK'
  <2>1. batch' \in [Runners -> Seq(Record)]
    BY <1>3, AnswerType DEF QueryRows
  <2>2. QED
    BY <1>3, <2>1 DEF QueryRows, Active
<1>4. ASSUME NEW r \in Runners, Validate(r) PROVE TypeOK'
  BY <1>4 DEF Validate, Active, Ended
<1>5. ASSUME NEW r \in Runners, ConnectTarget(r) PROVE TypeOK'
  BY <1>5 DEF ConnectTarget, Active
<1>6. ASSUME NEW r \in Runners, ToWrite(r), ApplyUpsert(r)
      PROVE  /\ table' \in [Ids -> Vectors \union {NoVector}]
             /\ undisturbed' \in [Runners -> BOOLEAN]
             /\ UNCHANGED <<sourceVars, tableDim, limit, batch, changes, sawAll>>
  <2>1. batch[r][next[r]] \in Record
    BY <1>6 DEF ToWrite
  <2>2. QED
    BY <1>6, <2>1 DEF ApplyUpsert, Record
<1>7. ASSUME NEW r \in Runners, UpsertNext(r) PROVE TypeOK'
  <2>1. ToWrite(r) /\ ApplyUpsert(r)
    BY <1>7 DEF UpsertNext
  <2>2. QED
    BY <1>6, <1>7, <2>1 DEF UpsertNext
<1>8. ASSUME NEW r \in Runners, UpsertAnswerLost(r) PROVE TypeOK'
  <2>1. ToWrite(r) /\ ApplyUpsert(r)
    BY <1>8 DEF UpsertAnswerLost
  <2>2. QED
    BY <1>6, <1>8, <2>1 DEF UpsertAnswerLost, Ended
<1>9. ASSUME NEW r \in Runners, Finish(r) PROVE TypeOK'
  BY <1>9 DEF Finish, Ended
<1>10. ASSUME NEW r \in Runners, CallFails(r) PROVE TypeOK'
  BY <1>10 DEF CallFails, Ended
<1>11. ASSUME NEW r \in Runners, Crash(r) PROVE TypeOK'
  BY <1>11 DEF Crash, Ended
<1>12. CASE SourceInsert
  <2>1. PICK rec \in Record : RowsBecome(Append(rows, rec))
    BY <1>12 DEF SourceInsert
  <2>2. Append(rows, rec) \in Seq(Record) /\ Len(Append(rows, rec)) = Len(rows) + 1
    OBVIOUS
  <2>3. {Append(rows, rec)[i] : i \in DOMAIN Append(rows, rec)} \subseteq Record
    BY <2>2, ElementsOfSeq
  <2>4. QED
    BY <1>12, <2>1, <2>2, <2>3 DEF SourceInsert, RowsBecome
<1>13. CASE SourceUpdate
  <2>1. PICK i \in DOMAIN rows, x \in Vectors : RowsBecome([rows EXCEPT ![i].vec = x])
    BY <1>13 DEF SourceUpdate
  <2> DEFINE changed == [rows[i] EXCEPT !.vec = x]
             new == [rows EXCEPT ![i] = changed]
  <2>2. i \in 1..Len(rows) /\ changed \in Record
    <3>1. i \in 1..Len(rows) /\ rows[i] \in Record
      OBVIOUS
    <3>2. QED
      BY <3>1 DEF Record
  <2> HIDE DEF changed
  <2>3. new \in Seq(Record) /\ Len(new) = Len(rows)
    BY <2>2, ExceptSeq
  <2>4. {new[j] : j \in DOMAIN new} \subseteq Record
    BY <2>3, ElementsOfSeq
  <2>5. /\ rows' = new
        /\ history' = history \union {new[j] : j \in DOMAIN new}
        /\ undisturbed' \in [Runners -> BOOLEAN]
    BY <2>1 DEF RowsBecome, changed
  <2> HIDE DEF new
  <2>6. QED
    BY <1>13, <2>3, <2>4, <2>5 DEF SourceUpdate
<1>14. CASE SourceFlush
  BY <1>14 DEF SourceFlush
<1>15. CASE UNCHANGED vars
  BY <1>15 DEF vars
<1>16. QED
  BY <1>1, <1>2, <1>3, <1>4, <1>5, <1>7, <1>8, <1>9, <1>10, <1>11, <1>12, <1>13, <1>14, <1>15
     DEF Next, RunnerStep, Progress, OtherClients

\* Every variable keeps the type the code gives it: in particular the row
\* count never exceeds the rows, and a runner's position stays a positive index.
THEOREM TypeCorrect == Spec => []TypeOK
BY TypeInit, TypeStep, PTL DEF Spec

-----------------------------------------------------------------------------
(* Every row a run writes is a valid record of one batch.  *)

\* A run has no batch before its query and writes nothing before it connects.
Fresh ==
    \A r \in Runners :
        /\ pc[r] \in {"count", "query"} => batch[r] = << >> /\ next[r] = 1
        /\ pc[r] \in {"validate", "connect"} => next[r] = 1

\* A batch that may be written, or of which a row was written, is valid.
Checked ==
    \A r \in Runners : pc[r] \in {"connect", "write", "done"} \/ next[r] > 1 =>
        \A i \in DOMAIN batch[r] : ValidRecord(batch[r][i])

TableClean ==
    \A k \in Ids :
        \/ table[k] = Preexisting[k]
        \/ ValidRecord([id |-> k, vec |-> table[k]])

ValidityInv == Fresh /\ Checked /\ TableClean

\* One upsert changes one row, to the record the runner is at.
LEMMA UpsertEffect ==
  ASSUME TypeOK, NEW r \in Runners, ToWrite(r), ApplyUpsert(r)
  PROVE  /\ pc[r] = "write"
         /\ next[r] \in DOMAIN batch[r]
         /\ batch[r][next[r]] \in Record
         /\ batch[r][next[r]].id \in Ids
         /\ [id |-> batch[r][next[r]].id, vec |-> batch[r][next[r]].vec] = batch[r][next[r]]
         /\ table' = [table EXCEPT ![batch[r][next[r]].id] = batch[r][next[r]].vec]
         /\ UNCHANGED <<coll, rows, flushed, history, tableDim, limit, batch, changes, sawAll>>
         /\ undisturbed' = [q \in Runners |-> undisturbed[q] /\ q = r]
<1>1. next[r] \in 1..Len(batch[r]) /\ batch[r] \in Seq(Record)
  BY DEF TypeOK, ToWrite
<1>2. next[r] \in DOMAIN batch[r] /\ batch[r][next[r]] \in Record
  BY <1>1
<1>3. QED
  BY <1>2 DEF ToWrite, ApplyUpsert, Record, sourceVars

\* Only Validate lets a batch through, and every batch it lets through is valid.
LEMMA ValidityStep == TypeOK /\ ValidityInv /\ [Next]_vars => ValidityInv'
<1> SUFFICES ASSUME TypeOK, ValidityInv, [Next]_vars PROVE ValidityInv'
  OBVIOUS
<1> USE DEF ValidityInv, Fresh, Checked, TableClean, Goto,
            sourceVars, targetVars, runnerVars, auxVars
<1>0. /\ pc \in [Runners -> Active \union Ended]
      /\ batch \in [Runners -> Seq(Record)]
      /\ next \in [Runners -> Nat \ {0}]
      /\ table \in [Ids -> Vectors \union {NoVector}]
  BY DEF TypeOK
<1>1. ASSUME NEW r \in Runners, Start(r) PROVE ValidityInv'
  BY <1>0, <1>1 DEF Start
<1>2. ASSUME NEW r \in Runners, CountRows(r) PROVE ValidityInv'
  BY <1>0, <1>2 DEF CountRows
<1>3. ASSUME NEW r \in Runners, QueryRows(r) PROVE ValidityInv'
  BY <1>0, <1>3 DEF QueryRows
<1>4. ASSUME NEW r \in Runners, Validate(r) PROVE ValidityInv'
  BY <1>0, <1>4 DEF Validate
<1>5. ASSUME NEW r \in Runners, ConnectTarget(r) PROVE ValidityInv'
  BY <1>0, <1>5 DEF ConnectTarget
<1>6. ASSUME NEW r \in Runners, ToWrite(r), ApplyUpsert(r) PROVE TableClean'
  <2>1. ValidRecord(batch[r][next[r]])
    BY <1>6, UpsertEffect
  <2>2. ASSUME NEW k \in Ids
        PROVE  \/ table'[k] = Preexisting[k]
               \/ ValidRecord([id |-> k, vec |-> table'[k]])
    <3>1. CASE k = batch[r][next[r]].id
      <4>1. table'[k] = batch[r][next[r]].vec
        BY <1>0, <1>6, <3>1, UpsertEffect
      <4>2. [id |-> k, vec |-> table'[k]] = batch[r][next[r]]
        BY <1>6, <3>1, <4>1, UpsertEffect
      <4>3. QED
        BY <2>1, <4>2
    <3>2. CASE k # batch[r][next[r]].id
      <4>1. table' = [table EXCEPT ![batch[r][next[r]].id] = batch[r][next[r]].vec]
        BY <1>6, UpsertEffect
      <4>2. table'[k] = table[k]
        BY <1>0, <3>2, <4>1
      <4>3. QED
        BY <4>2
    <3>3. QED
      BY <3>1, <3>2
  <2>3. QED
    BY <2>2
<1>7. ASSUME NEW r \in Runners, UpsertNext(r) PROVE ValidityInv'
  <2>1. ToWrite(r) /\ ApplyUpsert(r)
    BY <1>7 DEF UpsertNext
  <2>2. TableClean' /\ UNCHANGED batch
    BY <2>1, <1>6, UpsertEffect
  <2>3. Fresh' /\ Checked'
    BY <1>0, <1>7, <2>1, <2>2, UpsertEffect DEF UpsertNext
  <2>4. QED
    BY <2>2, <2>3
<1>8. ASSUME NEW r \in Runners, UpsertAnswerLost(r) PROVE ValidityInv'
  <2>1. ToWrite(r) /\ ApplyUpsert(r)
    BY <1>8 DEF UpsertAnswerLost
  <2>2. TableClean' /\ UNCHANGED batch
    BY <2>1, <1>6, UpsertEffect
  <2>3. Fresh' /\ Checked'
    BY <1>0, <1>8, <2>1, <2>2, UpsertEffect DEF UpsertAnswerLost
  <2>4. QED
    BY <2>2, <2>3
<1>9. ASSUME NEW r \in Runners, Finish(r) PROVE ValidityInv'
  BY <1>0, <1>9 DEF Finish
<1>10. ASSUME NEW r \in Runners, CallFails(r) PROVE ValidityInv'
  BY <1>0, <1>10 DEF CallFails
<1>11. ASSUME NEW r \in Runners, Crash(r) PROVE ValidityInv'
  BY <1>0, <1>11 DEF Crash
<1>12. CASE OtherClients
  BY <1>0, <1>12 DEF OtherClients, SourceInsert, SourceUpdate, SourceFlush, RowsBecome
<1>13. CASE UNCHANGED vars
  BY <1>13 DEF vars
<1>14. QED
  BY <1>1, <1>2, <1>3, <1>4, <1>5, <1>7, <1>8, <1>9, <1>10, <1>11, <1>12, <1>13
     DEF Next, RunnerStep, Progress

\* Migrate validates its whole batch before the first write: for any number of
\* concurrent runs, whatever fails, only valid records reach the table, and a
\* batch of which one row was written has no invalid record.
THEOREM OnlyValidRows == Spec => []OnlyValidRowsReachTarget
<1>1. Init => ValidityInv
  BY DEF Init, ValidityInv, Fresh, Checked, TableClean
<1>2. ValidityInv => OnlyValidRowsReachTarget
  BY DEF ValidityInv, Checked, TableClean, OnlyValidRowsReachTarget
<1>3. QED
  BY <1>1, <1>2, ValidityStep, TypeCorrect, PTL DEF Spec

-----------------------------------------------------------------------------
(* Every row a run writes is one the collection held.  *)

HistoryKept ==
    /\ RowSet \subseteq history
    /\ \A r \in Runners : \A i \in DOMAIN batch[r] : batch[r][i] \in history

ProvenanceInv == HistoryKept /\ TargetProvenance

\* A batch is read from the collection, and the table is written from a batch.
LEMMA ProvenanceStep == TypeOK /\ ProvenanceInv /\ [Next]_vars => ProvenanceInv'
<1> SUFFICES ASSUME TypeOK, ProvenanceInv, [Next]_vars PROVE ProvenanceInv'
  OBVIOUS
<1> USE DEF ProvenanceInv, HistoryKept, TargetProvenance,
            sourceVars, targetVars, runnerVars, auxVars
<1>0. /\ batch \in [Runners -> Seq(Record)]
      /\ table \in [Ids -> Vectors \union {NoVector}]
      /\ limit \in [Runners -> Nat]
  BY DEF TypeOK
<1>1. ASSUME NEW r \in Runners, Start(r) PROVE ProvenanceInv'
  BY <1>0, <1>1 DEF Start, RowSet
<1>2. ASSUME NEW r \in Runners,
             CountRows(r) \/ Validate(r) \/ ConnectTarget(r)
                \/ Finish(r) \/ CallFails(r) \/ Crash(r)
      PROVE  ProvenanceInv'
  BY <1>2 DEF CountRows, Validate, ConnectTarget, Finish, CallFails, Crash, RowSet
<1>3. ASSUME NEW r \in Runners, QueryRows(r) PROVE ProvenanceInv'
  <2>1. PICK pick \in Answers(limit[r]) :
            batch' = [batch EXCEPT ![r] = [i \in DOMAIN pick |-> rows[pick[i]]]]
    BY <1>3 DEF QueryRows
  <2>2. \A i \in DOMAIN pick : rows[pick[i]] \in history
    BY <1>0, <2>1, AnswerType
  <2>3. HistoryKept'
    BY <1>0, <1>3, <2>1, <2>2 DEF QueryRows, RowSet
  <2>4. QED
    BY <1>3, <2>3 DEF QueryRows
<1>4. ASSUME NEW r \in Runners, UpsertNext(r) \/ UpsertAnswerLost(r)
      PROVE  ProvenanceInv'
  <2>1. ToWrite(r) /\ ApplyUpsert(r)
    BY <1>4 DEF UpsertNext, UpsertAnswerLost
  <2>2. batch[r][next[r]] \in history
    BY <2>1, UpsertEffect
  <2>3. ASSUME NEW k \in Ids
        PROVE  \/ table'[k] = Preexisting[k]
               \/ [id |-> k, vec |-> table'[k]] \in history
    <3>1. CASE k = batch[r][next[r]].id
      <4>1. table'[k] = batch[r][next[r]].vec
        BY <1>0, <2>1, <3>1, UpsertEffect
      <4>2. [id |-> k, vec |-> table'[k]] = batch[r][next[r]]
        BY <2>1, <3>1, <4>1, UpsertEffect
      <4>3. QED
        BY <2>2, <4>2
    <3>2. CASE k # batch[r][next[r]].id
      <4>1. table'[k] = table[k]
        BY <1>0, <2>1, <3>2, UpsertEffect
      <4>2. QED
        BY <4>1
    <3>3. QED
      BY <3>1, <3>2
  <2>4. QED
    BY <2>1, <2>3, UpsertEffect DEF RowSet
<1>5. ASSUME NEW new, RowsBecome(new), UNCHANGED <<batch, table>>
      PROVE  ProvenanceInv'
  BY <1>5 DEF RowsBecome, RowSet
<1>6. CASE OtherClients
  BY <1>5, <1>6 DEF OtherClients, SourceInsert, SourceUpdate, SourceFlush, RowSet
<1>7. CASE UNCHANGED vars
  BY <1>7 DEF vars, RowSet
<1>8. QED
  BY <1>1, <1>2, <1>3, <1>4, <1>6, <1>7 DEF Next, RunnerStep, Progress

\* No run mixes up ids and vectors or touches a foreign row: what the table
\* holds was there before, or stood in the collection under the same id.
THEOREM Provenance == Spec => []TargetProvenance
<1>1. Init => ProvenanceInv
  BY DEF Init, ProvenanceInv, HistoryKept, TargetProvenance, RowSet
<1>2. ProvenanceInv => TargetProvenance
  BY DEF ProvenanceInv
<1>3. QED
  BY <1>1, <1>2, ProvenanceStep, TypeCorrect, PTL DEF Spec

-----------------------------------------------------------------------------
(* A run that saw every row and was left alone copies every row.  *)

\* An undisturbed run carries rows the collection still has.
Current ==
    \A r \in Runners : undisturbed[r] =>
        \A i \in DOMAIN batch[r] : batch[r][i] \in RowSet

\* A row count of every row leaves room for every row in the query.
Counted ==
    \A r \in Runners : undisturbed[r] /\ sawAll[r] =>
        flushed = Len(rows) /\ Len(rows) <= limit[r]

\* The batch of such a run lacks no row.
Covered ==
    \A r \in Runners :
        undisturbed[r] /\ sawAll[r] /\ pc[r] \in {"validate", "connect", "write", "done"} =>
            \A rec \in RowSet : \E i \in DOMAIN batch[r] : batch[r][i] = rec

Finished == \A r \in Runners : pc[r] = "done" => next[r] > Len(batch[r])

CompletenessInv ==
    /\ Fresh
    /\ Current
    /\ Counted
    /\ Covered
    /\ Finished
    /\ PartialRunIsPrefix

\* Asking for at least as many rows as there are, all of them flushed, gets
\* every row.
LEMMA FullAnswer ==
  ASSUME TypeOK, flushed = Len(rows), NEW n \in Nat, Len(rows) <= n,
         NEW pick \in Answers(n)
  PROVE  \A rec \in RowSet : \E i \in DOMAIN pick : rows[pick[i]] = rec
<1>1. pick \in Seq(1..Len(rows)) /\ Len(rows) \in Nat /\ DOMAIN rows = 1..Len(rows)
  <2>1. pick \in Seq(1..Len(rows))
    BY AnswerType
  <2>2. rows \in Seq(Record)
    BY DEF TypeOK
  <2>3. QED
    BY <2>1, <2>2
<1>2. \A x \in 1..Len(rows) : \E i \in DOMAIN pick : pick[i] = x
  <2>1. CASE Len(pick) = n
    <3>1. \A i, j \in DOMAIN pick : pick[i] = pick[j] => i = j
      BY DEF Answers
    <3>2. QED
      BY <1>1, <2>1, <3>1, InjectionCovers
  <2>2. CASE Len(pick) # n
    BY <2>2 DEF Answers
  <2>3. QED
    BY <2>1, <2>2
<1>3. QED
  BY <1>1, <1>2 DEF RowSet

\* What an undisturbed run knows of the collection stays true until another
\* client, or another run, moves the data.
LEMMA CompletenessStep == TypeOK /\ CompletenessInv /\ [Next]_vars => CompletenessInv'
<1> SUFFICES ASSUME TypeOK, CompletenessInv, [Next]_vars PROVE CompletenessInv'
  OBVIOUS
<1> USE DEF CompletenessInv, Fresh, Current, Counted, Covered, Finished,
            PartialRunIsPrefix, Goto, sourceVars, targetVars, runnerVars, auxVars
<1>0. /\ pc \in [Runners -> Active \union Ended]
      /\ batch \in [Runners -> Seq(Record)]
      /\ next \in [Runners -> Nat \ {0}]
      /\ limit \in [Runners -> Nat]
      /\ table \in [Ids -> Vectors \union {NoVector}]
      /\ undisturbed \in [Runners -> BOOLEAN]
      /\ sawAll \in [Runners -> BOOLEAN]
      /\ flushed \in 0..Len(rows)
      /\ rows \in Seq(Record)
  BY DEF TypeOK
<1>1. ASSUME NEW r \in Runners, Start(r) PROVE CompletenessInv'
  <2>1. RowSet' = RowSet
    BY <1>1 DEF Start, RowSet
  <2>2. \A q \in Runners : q # r =>
            /\ pc'[q] = pc[q] /\ limit'[q] = limit[q] /\ batch'[q] = batch[q]
            /\ next'[q] = next[q] /\ undisturbed'[q] = undisturbed[q]
    BY <1>0, <1>1 DEF Start
  <2>3. pc'[r] = "count" /\ batch'[r] = << >> /\ next'[r] = 1 /\ undisturbed'[r] = FALSE
    BY <1>0, <1>1 DEF Start
  <2>4. UNCHANGED <<rows, flushed, table, sawAll>>
    BY <1>1 DEF Start
  <2>5. QED
    BY <2>1, <2>2, <2>3, <2>4
<1>2. ASSUME NEW r \in Runners, CountRows(r) PROVE CompletenessInv'
  <2>1. RowSet' = RowSet
    BY <1>2 DEF CountRows, RowSet
  <2>2. \A q \in Runners : q # r =>
            /\ pc'[q] = pc[q] /\ limit'[q] = limit[q]
            /\ undisturbed'[q] = undisturbed[q] /\ sawAll'[q] = sawAll[q]
    BY <1>0, <1>2 DEF CountRows
  <2>3. /\ pc'[r] = "query" /\ batch[r] = << >> /\ next[r] = 1
        /\ limit'[r] = IF flushed = 0 THEN FallbackLimit ELSE flushed
        /\ sawAll'[r] <=> flushed = Len(rows)
    BY <1>0, <1>2 DEF CountRows
  <2>4. UNCHANGED <<rows, flushed, table, batch, next>>
    BY <1>2 DEF CountRows
  <2>5. sawAll'[r] => Len(rows) <= limit'[r]
    <3>1. Len(rows) \in Nat /\ FallbackLimit \in Nat
      BY <1>0, ConstantsAssumption
    <3>2. QED
      BY <2>3, <3>1
  <2>6. Counted'
    BY <2>2, <2>3, <2>4, <2>5
  <2>7. Fresh' /\ Covered' /\ Finished' /\ Current' /\ PartialRunIsPrefix'
    BY <2>1, <2>2, <2>3, <2>4
  <2>8. QED
    BY <2>6, <2>7
<1>3. ASSUME NEW r \in Runners, QueryRows(r) PROVE CompletenessInv'
  <2>1. PICK pick \in Answers(limit[r]) :
            batch' = [batch EXCEPT ![r] = [i \in DOMAIN pick |-> rows[pick[i]]]]
    BY <1>3 DEF QueryRows
  <2>2. /\ DOMAIN batch'[r] = DOMAIN pick
        /\ \A i \in DOMAIN pick : batch'[r][i] = rows[pick[i]] /\ batch'[r][i] \in RowSet
    BY <1>0, <2>1, AnswerType
  <2>3. \A q \in Runners : q # r => pc'[q] = pc[q] /\ batch'[q] = batch[q]
    BY <1>0, <1>3, <2>1 DEF QueryRows
  <2>4. pc'[r] = "validate" /\ next[r] = 1
    BY <1>0, <1>3 DEF QueryRows
  <2>5. UNCHANGED <<rows, flushed, table, limit, next, undisturbed, sawAll>>
    BY <1>3 DEF QueryRows
  <2>6. RowSet' = RowSet
    BY <2>5 DEF RowSet
  <2>7. undisturbed[r] /\ sawAll[r] =>
            \A rec \in RowSet : \E i \in DOMAIN batch'[r] : batch'[r][i] = rec
    BY <1>0, <2>2, FullAnswer
  <2>8. Fresh' /\ Current' /\ Counted' /\ Covered' /\ Finished'
    BY <2>2, <2>3, <2>4, <2>5, <2>6, <2>7
  <2>9. PartialRunIsPrefix'
    BY <2>3, <2>4, <2>5
  <2>10. QED
    BY <2>8, <2>9
\* Steps that only move one runner's position.
<1>4. ASSUME NEW r \in Runners, NEW label,
             pc' = [pc EXCEPT ![r] = label],
             \/ label = "connect" /\ pc[r] = "validate"
             \/ label = "write" /\ pc[r] = "connect"
             \/ label = "done" /\ pc[r] = "write" /\ next[r] > Len(batch[r])
             \/ label \in {"failed", "rejected", "crashed"},
             UNCHANGED <<rows, flushed, table, limit, batch, next, undisturbed, sawAll>>
      PROVE  CompletenessInv'
  <2>1. \A q \in Runners : pc'[q] = IF q = r THEN label ELSE pc[q]
    BY <1>0, <1>4
  <2>2. RowSet' = RowSet
    BY <1>4 DEF RowSet
  <2>3. QED
    BY <1>4, <2>1, <2>2
<1>5. ASSUME NEW r \in Runners, Validate(r) PROVE CompletenessInv'
  <2>0. /\ pc[r] = "validate"
        /\ UNCHANGED <<rows, flushed, table, limit, batch, next, undisturbed, sawAll>>
    BY <1>5 DEF Validate
  <2>1. CASE pc' = [pc EXCEPT ![r] = "connect"]
    <3> DEFINE label == "connect"
    <3>1. label = "connect" /\ pc[r] = "validate" /\ pc' = [pc EXCEPT ![r] = label]
      BY <2>0, <2>1
    <3> HIDE DEF label
    <3>2. QED
      BY <1>4, <2>0, <3>1
  <2>2. CASE pc' = [pc EXCEPT ![r] = "rejected"]
    BY <1>4, <1>5, <2>2 DEF Validate
  <2>3. QED
    BY <1>5, <2>1, <2>2 DEF Validate
<1>6. ASSUME NEW r \in Runners, ConnectTarget(r) PROVE CompletenessInv'
  <2> DEFINE label == "write"
  <2>1. /\ label = "write" /\ pc[r] = "connect" /\ pc' = [pc EXCEPT ![r] = label]
        /\ UNCHANGED <<rows, flushed, table, limit, batch, next, undisturbed, sawAll>>
    BY <1>6 DEF ConnectTarget
  <2> HIDE DEF label
  <2>2. QED
    BY <1>4, <2>1
<1>7. ASSUME NEW r \in Runners, Finish(r) PROVE CompletenessInv'
  BY <1>4, <1>7 DEF Finish
<1>8. ASSUME NEW r \in Runners, CallFails(r) PROVE CompletenessInv'
  BY <1>4, <1>8 DEF CallFails
<1>9. ASSUME NEW r \in Runners, Crash(r) PROVE CompletenessInv'
  BY <1>4, <1>9 DEF Crash
\* An upsert keeps what the run wrote before, possibly under a later value of
\* a duplicated id, and disturbs every other run.
<1>10. ASSUME NEW r \in Runners, ToWrite(r), ApplyUpsert(r)
       PROVE  /\ Current' /\ Counted'
              /\ \A q \in Runners : undisturbed'[q] => q = r /\ undisturbed[q]
              /\ undisturbed[r] => \A j \in 1..next[r] :
                    \E i \in DOMAIN batch[r] :
                        /\ batch[r][i].id = batch[r][j].id
                        /\ batch[r][i].vec = table'[batch[r][j].id]
  <2> DEFINE rec == batch[r][next[r]]
  <2>1. /\ UNCHANGED <<rows, flushed, limit, batch, sawAll>>
        /\ undisturbed' = [q \in Runners |-> undisturbed[q] /\ q = r]
        /\ table' = [table EXCEPT ![rec.id] = rec.vec]
        /\ next[r] \in DOMAIN batch[r] /\ rec.id \in Ids
    BY <1>10, UpsertEffect
  <2>2. RowSet' = RowSet
    BY <2>1 DEF RowSet
  <2>3. \A q \in Runners : undisturbed'[q] => q = r /\ undisturbed[q]
    BY <2>1
  <2>4. Current' /\ Counted'
    BY <2>1, <2>2, <2>3
  <2>5. ASSUME undisturbed[r], NEW j \in 1..next[r]
        PROVE  \E i \in DOMAIN batch[r] :
                   /\ batch[r][i].id = batch[r][j].id
                   /\ batch[r][i].vec = table'[batch[r][j].id]
    <3>0. j \in DOMAIN batch[r] /\ batch[r][j].id \in Ids
      <4>1. batch[r] \in Seq(Record) /\ next[r] \in 1..Len(batch[r]) /\ j \in 1..Len(batch[r])
        BY <1>0, <2>1
      <4>2. batch[r][j] \in Record
        BY <4>1
      <4>3. QED
        BY <4>1, <4>2 DEF Record
    <3>1. CASE batch[r][j].id = rec.id
      <4>1. table'[batch[r][j].id] = rec.vec
        BY <1>0, <2>1, <3>1
      <4>2. QED
        BY <2>1, <3>1, <4>1
    <3>2. CASE batch[r][j].id # rec.id
      <4>1. table'[batch[r][j].id] = table[batch[r][j].id]
        BY <1>0, <2>1, <3>0, <3>2
      <4>2. j \in 1..(next[r] - 1)
        BY <1>0, <3>2
      <4>3. QED
        BY <2>5, <4>1, <4>2
    <3>3. QED
      BY <3>1, <3>2
  <2>6. QED
    BY <2>3, <2>4, <2>5
<1>11. ASSUME NEW r \in Runners, UpsertNext(r) PROVE CompletenessInv'
  <2>1. ToWrite(r) /\ ApplyUpsert(r)
    BY <1>11 DEF UpsertNext
  <2>2. /\ UNCHANGED <<pc, batch, rows, sawAll>> /\ RowSet' = RowSet
        /\ next'[r] = next[r] + 1 /\ pc[r] = "write"
        /\ \A q \in Runners : q # r => next'[q] = next[q]
    <3>1. pc[r] = "write" /\ UNCHANGED <<batch, rows, sawAll>>
      BY <2>1, UpsertEffect
    <3>2. UNCHANGED pc /\ next' = [next EXCEPT ![r] = next[r] + 1]
      BY <1>11 DEF UpsertNext
    <3>3. QED
      BY <1>0, <3>1, <3>2 DEF RowSet
  <2>3. Fresh' /\ Finished'
    BY <2>2
  <2>4. Covered'
    BY <1>10, <2>1, <2>2
  <2>5. PartialRunIsPrefix'
    <3>1. 1..(next'[r] - 1) = 1..next[r]
      BY <1>0, <2>2
    <3>2. SUFFICES ASSUME NEW q \in Runners, undisturbed'[q], NEW j \in 1..(next'[q] - 1)
                   PROVE  \E i \in DOMAIN batch[q] :
                              /\ batch[q][i].id = batch[q][j].id
                              /\ batch[q][i].vec = table'[batch[q][j].id]
      BY <2>2
    <3>3. q = r /\ undisturbed[r]
      BY <1>10, <2>1, <3>2
    <3>4. j \in 1..next[r]
      BY <3>1, <3>2, <3>3
    <3>5. QED
      BY <1>10, <2>1, <3>3, <3>4
  <2>6. QED
    BY <1>10, <2>1, <2>3, <2>4, <2>5
<1>12. ASSUME NEW r \in Runners, UpsertAnswerLost(r) PROVE CompletenessInv'
  <2>1. ToWrite(r) /\ ApplyUpsert(r)
    BY <1>12 DEF UpsertAnswerLost
  <2>2. /\ UNCHANGED <<next, batch, rows, sawAll>> /\ RowSet' = RowSet
        /\ pc'[r] = "failed"
        /\ \A q \in Runners : q # r => pc'[q] = pc[q]
    <3>1. UNCHANGED <<batch, rows, sawAll>>
      BY <2>1, UpsertEffect
    <3>2. UNCHANGED next /\ pc' = [pc EXCEPT ![r] = "failed"]
      BY <1>12 DEF UpsertAnswerLost
    <3>3. QED
      BY <1>0, <3>1, <3>2 DEF RowSet
  <2>3. Fresh' /\ Finished'
    BY <2>2
  <2>4. Covered'
    BY <1>10, <2>1, <2>2
  <2>5. PartialRunIsPrefix'
    <3>1. 1..(next[r] - 1) \subseteq 1..next[r]
      BY <1>0
    <3>2. SUFFICES ASSUME NEW q \in Runners, undisturbed'[q], NEW j \in 1..(next[q] - 1)
                   PROVE  \E i \in DOMAIN batch[q] :
                              /\ batch[q][i].id = batch[q][j].id
                              /\ batch[q][i].vec = table'[batch[q][j].id]
      BY <2>2
    <3>3. q = r /\ undisturbed[r]
      BY <1>10, <2>1, <3>2
    <3>4. QED
      BY <1>10, <2>1, <3>1, <3>3
  <2>6. QED
    BY <1>10, <2>1, <2>3, <2>4, <2>5
\* Whoever changes the rows disturbs every run.
<1>13. CASE SourceInsert \/ SourceUpdate
  <2>1. (\A r \in Runners : ~undisturbed'[r]) /\ UNCHANGED <<pc, limit, batch, next>>
    BY <1>13 DEF SourceInsert, SourceUpdate, RowsBecome
  <2>2. QED
    BY <2>1
\* A flush can only follow a row count that missed a row.
<1>14. CASE SourceFlush
  <2>1. /\ UNCHANGED <<rows, table, pc, limit, batch, next, undisturbed, sawAll>>
        /\ flushed # Len(rows)
        /\ RowSet' = RowSet
    BY <1>0, <1>14 DEF SourceFlush, RowSet
  <2>2. QED
    BY <2>1
<1>15. CASE UNCHANGED vars
  BY <1>15 DEF vars, RowSet
<1>16. QED
  BY <1>1, <1>2, <1>3, <1>5, <1>6, <1>7, <1>8, <1>9, <1>11, <1>12, <1>13, <1>14, <1>15
     DEF Next, RunnerStep, Progress, OtherClients

\* The invariant gives both statements about what a run leaves behind.
LEMMA CompletenessConsequence == TypeOK /\ CompletenessInv => SuccessIsComplete
<1> SUFFICES ASSUME TypeOK, CompletenessInv, NEW r \in Runners,
                    pc[r] = "done", undisturbed[r], sawAll[r], NEW rec \in RowSet
             PROVE  [id |-> rec.id, vec |-> table[rec.id]] \in RowSet
  BY DEF SuccessIsComplete
<1>1. PICK j \in DOMAIN batch[r] : batch[r][j] = rec
  BY DEF CompletenessInv, Covered
<1>2. j \in 1..(next[r] - 1)
  <2>1. batch[r] \in Seq(Record) /\ next[r] \in Nat /\ next[r] > Len(batch[r])
    BY DEF TypeOK, CompletenessInv, Finished
  <2>2. QED
    BY <1>1, <2>1
<1>3. PICK i \in DOMAIN batch[r] : batch[r][i].id = rec.id /\ batch[r][i].vec = table[rec.id]
  BY <1>1, <1>2 DEF CompletenessInv, PartialRunIsPrefix
<1>4. batch[r][i] \in RowSet
  BY DEF CompletenessInv, Current
<1>5. batch[r][i] \in Record
  BY DEF TypeOK
<1>6. batch[r][i] = [id |-> rec.id, vec |-> table[rec.id]]
  BY <1>3, <1>5 DEF Record
<1>7. QED
  BY <1>4, <1>6

\* Before the first run there is nothing to be incomplete.
LEMMA CompletenessInit == Init => CompletenessInv
BY DEF Init, CompletenessInv, Fresh, Current, Counted, Covered, Finished, PartialRunIsPrefix

\* A successful run whose row count saw every row, and which nobody disturbed,
\* leaves no row of the collection out of the target.
THEOREM Completeness == Spec => []SuccessIsComplete
BY CompletenessInit, CompletenessStep, CompletenessConsequence, TypeCorrect, PTL DEF Spec

\* However a run stops, the records it got past are in the target.
THEOREM PartialRuns == Spec => []PartialRunIsPrefix
<1>1. CompletenessInv => PartialRunIsPrefix
  BY DEF CompletenessInv
<1>2. QED
  BY <1>1, CompletenessInit, CompletenessStep, TypeCorrect, PTL DEF Spec

-----------------------------------------------------------------------------
(* Repairs stick.  Every step leaves a process at most with records it carried
   before or that are in the source, and writes one of the former at most.  *)

\* What a process carries shrinks, or is what the source has now (Query,
\* WriteRecords).
LEMMA CarriedShrinks ==
    ASSUME TypeOK, [Next]_vars, NEW q \in Runners
    PROVE  Carried(q)' \subseteq Carried(q) \union RowSet
<1>t. /\ pc \in [Runners -> Active \union Ended]
      /\ batch \in [Runners -> Seq(Record)]
      /\ next \in [Runners -> Nat \ {0}]
  BY DEF TypeOK
<1>1. ASSUME batch'[q] = batch[q], next'[q] = next[q] \/ next'[q] = next[q] + 1,
             pc'[q] \in {"validate", "connect", "write"} =>
                pc[q] \in {"validate", "connect", "write"}
      PROVE  Carried(q)' \subseteq Carried(q)
  BY <1>t, <1>1 DEF Carried
<1>2. ASSUME NEW r \in Runners, Start(r) PROVE Carried(q)' \subseteq Carried(q)
  <2>1. /\ pc' = [pc EXCEPT ![r] = "count"]
        /\ batch' = [batch EXCEPT ![r] = << >>]
        /\ next' = [next EXCEPT ![r] = 1]
    BY <1>2 DEF Start, Goto
  <2>2. CASE q = r
    BY <1>t, <2>1, <2>2 DEF Carried
  <2>3. CASE q # r
    BY <1>t, <1>1, <2>1, <2>3
  <2>. QED
    BY <2>2, <2>3
<1>3. ASSUME NEW r \in Runners, QueryRows(r) PROVE Carried(q)' \subseteq Carried(q) \union RowSet
  <2>1. PICK pick \in Answers(limit[r]) :
            batch' = [batch EXCEPT ![r] = [i \in DOMAIN pick |-> rows[pick[i]]]]
    BY <1>3 DEF QueryRows
  <2>2. pc' = [pc EXCEPT ![r] = "validate"] /\ next' = next
    BY <1>3 DEF QueryRows, Goto
  <2>3. CASE q = r
    <3>1. /\ pick \in Seq(1..Len(rows))
          /\ [i \in DOMAIN pick |-> rows[pick[i]]] \in Seq(Record)
          /\ DOMAIN pick = 1..Len(pick)
      BY AnswerType, <1>t DEF TypeOK
    <3>2. batch'[q] = [i \in DOMAIN pick |-> rows[pick[i]]]
      BY <1>t, <2>1, <2>3
    <3>3. Len(batch'[q]) = Len(pick)
      BY <3>1, <3>2
    <3>4. DOMAIN rows = 1..Len(rows)
      BY DEF TypeOK
    <3>5. \A i \in next[q]..Len(batch'[q]) : batch'[q][i] \in RowSet
      BY <1>t, <3>1, <3>2, <3>3, <3>4 DEF RowSet
    <3>. QED
      BY <2>2, <3>5 DEF Carried
  <2>4. CASE q # r
    BY <1>t, <1>1, <2>1, <2>2, <2>4
  <2>. QED
    BY <2>3, <2>4
<1>4. ASSUME NEW r \in Runners, UpsertNext(r) \/ UpsertAnswerLost(r)
      PROVE  Carried(q)' \subseteq Carried(q)
  <2>1. batch' = batch
    BY <1>4, UpsertEffect DEF UpsertNext, UpsertAnswerLost
  <2>2. next' = next \/ next' = [next EXCEPT ![r] = next[r] + 1]
    BY <1>4 DEF UpsertNext, UpsertAnswerLost
  <2>3. pc' = pc \/ pc' = [pc EXCEPT ![r] = "failed"]
    BY <1>4 DEF UpsertNext, UpsertAnswerLost, Goto
  <2>4. next'[q] = next[q] \/ next'[q] = next[q] + 1
    BY <1>t, <2>2
  <2>. QED
    BY <1>t, <1>1, <2>1, <2>3, <2>4
<1>5. ASSUME NEW r \in Runners, Validate(r) \/ ConnectTarget(r)
      PROVE  Carried(q)' \subseteq Carried(q)
  <2>1. batch' = batch /\ next' = next /\ pc[r] \in {"validate", "connect"}
    BY <1>5 DEF Validate, ConnectTarget
  <2>2. \A s \in Runners : s # r => pc'[s] = pc[s]
    BY <1>t, <1>5 DEF Validate, ConnectTarget, Goto
  <2>. QED
    BY <1>1, <2>1, <2>2
<1>6. ASSUME NEW r \in Runners, CountRows(r) \/ Finish(r) \/ CallFails(r) \/ Crash(r)
      PROVE  Carried(q)' \subseteq Carried(q)
  <2>1. batch' = batch /\ next' = next
    BY <1>6 DEF CountRows, Finish, CallFails, Crash
  <2>2. \E l \in {"query", "done", "failed", "crashed"} : pc' = [pc EXCEPT ![r] = l]
    BY <1>6 DEF CountRows, Finish, CallFails, Crash, Goto
  <2>3. pc'[q] = pc[q] \/ pc'[q] \in {"query", "done", "failed", "crashed"}
    BY <1>t, <2>2
  <2>. QED
    BY <1>1, <2>1, <2>3
<1>7. ASSUME OtherClients \/ UNCHANGED vars PROVE Carried(q)' \subseteq Carried(q)
  <2>1. UNCHANGED <<pc, batch, next>>
    BY <1>7 DEF OtherClients, SourceInsert, SourceUpdate, SourceFlush, runnerVars, vars
  <2>. QED
    BY <1>1, <2>1
<1>. QED
  BY <1>2, <1>3, <1>4, <1>5, <1>6, <1>7 DEF Next, RunnerStep, Progress

\* A row of the table stays, or becomes a record that a process carries
\* (WritePGVectorMigrationRecords).
LEMMA WritesCarried ==
    ASSUME TypeOK, [Next]_vars, NEW k \in Ids
    PROVE  \/ table'[k] = table[k]
           \/ \E r \in Runners : \E rec \in Carried(r) : rec = [id |-> k, vec |-> table'[k]]
<1>1. ASSUME NEW r \in Runners, ToWrite(r), ApplyUpsert(r), k = batch[r][next[r]].id
      PROVE  \E rec \in Carried(r) : rec = [id |-> k, vec |-> table'[k]]
  <2>1. batch[r][next[r]] \in Carried(r)
    BY <1>1, UpsertEffect DEF Carried, TypeOK, ToWrite
  <2>2. table'[k] = batch[r][next[r]].vec
    BY <1>1, UpsertEffect DEF TypeOK
  <2>. QED
    BY <1>1, <2>1, <2>2, UpsertEffect
<1>2. ASSUME NEW r \in Runners, ToWrite(r), ApplyUpsert(r), k # batch[r][next[r]].id
      PROVE  table'[k] = table[k]
  <2>1. table' = [table EXCEPT ![batch[r][next[r]].id] = batch[r][next[r]].vec]
    BY <1>2, UpsertEffect
  <2>2. table \in [Ids -> Vectors \union {NoVector}]
    BY DEF TypeOK
  <2>. QED
    BY <1>2, <2>1, <2>2
<1>3. ASSUME NEW r \in Runners, UpsertNext(r) \/ UpsertAnswerLost(r)
      PROVE  ToWrite(r) /\ ApplyUpsert(r)
  BY <1>3 DEF UpsertNext, UpsertAnswerLost
<1>4. ASSUME NEW r \in Runners,
             \/ Start(r) \/ CountRows(r) \/ QueryRows(r) \/ Validate(r) \/ ConnectTarget(r)
             \/ Finish(r) \/ CallFails(r) \/ Crash(r)
      PROVE  table' = table
  BY <1>4 DEF Start, CountRows, QueryRows, Validate, ConnectTarget, Finish, CallFails, Crash,
              targetVars
<1>5. ASSUME OtherClients \/ UNCHANGED vars PROVE table' = table
  BY <1>5 DEF OtherClients, SourceInsert, SourceUpdate, SourceFlush, targetVars, vars
<1>. QED
  BY <1>1, <1>2, <1>3, <1>4, <1>5 DEF Next, RunnerStep, Progress

\* One step (Migrate).
LEMMA RepairedStep ==
    TypeOK /\ [Next]_vars => [rows' = rows => \A k \in Ids : Repaired(k) => Repaired(k)']_vars
<1>. SUFFICES ASSUME TypeOK, [Next]_vars, rows' = rows, NEW k \in Ids, Repaired(k)
              PROVE  Repaired(k)'
  OBVIOUS
<1>1. RowSet' = RowSet
  BY DEF RowSet
<1>2. ASSUME NEW r \in Runners, NEW rec \in Carried(r)', rec.id = k PROVE rec \in RowSet
  BY <1>2, CarriedShrinks DEF Repaired
<1>3. [id |-> k, vec |-> table'[k]] \in RowSet
  <2>1. CASE table'[k] = table[k]
    BY <2>1 DEF Repaired
  <2>2. ASSUME NEW r \in Runners, NEW rec \in Carried(r), rec = [id |-> k, vec |-> table'[k]]
        PROVE  [id |-> k, vec |-> table'[k]] \in RowSet
    BY <2>2 DEF Repaired
  <2>. QED
    BY <2>1, <2>2, WritesCarried
<1>. QED
  BY <1>1, <1>2, <1>3 DEF Repaired

\* A row that holds what the source has, and that no process carries an older
\* record for, stays so until the source changes, whatever runs start, fail,
\* are killed or repeat a write (Migrate).
THEOREM RepairsStay == Spec => RepairsStick
BY RepairedStep, TypeCorrect, PTL DEF Spec, RepairsStick

-----------------------------------------------------------------------------
(* The migration implements its contract.  *)

RefinementInv == Fresh /\ Checked /\ Finished

\* The part of the invariant the refinement needs is inductive by itself.
LEMMA RefinementInvStep == TypeOK /\ RefinementInv /\ [Next]_vars => RefinementInv'
<1> SUFFICES ASSUME TypeOK, RefinementInv, [Next]_vars PROVE RefinementInv'
  OBVIOUS
<1> USE DEF RefinementInv, Fresh, Checked, Finished, Goto,
            sourceVars, targetVars, runnerVars, auxVars
<1>0. /\ pc \in [Runners -> Active \union Ended]
      /\ batch \in [Runners -> Seq(Record)]
      /\ next \in [Runners -> Nat \ {0}]
  BY DEF TypeOK
<1>1. ASSUME NEW r \in Runners, Start(r) PROVE RefinementInv'
  BY <1>0, <1>1 DEF Start
<1>2. ASSUME NEW r \in Runners, CountRows(r) PROVE RefinementInv'
  BY <1>0, <1>2 DEF CountRows
<1>3. ASSUME NEW r \in Runners, QueryRows(r) PROVE RefinementInv'
  BY <1>0, <1>3 DEF QueryRows
<1>4. ASSUME NEW r \in Runners, Validate(r) PROVE RefinementInv'
  BY <1>0, <1>4 DEF Validate
<1>5. ASSUME NEW r \in Runners, ConnectTarget(r) PROVE RefinementInv'
  BY <1>0, <1>5 DEF ConnectTarget
<1>6. ASSUME NEW r \in Runners, UpsertNext(r) \/ UpsertAnswerLost(r) PROVE RefinementInv'
  <2>1. ToWrite(r) /\ ApplyUpsert(r)
    BY <1>6 DEF UpsertNext, UpsertAnswerLost
  <2>2. pc[r] = "write" /\ UNCHANGED batch
    BY <2>1, UpsertEffect
  <2>3. QED
    BY <1>0, <1>6, <2>2 DEF UpsertNext, UpsertAnswerLost
<1>7. ASSUME NEW r \in Runners, Finish(r) PROVE RefinementInv'
  BY <1>0, <1>7 DEF Finish
<1>8. ASSUME NEW r \in Runners, CallFails(r) PROVE RefinementInv'
  BY <1>0, <1>8 DEF CallFails
<1>9. ASSUME NEW r \in Runners, Crash(r) PROVE RefinementInv'
  BY <1>0, <1>9 DEF Crash
<1>10. CASE OtherClients
  BY <1>0, <1>10 DEF OtherClients, SourceInsert, SourceUpdate, SourceFlush, RowsBecome
<1>11. CASE UNCHANGED vars
  BY <1>11 DEF vars
<1>12. QED
  BY <1>1, <1>2, <1>3, <1>4, <1>5, <1>6, <1>7, <1>8, <1>9, <1>10, <1>11
     DEF Next, RunnerStep, Progress

\* Where only pc of one runner moves, only its phase can.
LEMMA PhaseMoves ==
  ASSUME TypeOK, NEW r \in Runners, NEW label, pc' = [pc EXCEPT ![r] = label]
  PROVE  phaseBar' = [phaseBar EXCEPT ![r] =
            CASE label \in {"idle", "count", "query"} -> "idle"
              [] label = "validate" -> "checking"
              [] label \in {"connect", "write"} -> "copying"
              [] label = "done" -> "succeeded"
              [] OTHER -> "stopped"]
<1>1. \A q \in Runners : pc'[q] = IF q = r THEN label ELSE pc[q]
  BY DEF TypeOK
<1>2. QED
  BY <1>1 DEF phaseBar, ContractPhase

\* A run that fails or is killed is a stopped run of the contract.
LEMMA PhaseStops ==
  ASSUME TypeOK, NEW r \in Runners, NEW label \in {"failed", "rejected", "crashed"},
         pc' = [pc EXCEPT ![r] = label]
  PROVE  phaseBar' = [phaseBar EXCEPT ![r] = "stopped"]
<1>1. \A q \in Runners : pc'[q] = IF q = r THEN label ELSE pc[q]
  BY DEF TypeOK
<1>2. QED
  BY <1>1 DEF phaseBar, ContractPhase

\* The initial states are initial states of the contract.
LEMMA ContractInitially == TypeOK /\ Init => Contract!ContractInit
<1> SUFFICES ASSUME TypeOK, Init PROVE Contract!ContractInit
  OBVIOUS
<1>1. RowSet \in SUBSET Record
  BY DEF Init, RowSet
<1>2. phaseBar = [r \in Runners |-> "idle"]
  BY DEF Init, phaseBar, ContractPhase
<1>3. todoBar = [r \in Runners |-> {}]
  BY DEF Init, todoBar
<1>4. table \in [Ids -> Vectors \union {NoVector}]
  BY DEF TypeOK
<1>5. QED
  BY <1>1, <1>2, <1>3, <1>4 DEF Contract!ContractInit, Contract!Record, Record

\* Every step of the migration is a step of the contract or changes nothing
\* the contract sees.
LEMMA ContractStep ==
  TypeOK /\ TypeOK' /\ RefinementInv /\ [Next]_vars => [Contract!ContractNext]_(Contract!cvars)
<1> SUFFICES ASSUME TypeOK, TypeOK', RefinementInv, [Next]_vars
             PROVE  Contract!ContractNext \/ UNCHANGED Contract!cvars
  OBVIOUS
<1> USE DEF Goto, sourceVars, targetVars, runnerVars, auxVars
<1>0. /\ pc \in [Runners -> Active \union Ended]
      /\ batch \in [Runners -> Seq(Record)]
      /\ next \in [Runners -> Nat \ {0}]
  BY DEF TypeOK
<1>1. ASSUME NEW r \in Runners, Start(r) PROVE Contract!Begin(r)
  <2>1. phaseBar' = [phaseBar EXCEPT ![r] = "idle"]
    BY <1>1, PhaseMoves DEF Start
  <2>2. phaseBar[r] \in {"idle", "succeeded", "stopped"}
    BY <1>0, <1>1 DEF Start, phaseBar, ContractPhase, Ended
  <2>3. todoBar' = [todoBar EXCEPT ![r] = {}]
    <3>1. batch' = [batch EXCEPT ![r] = << >>] /\ next' = [next EXCEPT ![r] = 1]
      BY <1>1 DEF Start
    <3>2. \A q \in Runners :
              /\ batch'[q] = IF q = r THEN << >> ELSE batch[q]
              /\ next'[q] = IF q = r THEN 1 ELSE next[q]
      BY <1>0, <3>1
    <3>3. \A q \in Runners : todoBar'[q] = IF q = r THEN {} ELSE todoBar[q]
      BY <3>2 DEF todoBar
    <3>4. QED
      BY <3>3 DEF todoBar
  <2>4. UNCHANGED <<RowSet, table>>
    BY <1>1 DEF Start, RowSet
  <2>5. QED
    BY <2>1, <2>2, <2>3, <2>4 DEF Contract!Begin
<1>2. ASSUME NEW r \in Runners, CountRows(r) PROVE UNCHANGED Contract!cvars
  <2>1. UNCHANGED <<RowSet, table, todoBar>>
    BY <1>2 DEF CountRows, RowSet, todoBar
  <2>2. phaseBar' = [phaseBar EXCEPT ![r] = "idle"]
    BY <1>2, PhaseMoves DEF CountRows
  <2>3. phaseBar' = phaseBar
    BY <1>2, <2>2 DEF CountRows, phaseBar, ContractPhase
  <2>4. QED
    BY <2>1, <2>3 DEF Contract!cvars
<1>3. ASSUME NEW r \in Runners, QueryRows(r) PROVE Contract!TakeSnapshot(r)
  <2>1. PICK pick \in Answers(limit[r]) :
            batch' = [batch EXCEPT ![r] = [i \in DOMAIN pick |-> rows[pick[i]]]]
    BY <1>3 DEF QueryRows
  <2>2. limit[r] \in Nat
    BY DEF TypeOK
  <2>3. \A i \in DOMAIN pick : rows[pick[i]] \in RowSet
    BY <2>2, AnswerType
  <2>4. /\ phaseBar' = [phaseBar EXCEPT ![r] = "checking"]
        /\ phaseBar[r] = "idle"
    BY <1>3, PhaseMoves DEF QueryRows, phaseBar, ContractPhase
  <2>5. todoBar' = [todoBar EXCEPT ![r] = {rows[pick[i]] : i \in DOMAIN pick}]
    <3>1. \A q \in Runners :
              batch'[q] = IF q = r THEN [i \in DOMAIN pick |-> rows[pick[i]]] ELSE batch[q]
      BY <1>0, <2>1
    <3>2. next' = next /\ next[r] = 1
      BY <1>3 DEF QueryRows, RefinementInv, Fresh
    <3>3. batch'[r] \in Seq(Record)
      BY DEF TypeOK
    <3>4. todoBar'[r] = {rows[pick[i]] : i \in DOMAIN pick}
      <4> DEFINE b == batch'[r]
      <4>1. DOMAIN b = DOMAIN pick /\ \A i \in DOMAIN pick : b[i] = rows[pick[i]]
        BY <3>1
      <4>2. DOMAIN b = 1..Len(b)
        BY <3>3
      <4>3. todoBar'[r] = {b[i] : i \in 1..Len(b)}
        BY <3>2 DEF todoBar
      <4> HIDE DEF b
      <4>4. {b[i] : i \in DOMAIN pick} = {rows[pick[i]] : i \in DOMAIN pick}
        BY <4>1
      <4>5. QED
        BY <4>1, <4>2, <4>3, <4>4
    <3>5. \A q \in Runners : q # r => todoBar'[q] = todoBar[q]
      <4>1. \A q \in Runners : q # r => batch'[q] = batch[q] /\ next'[q] = next[q]
        BY <3>1, <3>2
      <4>2. QED
        BY <4>1 DEF todoBar
    <3>6. QED
      BY <3>4, <3>5 DEF todoBar
  <2>6. UNCHANGED <<RowSet, table>>
    BY <1>3 DEF QueryRows, RowSet
  <2>7. {rows[pick[i]] : i \in DOMAIN pick} \in SUBSET RowSet
    BY <2>3
  <2>8. QED
    BY <2>4, <2>5, <2>6, <2>7 DEF Contract!TakeSnapshot
<1>4. ASSUME NEW r \in Runners, Validate(r)
      PROVE  Contract!AcceptSnapshot(r) \/ Contract!Stop(r)
  <2>1. UNCHANGED <<RowSet, table, todoBar>>
    BY <1>4 DEF Validate, RowSet, todoBar
  <2>2. phaseBar[r] = "checking"
    BY <1>4 DEF Validate, phaseBar, ContractPhase
  <2>3. CASE \A i \in DOMAIN batch[r] : ValidRecord(batch[r][i])
    <3>1. phaseBar' = [phaseBar EXCEPT ![r] = "copying"]
      BY <1>4, <2>3, PhaseMoves DEF Validate
    <3>2. todoBar[r] \subseteq {rec \in Record : ValidRecord(rec)}
      <4>1. DOMAIN batch[r] = 1..Len(batch[r]) /\ next[r] \in Nat \ {0}
            /\ \A i \in 1..Len(batch[r]) : batch[r][i] \in Record
        BY <1>0
      <4>2. QED
        BY <2>3, <4>1 DEF todoBar
    <3>3. QED
      BY <2>1, <2>2, <3>1, <3>2 DEF Contract!AcceptSnapshot
  <2>4. CASE ~ \A i \in DOMAIN batch[r] : ValidRecord(batch[r][i])
    <3>1. phaseBar' = [phaseBar EXCEPT ![r] = "stopped"]
      BY <1>4, <2>4, PhaseStops DEF Validate
    <3>2. QED
      BY <2>1, <2>2, <3>1 DEF Contract!Stop
  <2>5. QED
    BY <2>3, <2>4
<1>5. ASSUME NEW r \in Runners, ConnectTarget(r) PROVE UNCHANGED Contract!cvars
  <2>1. UNCHANGED <<RowSet, table, todoBar>>
    BY <1>5 DEF ConnectTarget, RowSet, todoBar
  <2>2. phaseBar' = [phaseBar EXCEPT ![r] = "copying"]
    BY <1>5, PhaseMoves DEF ConnectTarget
  <2>3. phaseBar' = phaseBar
    BY <1>5, <2>2 DEF ConnectTarget, phaseBar, ContractPhase
  <2>4. QED
    BY <2>1, <2>3 DEF Contract!cvars
<1>6. ASSUME NEW r \in Runners, ToWrite(r), ApplyUpsert(r)
      PROVE  /\ phaseBar[r] = "copying"
             /\ batch[r][next[r]] \in todoBar[r]
             /\ table' = [table EXCEPT ![batch[r][next[r]].id] = batch[r][next[r]].vec]
             /\ UNCHANGED RowSet /\ UNCHANGED batch
  <2>1. next[r] \in next[r]..Len(batch[r])
    BY <1>0, <1>6 DEF ToWrite
  <2>2. /\ pc[r] = "write" /\ UNCHANGED <<rows, batch>>
        /\ table' = [table EXCEPT ![batch[r][next[r]].id] = batch[r][next[r]].vec]
    BY <1>6, UpsertEffect
  <2>3. phaseBar[r] = "copying"
    BY <2>2 DEF phaseBar, ContractPhase
  <2>4. batch[r][next[r]] \in todoBar[r]
    BY <2>1 DEF todoBar
  <2>5. QED
    BY <2>2, <2>3, <2>4 DEF RowSet
<1>7. ASSUME NEW r \in Runners, UpsertNext(r) PROVE Contract!CopyOne(r)
  <2> DEFINE rec == batch[r][next[r]]
  <2>1. ToWrite(r) /\ ApplyUpsert(r)
    BY <1>7 DEF UpsertNext
  <2>2. UNCHANGED <<batch, pc>> /\ next' = [next EXCEPT ![r] = next[r] + 1]
    BY <1>6, <1>7, <2>1 DEF UpsertNext
  <2>3. phaseBar' = phaseBar
    BY <2>2 DEF phaseBar, ContractPhase
  <2>4. \A q \in Runners : q # r => todoBar'[q] = todoBar[q]
    BY <1>0, <2>2 DEF todoBar
  <2>5. todoBar'[r] = {batch[r][i] : i \in (next[r] + 1)..Len(batch[r])}
    BY <1>0, <2>2 DEF todoBar
  <2>6. todoBar[r] = todoBar'[r] \union {rec}
    <3>1. next[r]..Len(batch[r]) = {next[r]} \union ((next[r] + 1)..Len(batch[r]))
      BY <1>0, <2>1 DEF ToWrite
    <3>2. QED
      BY <2>5, <3>1 DEF todoBar
  <2>7. todoBar'[r] = todoBar[r] \/ todoBar'[r] = todoBar[r] \ {rec}
    BY <2>6
  <2>8. todoBar' \in {todoBar, [todoBar EXCEPT ![r] = @ \ {rec}]}
    BY <2>4, <2>7 DEF todoBar
  <2>9. QED
    BY <1>6, <2>1, <2>3, <2>8 DEF Contract!CopyOne
<1>8. ASSUME NEW r \in Runners, UpsertAnswerLost(r) PROVE Contract!CopyOne(r)
  <2>1. ToWrite(r) /\ ApplyUpsert(r)
    BY <1>8 DEF UpsertAnswerLost
  <2>2. UNCHANGED <<batch, next>> /\ pc' = [pc EXCEPT ![r] = "failed"]
    BY <1>6, <1>8, <2>1 DEF UpsertAnswerLost
  <2>3. phaseBar' = [phaseBar EXCEPT ![r] = "stopped"]
    BY <2>2, PhaseStops
  <2>4. todoBar' = todoBar
    BY <2>2 DEF todoBar
  <2>5. QED
    BY <1>6, <2>1, <2>3, <2>4 DEF Contract!CopyOne
<1>9. ASSUME NEW r \in Runners, Finish(r) PROVE Contract!ReportSuccess(r)
  <2>1. UNCHANGED <<RowSet, table, todoBar>>
    BY <1>9 DEF Finish, RowSet, todoBar
  <2>2. phaseBar' = [phaseBar EXCEPT ![r] = "succeeded"] /\ phaseBar[r] = "copying"
    BY <1>9, PhaseMoves DEF Finish, phaseBar, ContractPhase
  <2>3. todoBar[r] = {}
    <3>1. next[r]..Len(batch[r]) = {}
      BY <1>0, <1>9 DEF Finish
    <3>2. QED
      BY <3>1 DEF todoBar
  <2>4. QED
    BY <2>1, <2>2, <2>3 DEF Contract!ReportSuccess
<1>10. ASSUME NEW r \in Runners, CallFails(r) \/ Crash(r) PROVE Contract!Stop(r)
  <2>1. UNCHANGED <<RowSet, table, todoBar>>
    BY <1>10 DEF CallFails, Crash, RowSet, todoBar
  <2>2. phaseBar' = [phaseBar EXCEPT ![r] = "stopped"]
    BY <1>10, PhaseStops DEF CallFails, Crash
  <2>3. phaseBar[r] \in {"idle", "checking", "copying"}
    BY <1>10 DEF CallFails, Crash, ToWrite, Active, phaseBar, ContractPhase
  <2>4. QED
    BY <2>1, <2>2, <2>3 DEF Contract!Stop
<1>11. CASE OtherClients
  <2>1. UNCHANGED <<table, phaseBar, todoBar>>
    BY <1>11 DEF OtherClients, SourceInsert, SourceUpdate, SourceFlush,
                 phaseBar, ContractPhase, todoBar
  <2>2. RowSet' \in SUBSET Record
    <3>1. rows' \in Seq(Record)
      BY DEF TypeOK
    <3>2. QED
      BY <3>1, ElementsOfSeq DEF RowSet
  <2>3. QED
    BY <2>1, <2>2
       DEF Contract!ContractNext, Contract!SourceMoves, Contract!Record, Record
<1>12. CASE UNCHANGED vars
  BY <1>12 DEF vars, Contract!cvars, RowSet, phaseBar, ContractPhase, todoBar
<1>13. QED
  BY <1>1, <1>2, <1>3, <1>4, <1>5, <1>7, <1>8, <1>9, <1>10, <1>11, <1>12
     DEF Next, RunnerStep, Progress, Contract!ContractNext

\* Refinement: for any number of runners and records, and through failures,
\* crashes and reruns, a migration copies one snapshot of the collection and
\* reports success only when nothing of it is left to copy.
THEOREM MigrationImplementsContract == Spec => ImplementsContract
<1>1. Init => RefinementInv
  BY DEF Init, RefinementInv, Fresh, Checked, Finished
<1>2. Init => TypeOK /\ Contract!ContractInit
  BY TypeInit, ContractInitially
<1>3. QED
  BY <1>1, <1>2, TypeStep, RefinementInvStep, ContractStep, PTL
     DEF Spec, ImplementsContract, Contract!ContractSpec
=============================================================================
