------------------------- MODULE MigrationContract -------------------------
(***************************************************************************)
(* What one Milvus-to-pgvector migration promises, without the calls that  *)
(* carry it out.  A run takes one snapshot of source records, all of one   *)
(* moment, and goes on only when each of them is acceptable.  It copies    *)
(* them into the target one at a time in no fixed order, and may report    *)
(* success only when none of them is left to copy.  It may stop at any     *)
(* point, and it never touches a target row whose id is not in its         *)
(* snapshot.                                                               *)
(***************************************************************************)
CONSTANTS
    Runners,        \* processes that run a migration
    Ids,            \* every id a record or a target row may have
    Vectors,
    NoVector,       \* the value of an id that has no row in the target
    Acceptable      \* the records a migration is allowed to carry

VARIABLES
    source,         \* set of records [id, vec] in the source
    target,         \* target table, id -> vector or NoVector
    phase,          \* per runner: "idle", "checking", "copying", "succeeded", "stopped"
    todo            \* per runner: the records of its snapshot left to copy

cvars == <<source, target, phase, todo>>

Record == [id: Ids, vec: Vectors]

ContractInit ==
    /\ source \in SUBSET Record
    /\ target \in [Ids -> Vectors \union {NoVector}]
    /\ phase = [r \in Runners |-> "idle"]
    /\ todo = [r \in Runners |-> {}]

\* A fresh invocation forgets whatever an earlier one left to do.
Begin(r) ==
    /\ phase[r] \in {"idle", "succeeded", "stopped"}
    /\ phase' = [phase EXCEPT ![r] = "idle"]
    /\ todo' = [todo EXCEPT ![r] = {}]
    /\ UNCHANGED <<source, target>>

TakeSnapshot(r) ==
    /\ phase[r] = "idle"
    /\ \E S \in SUBSET source : todo' = [todo EXCEPT ![r] = S]
    /\ phase' = [phase EXCEPT ![r] = "checking"]
    /\ UNCHANGED <<source, target>>

AcceptSnapshot(r) ==
    /\ phase[r] = "checking"
    /\ todo[r] \subseteq Acceptable
    /\ phase' = [phase EXCEPT ![r] = "copying"]
    /\ UNCHANGED <<source, target, todo>>

\* The record may stay to be copied again: a snapshot can hold it twice, and
\* a copy whose acknowledgement is lost is not known to have happened.
CopyOne(r) ==
    /\ phase[r] = "copying"
    /\ \E rec \in todo[r] :
        /\ target' = [target EXCEPT ![rec.id] = rec.vec]
        /\ todo' \in {todo, [todo EXCEPT ![r] = @ \ {rec}]}
        /\ phase' \in {phase, [phase EXCEPT ![r] = "stopped"]}
    /\ UNCHANGED source

ReportSuccess(r) ==
    /\ phase[r] = "copying"
    /\ todo[r] = {}
    /\ phase' = [phase EXCEPT ![r] = "succeeded"]
    /\ UNCHANGED <<source, target, todo>>

Stop(r) ==
    /\ phase[r] \in {"idle", "checking", "copying"}
    /\ phase' = [phase EXCEPT ![r] = "stopped"]
    /\ UNCHANGED <<source, target, todo>>

SourceMoves ==
    /\ source' \in SUBSET Record
    /\ UNCHANGED <<target, phase, todo>>

ContractNext ==
    \/ \E r \in Runners :
        \/ Begin(r) \/ TakeSnapshot(r) \/ AcceptSnapshot(r)
        \/ CopyOne(r) \/ ReportSuccess(r) \/ Stop(r)
    \/ SourceMoves

ContractSpec == ContractInit /\ [][ContractNext]_cvars
=============================================================================
