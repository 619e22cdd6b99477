------------------------- MODULE ConnectorSessions -------------------------
(***************************************************************************)
(* Who holds which database connection, and for how long: the connectors   *)
(* of internal/connectors, the clients of internal/migration, the vdbg     *)
(* commands that use them in a fixed order, and library callers that use a *)
(* connector in any order.                                                 *)
(*                                                                         *)
(* PostgreSQL accepts so many connections and a lost one stays lost; a     *)
(* Milvus client repairs its channel by itself.  What the calls read and   *)
(* write is the subject of VectorMigration, FixtureSeeding and             *)
(* MigrateAndVerify.                                                       *)
(***************************************************************************)
EXTENDS Integers, Sequences, FiniteSets

CONSTANTS
    Processes,   \* processes that run vdbg commands
    Callers,     \* library users of the two database connectors
    Inputs,      \* what a command may be called with
    Limits,      \* how many connections PostgreSQL may accept
    MaxOrphans,  \* bound: Milvus clients a caller replaces
    MaxFaults    \* bound: failed calls and kills

Kinds == {"search-milvus", "search-pgvector", "build-milvus-artifact",
          "build-pgvector-artifact", "seed-milvus", "seed-pgvector", "migrate",
          "migrate-and-verify", "offline-verify"}

Postgres == {"pgvector", "writer", "pgvectorSeed"}
Milvus == {"milvus", "reader", "milvusSeed"}
Clients == Postgres \union Milvus \union {"memory"}
Users == Processes \union Callers

\* Flags, what the fixture holds, and whether names are simple identifiers.
Input == [given: BOOLEAN, topK: Int, boundaryK: Int, expandK: Int, query: Int,
          queries: Nat, named: BOOLEAN, wellFormed: BOOLEAN]

ASSUME SessionAssumption ==
    /\ Processes \intersect Callers = {}
    /\ IsFiniteSet(Users)
    /\ Inputs \subseteq Input
    /\ Limits \subseteq Nat
    /\ {MaxOrphans, MaxFaults} \subseteq Nat

VARIABLES
    client,    \* per user and client: "none", "open", or "dead", a connection
               \* that was closed or lost and is still there
    orphans,   \* per user: open Milvus clients nothing refers to any more
    kind,      \* per process: the command it runs
    input,     \* per process: what it was called with
    section,   \* per process: the part of the command it is in
    at,        \* per process: its place in that part
    status,    \* per process: "idle", "running", "failing" or how it ended
    limit,     \* connections PostgreSQL accepts
    faults,    \* counts failed calls and kills
    faulted,   \* auxiliary, per process: a fault hit this run
    answer,    \* per caller and client: what the last Count or Search gave
    closed,    \* auxiliary, per caller and client: Close released a
               \* connection, and no Connect has succeeded since
    replaced   \* auxiliary, per caller: how often it connected a Milvus client
               \* that was connected

processVars == <<kind, input, section, at, status, faulted>>
callerVars == <<answer, closed, replaced>>
sessionVars == <<client, orphans, limit, faults, processVars, callerVars>>

-----------------------------------------------------------------------------
(* The calls a client takes.  *)

\* PostgreSQL's side of it.
OpenConnections == {h \in Users \X Postgres : client[h[1]][h[2]] = "open"}
Room == Cardinality(OpenConnections) < limit

\* A pgx connection is opened by the first call that needs one and kept,
\* whatever became of it; a Milvus client is there after Connect only.
Accepts(u, x, call) ==
    \/ x = "memory"
    \/ x \in Milvus /\ (call = "connect" \/ client[u][x] = "open")
    \/ x \in Postgres /\ (client[u][x] = "open" \/ (client[u][x] = "none" /\ Room))

\* Connect assigns the new Milvus client and forgets the one before.
CallSucceeds(u, x, call) ==
    /\ Accepts(u, x, call)
    /\ client' = IF x = "memory" THEN client ELSE [client EXCEPT ![u][x] = "open"]
    /\ orphans' = IF x \in Milvus /\ call = "connect" /\ client[u][x] = "open"
                  THEN [orphans EXCEPT ![u] = @ + 1]
                  ELSE orphans

\* What an error may leave: a connection that was opened on the way, one that
\* did not survive it, or what there was.
Leftovers(u, x) ==
    {client[u][x]} \union
        (IF x \in Postgres /\ Accepts(u, x, "connect") THEN {"open", "dead"} ELSE {})

CallErrs(u, x) ==
    \E left \in Leftovers(u, x) :
        client' = [client EXCEPT ![u][x] = left] /\ UNCHANGED orphans

\* Faulty variant: the closed connection is forgotten too.
AfterClose_Forgets(u, x) == "none"

\* Faulty variant: a Milvus client is kept after it was closed.
AfterClose_KeepsClient(u, x) == IF client[u][x] # "none" THEN "dead" ELSE "none"

\* Close forgets a Milvus client and keeps a closed PostgreSQL connection.
AfterClose(u, x) ==
    IF x \in Postgres /\ client[u][x] # "none" THEN "dead" ELSE "none"

\* Faulty variant: forgets the Milvus client without closing it.
CloseClient_Forgets(u, x) ==
    /\ client' = [client EXCEPT ![u][x] = AfterClose(u, x)]
    /\ orphans' = IF x \in Milvus /\ client[u][x] = "open"
                  THEN [orphans EXCEPT ![u] = @ + 1]
                  ELSE orphans

CloseClient(u, x) ==
    /\ client' = [client EXCEPT ![u][x] = AfterClose(u, x)]
    /\ UNCHANGED orphans

-----------------------------------------------------------------------------
(* The commands.  A section is the life of one client: its steps, and how many
   of them come before Close is deferred.  *)

Section(on, steps, before) == [on |-> on, steps |-> steps, before |-> before]
Checks == {"flags", "fixture", "names", "dataset"}
Calls == {"connect", "count", "search", "query", "write"}

SearchMilvus ==
    << Section("milvus", <<"flags", "fixture", "names", "connect", "count", "search">>, 3) >>

\* Faulty variant: connects before the flags and the fixture are looked at.
SearchPGVector_ConnectsFirst ==
    << Section("pgvector", <<"connect", "flags", "fixture", "names", "count", "search">>, 0) >>

SearchPGVector ==
    << Section("pgvector", <<"flags", "fixture", "names", "connect", "count", "search">>, 3) >>

BuildMilvusArtifact ==
    << Section("milvus", <<"flags", "fixture", "names", "connect", "search", "output">>, 3) >>

\* Faulty variant: Close is deferred once Connect succeeded.
BuildPGVectorArtifact_DefersLate ==
    << Section("pgvector", <<"flags", "fixture", "names", "connect", "search", "output">>, 4) >>

BuildPGVectorArtifact ==
    << Section("pgvector", <<"flags", "fixture", "names", "connect", "search", "output">>, 3) >>

SeedMilvus ==
    << Section("milvusSeed", <<"flags", "fixture", "connect", "names", "dataset", "write">>, 3) >>

SeedPGVector ==
    << Section("pgvectorSeed", <<"flags", "fixture", "names", "dataset", "write">>, 3) >>

\* Nothing closes the writer.
Migrate ==
    << Section("reader", <<"flags", "names", "connect", "count", "query">>, 3),
       Section("writer", <<"connect", "write">>, 3) >>

MigrateAndVerify ==
    << Migrate[1], Migrate[2], BuildMilvusArtifact[1], BuildPGVectorArtifact[1] >>

OfflineVerify == << Section("memory", <<"flags", "fixture", "search", "output">>, 5) >>

Program(k) ==
    CASE k = "search-milvus" -> SearchMilvus
      [] k = "search-pgvector" -> SearchPGVector
      [] k = "build-milvus-artifact" -> BuildMilvusArtifact
      [] k = "build-pgvector-artifact" -> BuildPGVectorArtifact
      [] k = "seed-milvus" -> SeedMilvus
      [] k = "seed-pgvector" -> SeedPGVector
      [] k = "migrate" -> Migrate
      [] k = "migrate-and-verify" -> MigrateAndVerify
      [] k = "offline-verify" -> OfflineVerify

Searches == {"search-milvus", "search-pgvector"}
Builds == {"build-milvus-artifact", "build-pgvector-artifact", "migrate-and-verify"}

\* Faulty variant: the search limit is not compared with top K.
ValidSearchFlags_AnyLimit(i) == i.topK > 0 /\ i.expandK > 0 /\ i.query >= 0

ValidSearchFlags(i) == i.topK > 0 /\ i.expandK >= i.topK /\ i.query >= 0

\* The windows of the builder are in ArtifactComparison.
ValidBuildFlags(i) ==
    i.topK > 0 /\ i.boundaryK > 0 /\ i.expandK >= i.topK + i.boundaryK

ValidFlags(k, i) ==
    /\ i.given
    /\ k \in Searches => ValidSearchFlags(i)
    /\ k \in Builds => ValidBuildFlags(i)

\* What the fixture must hold before anything is connected.
ValidFixture(k, i) ==
    /\ k \in Searches => i.query < i.queries
    /\ k \in Builds => i.queries > 0
    /\ k = "offline-verify" =>
        i.queries > 0 /\ i.topK > 0 /\ i.expandK >= i.topK

\* The connectors look at a request again.
ValidRequest(i) ==
    i.topK > 0 /\ i.expandK > 0 /\ i.expandK >= i.topK /\ i.wellFormed

Passes(k, i, step) ==
    /\ step = "flags" => ValidFlags(k, i)
    /\ step = "fixture" => ValidFixture(k, i)
    /\ step = "names" => i.named
    /\ step = "dataset" => i.wellFormed
    /\ step = "search" => ValidRequest(i)

-----------------------------------------------------------------------------
SessionInit ==
    /\ client = [u \in Users |-> [x \in Clients |-> "none"]]
    /\ orphans = [u \in Users |-> 0]
    /\ kind \in [Processes -> {"migrate"}]
    /\ input \in [Processes -> Inputs]
    /\ section = [p \in Processes |-> 1]
    /\ at = [p \in Processes |-> 1]
    /\ status = [p \in Processes |-> "idle"]
    /\ limit \in Limits
    /\ faults = 0
    /\ faulted = [p \in Processes |-> FALSE]
    /\ closed = [c \in Callers |-> [x \in Clients |-> FALSE]]
    /\ answer = [c \in Callers |-> [x \in Clients |-> "none"]]
    /\ replaced = [c \in Callers |-> 0]

This(p) == Program(kind[p])[section[p]]
Done(p) == at[p] > Len(This(p).steps)
Step(p) == This(p).steps[at[p]]

StartCommand(p) ==
    /\ status[p] = "idle"
    /\ \E k \in Kinds : kind' = [kind EXCEPT ![p] = k]
    /\ \E i \in Inputs : input' = [input EXCEPT ![p] = i]
    /\ status' = [status EXCEPT ![p] = "running"]
    /\ UNCHANGED <<client, orphans, section, at, limit, faults, faulted, callerVars>>

AtStep(p) == status[p] = "running" /\ ~Done(p)

\* A check or a call of the command, as its code orders them.
TakeStep(p) ==
    /\ AtStep(p)
    /\ Passes(kind[p], input[p], Step(p))
    /\ IF Step(p) \in Calls THEN CallSucceeds(p, This(p).on, Step(p))
       ELSE UNCHANGED <<client, orphans>>
    /\ at' = [at EXCEPT ![p] = @ + 1]
    /\ UNCHANGED <<kind, input, section, status, limit, faults, faulted, callerVars>>

\* A step that can only fail: nothing is called for an input that does not
\* pass, and a client that refuses a call stays as it is.
StepRefused(p) ==
    /\ AtStep(p)
    /\ \/ ~Passes(kind[p], input[p], Step(p))
       \/ Step(p) \in Calls /\ ~Accepts(p, This(p).on, Step(p))
    /\ status' = [status EXCEPT ![p] = "failing"]
    /\ UNCHANGED <<client, orphans, kind, input, section, at, limit, faults, faulted, callerVars>>

\* Any other error.
StepFails(p) ==
    /\ AtStep(p)
    /\ faults < MaxFaults
    /\ faults' = faults + 1
    /\ faulted' = [faulted EXCEPT ![p] = TRUE]
    /\ status' = [status EXCEPT ![p] = "failing"]
    /\ IF Step(p) \in Calls THEN CallErrs(p, This(p).on) ELSE UNCHANGED <<client, orphans>>
    /\ UNCHANGED <<kind, input, section, at, limit, callerVars>>

\* Deferred calls run when a section returns, with an error or without.
LeaveSection(p) ==
    /\ status[p] = "failing" \/ (status[p] = "running" /\ Done(p))
    /\ IF at[p] > This(p).before THEN CloseClient(p, This(p).on)
       ELSE UNCHANGED <<client, orphans>>
    /\ IF status[p] = "running" /\ section[p] < Len(Program(kind[p]))
       THEN /\ section' = [section EXCEPT ![p] = @ + 1]
            /\ at' = [at EXCEPT ![p] = 1]
            /\ UNCHANGED status
       ELSE /\ status' = [status EXCEPT ![p] = IF @ = "failing" THEN "failed" ELSE "succeeded"]
            /\ UNCHANGED <<section, at>>
    /\ UNCHANGED <<kind, input, limit, faults, faulted, callerVars>>

Kill(p) ==
    /\ status[p] \in {"running", "failing"}
    /\ faults < MaxFaults
    /\ faults' = faults + 1
    /\ faulted' = [faulted EXCEPT ![p] = TRUE]
    /\ status' = [status EXCEPT ![p] = "killed"]
    /\ UNCHANGED <<client, orphans, kind, input, section, at, limit, callerVars>>

\* The end of a process ends its connections; the next one starts anew.
Exit(p) ==
    /\ status[p] \in {"succeeded", "failed", "killed"}
    /\ status' = [status EXCEPT ![p] = "idle"]
    /\ section' = [section EXCEPT ![p] = 1]
    /\ at' = [at EXCEPT ![p] = 1]
    /\ faulted' = [faulted EXCEPT ![p] = FALSE]
    /\ client' = [client EXCEPT ![p] = [x \in Clients |-> "none"]]
    /\ orphans' = [orphans EXCEPT ![p] = 0]
    /\ UNCHANGED <<kind, input, limit, faults, callerVars>>

-----------------------------------------------------------------------------
(* A library user of a connector, which calls it in any order.  *)

Library == {"milvus", "pgvector"}

CallConnect(c, x) ==
    /\ orphans[c] < MaxOrphans
    /\ CallSucceeds(c, x, "connect")
    /\ closed' = [closed EXCEPT ![c][x] = FALSE]
    /\ replaced' = IF x \in Milvus /\ client[c][x] = "open"
                   THEN [replaced EXCEPT ![c] = @ + 1] ELSE replaced
    /\ UNCHANGED <<limit, faults, processVars, answer>>

\* Count or Search.
Ask(c, x) ==
    /\ CallSucceeds(c, x, "search")
    /\ answer' = [answer EXCEPT ![c][x] = "answer"]
    /\ UNCHANGED <<limit, faults, processVars, closed, replaced>>

CallFails(c, x) ==
    \E call \in {"connect", "search"} :
        /\ \/ ~Accepts(c, x, call) /\ UNCHANGED <<client, orphans, faults>>
           \/ faults < MaxFaults /\ faults' = faults + 1 /\ CallErrs(c, x)
        /\ answer' = IF call = "search" THEN [answer EXCEPT ![c][x] = "error"] ELSE answer
        /\ UNCHANGED <<limit, processVars, closed, replaced>>

CallClose(c, x) ==
    /\ CloseClient(c, x)
    /\ closed' = [closed EXCEPT ![c][x] = @ \/ client[c][x] # "none"]
    /\ answer' = [answer EXCEPT ![c][x] = "none"]
    /\ UNCHANGED <<limit, faults, processVars, replaced>>

SessionNext ==
    \/ \E p \in Processes :
        \/ StartCommand(p) \/ TakeStep(p) \/ StepRefused(p) \/ StepFails(p)
        \/ LeaveSection(p) \/ Kill(p) \/ Exit(p)
    \/ \E c \in Callers, x \in Library :
        CallConnect(c, x) \/ Ask(c, x) \/ CallFails(c, x) \/ CallClose(c, x)

SessionSpec == SessionInit /\ [][SessionNext]_sessionVars

-----------------------------------------------------------------------------
(* Properties.  *)

Ended == {"succeeded", "failed"}

SessionTypeOK ==
    /\ client \in [Users -> [Clients -> {"none", "open", "dead"}]]
    /\ \A u \in Users : \A x \in Milvus \union {"memory"} : client[u][x] # "dead"
    /\ orphans \in [Users -> Nat]
    /\ kind \in [Processes -> Kinds]
    /\ input \in [Processes -> Inputs]
    /\ section \in [Processes -> Nat]
    /\ at \in [Processes -> Nat \ {0}]
    /\ \A p \in Processes : section[p] \in DOMAIN Program(kind[p])
    /\ \A p \in Processes : at[p] <= Len(This(p).steps) + 1
    /\ status \in [Processes -> {"idle", "running", "failing", "killed"} \union Ended]
    /\ limit \in Limits
    /\ faults \in Nat
    /\ faulted \in [Processes -> BOOLEAN]
    /\ closed \in [Callers -> [Clients -> BOOLEAN]]
    /\ answer \in [Callers -> [Clients -> {"none", "answer", "error"}]]
    /\ replaced \in [Callers -> Nat]

\* "Close releases any network connections, pools, or local resources held by
\* the connector" (Connector.Close), and each command defers it before it
\* connects: whatever call failed, a command that returns has closed every
\* connection it opened, and one that is running holds none but that of its
\* section, except for the migration's writer, which nothing closes.
CommandsCloseWhatTheyOpen ==
    \A p \in Processes : status[p] # "killed" =>
        /\ orphans[p] = 0
        /\ \A x \in Clients \ {"writer"} : client[p][x] = "open" =>
            status[p] \notin Ended /\ x = This(p).on

EnoughRoom == limit >= 2 * Cardinality(Processes) + Cardinality(Callers)

GoodInput(k, i) ==
    ValidFlags(k, i) /\ ValidFixture(k, i) /\ i.named /\ i.wellFormed

\* Every command calls its clients in an order they accept, its checks let no
\* request through that a connector refuses afterwards, and it never waits for
\* a connection it holds itself: without a fault and with two PostgreSQL
\* connections for each command, one with a good input does not fail.
UnfaultedCommandsSucceed ==
    \A p \in Processes :
        status[p] \in {"failing", "failed"} /\ ~faulted[p] /\ GoodInput(kind[p], input[p])
        => ~EnoughRoom

\* "so CLI option parsing and fixture validation can fail before any network
\* side effects occur" (NewPGXPGVectorSeedDB), and alike for every command but
\* two: bad flags, a bad fixture or a bad name never cost a connection.
\* seed-milvus connects before it looks at names, migrate-and-verify before it
\* looks at its fixture.
BadInputOpensNothing ==
    \A p \in Processes :
        LET k == kind[p] i == input[p] IN
        /\ status[p] # "idle"
        /\ \/ ~ValidFlags(k, i)
           \/ ~ValidFixture(k, i) /\ k # "migrate-and-verify"
           \/ ~i.named /\ k \notin {"seed-milvus", "offline-verify"}
           \/ ~i.wellFormed /\ k = "seed-pgvector"
        => \A x \in Clients : client[p][x] = "none"

\* A connector that Close took a connection from answers nothing until it was
\* connected again, and a pgvector connector then never does: it keeps the
\* closed connection.
ClosedAnswersNothing ==
    \A c \in Callers : \A x \in Library : closed[c][x] =>
        answer[c][x] # "answer" /\ client[c][x] # "open"

\* "Close releases any network connections, pools, or local resources held by
\* the connector", also for a caller that calls in any order and after any
\* error, lazily opened connections included: a caller that has closed its
\* connectors has nothing open at either server but the Milvus clients it had
\* replaced, since Connect on a connected connector drops the client there is
\* without closing it: one for each such Connect, whatever failed, and no more.
CloseReleasesAll ==
    \A c \in Callers :
        (\A x \in Library : client[c][x] = "none" \/ (closed[c][x] /\ answer[c][x] # "answer"))
        => orphans[c] = replaced[c] /\ \A x \in Clients : client[c][x] # "open"
=============================================================================
