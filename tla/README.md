# vdb-guardian in TLA+

vdb-guardian migrates vectors from Milvus to PostgreSQL/pgvector and verifies
the migration by comparing what searches return on both sides. This directory
holds TLA+ models of its parts, TLC runs on small instances and TLAPS proofs.
Paths below are relative to the repository; `PROJECT.json` maps every definition
to the lines it models.

## The system

| Component | State it keeps | Operations | Modelled in |
| --- | --- | --- | --- |
| vector migration (`internal/migration/vector_migration*.go`, `vdbg migrate`) | the Milvus collection it reads, the pgvector table it writes; one batch in memory | count, query, validate, connect, upsert one record | `VectorMigration`, `MigrationContract` |
| fingerprint builder (`internal/fingerprints`, `vdbg build-*-artifact`) | search results of one side, in memory | search each query, build the artifact | `FingerprintArtifact`, `ArtifactComparison` |
| fingerprint engine (`python/vdb_fingerprint_engine`) | two artifacts, in memory | load, align by query, add distances, penalise, score | `FingerprintArtifact`, `ArtifactComparison` |
| verification jobs (`offline-verify`, `compare-artifacts`, `migrate-and-verify`, `internal/pipeline`, `internal/jobs/runner.go`, `internal/engine`) | three files per job in the artifact directory | the steps of each command; write, check and read a file | `VerificationJob` |
| seeding (`internal/migration/*_seed*.go`, `seed-milvus`, `seed-pgvector`) | the two databases | has, drop, create, index, load, insert, flush; create extension and table, upsert one record | `FixtureSeeding` |
| `migrate-and-verify`, over both databases | flags and the searches answered so far, in memory | migrate, search each query on each side, build, compare | `MigrateAndVerify` |
| connectors (`internal/connectors`) and the clients of `internal/migration` | a client or a connection | Connect, Count, Search, Close | `ConnectorSessions` (who holds what), `MigrateAndVerify` (what a search answers) |
| smoke searches (`search-milvus`, `search-pgvector`), command dispatch | one connection | connect, count, search, close | `ConnectorSessions` |
| artifact store (`internal/artifacts`) | a map under a lock | Put, Get, Exists | `MemoryStore`, `AtomicStore` |
| job states, synthetic fixtures, configuration, version and server stub | none worth a model | | not modelled |

How they interact: `migrate-and-verify` runs a migration, then both builders,
then the engine, one after the other in one process. The builders hand their
artifacts to the engine as files; the engine is a separate Python process with
a working directory of its own. There is no daemon and no lock. Several
commands may run at once, on the same databases and on the same files; nothing
but the two databases and those files is shared.

What is hard here, and what the properties are for:

- the databases are read and written by others between two calls of one run,
  and a row count taken in one call limits the query of the next;
- rows are upserted one by one without a transaction, so any failure, lost
  answer or kill leaves a prefix, and a rerun must cope with it;
- a fingerprint is a view through three windows over a ranked list; a wrong
  end of a window or an unsorted response makes drift invisible;
- the two artifacts come from two commands with flags and fixtures of their own;
- files are replaced in place, truncated first and filled later, and are
  shared by every command with the same job id;
- a connection to PostgreSQL is opened by whichever call first needs one, also
  by one that then fails, and is one of so many the server accepts: closing it
  has to be arranged before it exists;
- the artifact store hands out byte slices, which are references, and is used by
  several goroutines.

`PROJECT.json` lists each of these at its line under `hazards`, with the
properties that watch it.

## Modules

**`VectorMigration`** - `VectorMigrationRunner.Migrate` as run by `vdbg
migrate`, by any number of processes. `rows` is the Milvus collection in
insertion order (Milvus keeps duplicate primary keys), `flushed` is what
`row_count` reports, `table` is the pgvector table. A process goes through
`CountRows`, `QueryRows`, `Validate`, `ConnectTarget`, `UpsertNext` for each
record and `Finish`: one action per call that reaches a database, with the
local code between two calls in the action before it. `CallFails` is the error
return of any of them, `UpsertAnswerLost` an upsert that was committed although
its answer never arrived, `Crash` a kill. `SourceInsert`, `SourceUpdate` and
`SourceFlush` are Milvus and its other clients. The iterator of the SDK client
holds one result set, so reading it to its end is part of `QueryRows`;
`BatchSize` is validated by the code and otherwise unused there, so it has no
place in the model.

**`MigrationContract`** - what a migration promises without the calls: one
snapshot of the source, checked as a whole, copied record by record, and
reported as a success only when nothing of it is left to copy.
`VectorMigration!ImplementsContract` is the refinement.

**`FingerprintArtifact`** - the builder and the distances as operators:
validation, the stable sort by rank, the windows of `StableK`, `BoundaryK` and
`TopK`, Jaccard distance and boundary flip rate. The id lists are sets because
the engine applies `set()` to each before it looks at it. Distances are exact:
`n/d` is the integer `n * Scale / d`, with `Scale` a multiple of every possible
`d`. The engine computes in floating point; rounding is not modelled.

**`ArtifactComparison`** - one verification end to end. `SearchQuery`,
`BuildFails` and `BuildArtifact` are the two build commands, with responses,
fixtures and flags of their own (`fixture` keeps the fixture a build was given,
`pending` what it still has to search); `LoadArtifacts`, `CompareQuery` and
`AddPenalty` are the engine. Matched queries are compared in any order; the
code goes through them sorted.

**`VerificationJob`** - the commands as processes and their files as shared
state. Each command has a `Program`, the steps of its code in their order.
`OpenFile` and `WriteFile` are the two halves of `os.WriteFile`; when another
command wrote the file in between, the longer of the two contents leaves a tail
(`Torn`). `ReadInput` is the engine opening one artifact. `FileFor` says which
file a path names: the engine runs in `python/`, so a relative path names
another file for it than for the command. `StepRefused` is a step that can only
fail, `StepFails` any other error (a full disk after half of a file included),
`Kill` a kill. `compare-artifacts` is taken to be called on the files of its
own job.

**`FixtureSeeding`** - `seed-milvus` and `seed-pgvector` next to the migrations
of `VectorMigration`, which it extends: the same collection and the same table,
written by three commands. A seeder is one command line with its fixture file,
started any number of times. `HasCollection` to `Flush` are the seven calls of
the SDK adapter in their order, `CreateExtension` to `SeedUpsert` the SQL
statements. `Narrow` is the conversion to 32 bits: `float32(value)` on the way
to Milvus, the `vector` type on the way to PostgreSQL. `SeedCallFails` is the
error return of any call, `SeedCrash` a kill or a lost answer. Where the outcome
depends on Milvus (dropping what another command just dropped, creating what it
just created, values that overflow 32 bits) both outcomes are possible.

**`MigrateAndVerify`** - `migrate-and-verify` over the rows of both databases.
It extends `VectorMigration`, whose steps are its first command (`Migrate`), and
takes builder and distances from `FingerprintArtifact`. `SearchQuery` is one
`Connector.Search`: the nearest `expandK` rows of that moment, nearest first,
rows at the same distance in any order. On the source, rows that are not flushed
may be missing; on the target, the column `embedding` is searched whatever
column was written, and a NULL among the answers ends the run, as a vector of
another dimension does on both sides. `Far` is the distance under each metric,
the same on both sides. Opening a connection changes nothing here and is part of
the first search.

**`ConnectorSessions`** - who holds which connection, and for how long. Each
command is a `Program` of sections; a section is the life of one client: its
checks and calls in the order of the code, and the place (`before`) after which
Close is deferred. `TakeStep`, `StepRefused`, `StepFails`, `LeaveSection` (the
deferred calls run), `Kill` and `Exit` are the steps of a process.
`CallConnect`, `Ask`, `CallFails` and `CallClose` are those of a library user,
who calls in any order. `Accepts`, `CallSucceeds`, `Leftovers`, `AfterClose` say
what the two kinds of client do: pgx opens lazily and keeps a closed connection,
a Milvus client exists after Connect only and is replaced by a second one.
`Room` is PostgreSQL's connection limit. An `Input` has one field for each
check a command makes, so a run can get each of them wrong.

**`AtomicStore`**, **`MemoryStore`** - what `artifacts.Store` promises, a map
whose operations take effect at one moment, and what `MemoryStore` does: copy in,
lock, touch the map, copy out, unlock. A byte slice is a reference to one of
`Buffers`; a goroutine overwrites the one it owns whenever it is not in a call.
`Fresh` is the allocator, which reuses what nothing refers to.
`MemoryStore!ImplementsAtomicStore` is the refinement.

**`FingerprintLemmas`** (sorting, distances), **`VectorMigrationProofs`**,
**`FixtureSeedingProofs`**, **`ArtifactComparisonProofs`**,
**`VerificationJobProofs`**, **`MigrateAndVerifyProofs`**,
**`ConnectorSessionsProofs`**, **`MemoryStoreProofs`** - proofs. **`MC*`** -
instances for TLC. Operators that are marked "Faulty variant" are used by
nothing; each is a plausible mistake which one of the properties must notice
(`mutants` in `PROJECT.json`).

## Runs

| Run | What it asks | Instance |
| --- | --- | --- |
| `migration_faults` | What can reach the table, what a stopped run leaves, what success means, and does the run implement its contract? | one process, two ids and the empty id, vectors that are valid, of another dimension and non-finite, up to two rows, one fault; the table may be missing or of another dimension |
| `migration_rerun` | Do two interleaving, failing and rerun migrations end up with the source in the target, and can one of them undo a row that is right? | two processes, two ids, two valid vectors, one fault |
| `small_collection` | Is a small collection migrated whole? (violated) | one process, two rows that are not flushed |
| `seeded_migration` | What does a successful `seed-milvus` leave, and does a migration after it carry the fixture over? | two seeders with overlapping fixtures of the same dimension, one migration, one fault |
| `reseeding` | What does a successful `seed-pgvector` leave, is seeding again harmless, and does a migration keep its contract while both its databases are seeded? | two `seed-pgvector`, one of which holds a value the table refuses, one `seed-milvus`, one migration, one fault; the table may be missing or of another dimension |
| `artifact_comparison` | Is an artifact whole or missing, what do fingerprints hold, what does a perfect score say, where can the score lie? | every ranking of three of four ids and five odd responses for one query, two responses for another, six fixtures, three sets of flags |
| `verification_jobs` | Is a success true of the files it names, and is a result only written over complete artifacts? | two processes with two runs each, every command, two jobs, one fault |
| `migrate_and_verify` | Does a faithful copy score 1.0, does 1.0 rule out stale rows, are the windows complete? | one process, up to two source rows and one stale target row, three vectors that two metrics and two queries rank differently, two changes, one fault |
| `library` | Who closes what, what does a bad input cost, what does a closed connector answer; is the store atomic, does every call return, can everybody wait for each other or for memory? | every command in one process, with eleven inputs, next to one caller of one connector, two connection limits, one replaced client, one fault; apart from that two goroutines at one path with two values and five buffers |
| `other_column` | Is what was migrated what is compared? (violated) | one process, a table with two vector columns |
| `relative_paths` | Does a verification compare what it generated? (violated) | one process, two runs, a relative directory |
| `stale_result` | Does a failed run leave a success behind? (violated) | one process, two runs, one fault |

Why the bounds are enough. A migration treats records one by one and never
compares two of them, so two rows show every order, every duplicate and every
truncated answer; one fault at any place covers each error return, and a run
started again after it covers recovery. A fingerprint looks at hits by rank
only: three hits out of four ids reach every relative order, a flip at the
cutoff included, and top K of two and three with windows of one to three put
the ends of the windows inside, at and beyond both ends of the list. Fixtures of
one and two records show every prefix a failed seeding leaves; two seeders are
enough to drop, create and insert under each other's feet, and commands restart
without a bound. In `migrate_and_verify` two source rows and one that
is not in the source put a stale row first, in the middle and last in a ranking,
and the search limit at, below and beyond the number of rows. Two
processes are enough for a file to change between any two steps of one run.

In `library` a limit of three connections is enough for a command and a caller
at once and a limit of one makes them wait for each other; each bad input is
wrong in one way, so every check is the one that refuses. Two goroutines with
five buffers can each hold a buffer and a copy while the map holds a fifth;
commands and store share nothing and are explored one beside the other.

Deadlock is not checked where a run really ends (`CHECK_DEADLOCK FALSE` in the
configurations): a verification ends scored or failed, and bounded commands end.

Fairness is assumed in two runs. `migration_rerun` needs it for
`RerunsConverge`: a process
that can make its next call makes it, an operator keeps running the command,
Milvus flushes what it holds. Nothing forces a client to change the source or a
fault to happen. All three are what the deployment does, not what the code
guarantees: the code has no retry of its own, which is why the property is
about commands that are run again. `library` needs it for `EveryCallReturns`
(`MemoryFairness`): a goroutine inside a call goes on, and a waiter for the lock
gets it if it can have it again and again, as `sync.RWMutex` promises (a waiting
writer holds new readers back). Nothing makes a goroutine call.

## What the runs show

The properties hold except for four, which disagree with what the repository
says of itself (`findings`):

- `SmallCollectionKept`: a row count of zero, which Milvus reports until rows
  are flushed, is replaced by a query limit of one, and the run succeeds with
  one record of two.
- `ComparesTheGeneratedArtifacts`: with a relative `--artifact-dir` the engine
  looks under `python/`. Usually the run fails there; with files of an earlier
  run in that place it succeeds and reports on those.
- `PartialRunIsNotMistaken`: fingerprints are replaced first and the result
  last, so a run that fails in between leaves the `SUCCEEDED` result of an
  earlier run beside fingerprints it does not describe.
- `VerifiesWhatItMigrated`: the target build is told neither the id column nor
  the vector column of `migrate-and-verify`. On a table that also has the default
  columns, the score is about vectors that were not migrated.

Some things are worth knowing although no document says otherwise. With
`StableK + BoundaryK < TopK` some places of the top K are in no window
(`Unwatched`), and a perfect score says nothing about them.
`PerfectScoreMeansSameBehaviour` bounds what that can hide: of the ids a query has
in the top K of one side alone, at most as many as there are such places, and
none where the windows meet. A row count taken before a row became visible cuts
the answer of the query after it short, and the run reports success all the same;
`SuccessIsComplete` is about runs whose row count saw every row, and
`RerunsConverge` says that running the command again brings the rest. Two commands
with one job id can compare the source of one with the target of the other;
`SuccessIsTrue` is about runs that were left alone. Nor does anything keep two
`seed-milvus` apart: both may see no collection, and then their records end up
side by side in the one that was created first, with both reporting success;
`SeededExactly` is about a seeder that had the collection to itself. A faithful
copy may score less than 1.0 when two rows are equally far from a query: neither
search breaks ties, so `FaithfulCopyScoresPerfect` asks for rows that no query
sees at the same distance. Of source rows that share an id, which Milvus allows,
a search may leave some out, so `WindowsAreSeenWhole` asks for unique ids on the
source; stating it without them was wrong, as its proof showed.

About connections: `migrate` never closes its writer's connection, and
`migrate-and-verify` still holds it while it opens the next one, hence the
exception in `CommandsCloseWhatTheyOpen` and the two connections per command in
`UnfaultedCommandsSucceed`. A second Connect of a Milvus connector leaves the
first client open until the process ends; `CloseReleasesAll` counts these
Connects (`replaced`) and says that they leak one client each and nothing else. A
pgvector connector cannot be used again after Close: it keeps the closed
connection. `seed-milvus` connects before it looks at its names, and
`migrate-and-verify` before it looks at its fixture, the two exceptions in
`BadInputOpensNothing`.

## Proofs

TLAPS proves, for all values of the constants that satisfy the named
assumptions (`ConstantsAssumption`, `SeedingAssumption`, `ScaleAssumption`,
`ComparisonAssumption`, `JobAssumption`, `VerifyAssumption`,
`SessionAssumption`, `StoreAssumption`):

| Theorem | States |
| --- | --- |
| `TypeCorrect` | `TypeOK` of a migration |
| `OnlyValidRows` | `OnlyValidRowsReachTarget` |
| `Provenance` | `TargetProvenance` |
| `Completeness` | `SuccessIsComplete` |
| `PartialRuns` | `PartialRunIsPrefix` |
| `MigrationImplementsContract` | `ImplementsContract` |
| `RepairsStay` | `RepairsStick` |
| `SeedingTypeCorrect` | `SeedTypeOK` of seeding and migrating together |
| `PGSeedingOverlays` | `PGSeedOverlays` |
| `ReseedingChangesNothing` | `ReseedingIsInvisible` |
| `MilvusSeedingIsExact` | `SeededExactly` |
| `SeedThenMigrate` | `SeededFixtureMigrates` |
| `SeededMigrationsKeepContract` | `MigrationsKeepTheirContract` |
| `ComparisonTypeCorrect` | `TypeOK` of a verification |
| `NoPartialArtifact` | `ArtifactsAreWhole` |
| `LeadersAreBestRanked` | `LeadingHitsAreBestRanked` |
| `ScoreIsBounded` | `ScoreBounds` |
| `PerfectScoreIsAgreement` | `PerfectScoreMeansSameBehaviour` |
| `JobsTypeCorrect` | `TypeOK` of the commands and their files |
| `SuccessTellsTheTruth` | `SuccessIsTrue` |
| `ResultsEarned` | `ResultsAreEarned` |
| `FaultsAloneFail` | `OnlyFaultsFail` |
| `VerificationTypeCorrect` | `VerifyTypeOK` of migrate-and-verify |
| `WindowsAreWhole` | `WindowsAreSeenWhole` |
| `FaithfulCopies` | `FaithfulCopyScoresPerfect` |
| `StaleRowsShow` | `PerfectScoreExcludesStaleRows` |
| `VerifiedMigration` | `ImplementsContract`, `TargetProvenance`, `OnlyValidRowsReachTarget` and `RepairsStick` of the migration inside migrate-and-verify |
| `SessionsTypeCorrect` | `SessionTypeOK` of the connections |
| `CommandsClose` | `CommandsCloseWhatTheyOpen` |
| `CommandsSucceed` | `UnfaultedCommandsSucceed` |
| `BadInputIsFree` | `BadInputOpensNothing` |
| `ClosedIsSilent` | `ClosedAnswersNothing` |
| `CloseReleases` | `CloseReleasesAll` |
| `StoreTypeCorrect` | `StoreTypeOK` of the artifact store |
| `MapNotRaced` | `MapIsNotRaced` |
| `NobodyStandsStill` | `NoStandstill` |
| `StoreIsAtomic` | `ImplementsAtomicStore` |

The migration. None of the properties is inductive. The batch of a runner says
nothing about the table until it is tied to where it came from: the invariants
add that a batch holds records of the collection's history, that past
validation every record of it is valid, and that, as long as a runner is
undisturbed, its batch is made of the present rows and the records before
`next` are in the table. Completeness needs one more step: a query whose limit
is the number of rows returns an answer without a row twice, hence, by a
pigeonhole argument (`InjectionCovers`), every row. The refinement follows from
the same invariants, action by action. `RepairsStick` is the part of convergence
that is safety: a step may only take from what a run carries (`CarriedShrinks`)
and only write what it carries (`WritesCarried`), so a row that is right, with no
older record of its id under way, is right until the source changes. That such a
row comes about needs fairness and is left to `RerunsConverge`.

Seeding. `OverlayInv` says what the table is between the statements of a
`seed-pgvector` that has it to itself: what it found, overlaid with the records
before `sent` (`Upto`), and `DimensionInv` that it has the dimension of the fixture
as soon as a record was accepted; both properties are read off it, the second because an
overlay that changes nothing in the end changes nothing halfway when no id
occurs twice. `CollectionInv` says what the collection is at each call of a
`seed-milvus` that has it to itself. `SeedThenMigrate` puts the commands
together: the invariant of the migration, `CompletenessInv`, survives every
step of a seeder (`SeedingKeepsCompleteness`), because a step that changes the
rows or the table ends "undisturbed" for every run, and `SeededInv` adds that an
undisturbed run still faces the rows of the fixture it read. To the contract, a
`seed-milvus` is other clients moving the source, and `RefinementInv` of the
migration is about the runs alone, so it survives every step of a seeder; only
the writes of `seed-pgvector` are no steps of the contract.

The comparison. `SortIsPermutation` shows that placing each hit by the number
of hits before it is a permutation, by the same pigeonhole argument;
`LeadingPlaces` and `FingerprintShape` derive what the windows hold.
`ShareBounds` and `ZeroDistance` bound a distance and say when it is zero. The
invariant over the states is `ScoreInv`: artifacts are what the builder makes
of the collected results, each sum is at most 1.0 per compared query, and all
sums are zero exactly while every query compared so far agrees. What two
agreeing fingerprints can still hide is counted in `ZeroHidesLittle`: the top K
is no longer than its windows and the places between them. `WholeInv` says of
each build that it goes through its fixture front to back and has an answer for
every query behind it (`Progress`), so an artifact holds all of them.

The commands and their files. `WellOrdered` states as a fact about every
program what its order is good for: the inputs are read once both fingerprints a
command writes are there, and the result comes last. The invariant says which
steps a run has behind it (`Did`), that a run left alone still finds in its
files what it wrote and in `seen` what its engine read (`KnowsItsFiles`), and
that every result was earned (`AllEarned`); a step of another command either
leaves the files of the job alone or ends "alone".

migrate-and-verify. `VerifyInv` carries `CompletenessInv` of the migration along
and says of each run: it searches only after its migration succeeded (`Staged`),
a side that was built has all its answers (`Built`), ranks are places
(`Ranked`), the score is that of the two artifacts (`Compared`), and the answers
of an undisturbed run are still answers over the two databases (`Truthful`).
What a search promises is a set of possible answers; `PlaceInAnswer` shows that
without ties a place in any of them is the number of closer candidates, so two
answers agree wherever both have a hit (`SameRanking`), and an answer cut off at
`expandK` has the windows of the whole ranking (`CutIsWhole`). A copy without
stale rows equals the source (`CopyIsSource`), hence the perfect score. Stale
rows: a row with at most `topK` rows as near as itself is among the first `topK`
hits (`AmongNearest`, by counting), so it is in a window of the target, and a
score of 1.0 puts it in the same window of the source, whose hits are rows of the
source. What was proved of `vdbg migrate` carries over (`VerifiedMigration`),
because each step is one of `VectorMigration` or leaves the migration as it is
(`MigratesOrRests`).

Connections. The programs are `WellOrdered`: within a section checks come before
calls and Close is deferred before the first call that may open anything. With
that, `HoldsItsOwn` (a process holds the client of its section and, past it, the
writer), `HasChecked` (what was looked at before the first call has passed) and
`KnowsWhatItClosed` (a caller's `closed` tells what its clients are) are
inductive. That a command fails only over a fault, its input or the server's
limit is a counting argument: a process holds the writer's connection and that
of one section at most (`TwoEach`) and a caller one; with room for all of these
(`EnoughRoom`), one more is free whenever a command is to open it
(`RoomForOneMore`). `RoomInv` adds to the session invariant that a client is
connected at its first question (`Ready`) and what a failed command is to blame
for (`FailsOverRoom`).

The store. Every buffer has one owner: a goroutine, an operation that has not
published it yet, or the map; a `found` buffer is read only under the lock. From
this ownership invariant each step maps to a step of the atomic store or to
none: Access takes effect, Begin calls, End returns. That nobody stands still
is counted from the same ownership: with a buffer for each goroutine, each copy
and each path, one is free whenever a goroutine asks for it (`MemoryIsLeft`), and
the lock's holder is never itself waiting for it, so somebody can always go on.

Model-checked only: `RerunsConverge` and `EveryCallReturns`, since liveness is out
of the prover's reach; `RepairsStick` and `NoStandstill` are what safety says
about them. The four properties that the code breaks have no theorem, of course;
where they hold is said by `SuccessIsTrue` (absolute paths),
`FaithfulCopyScoresPerfect` (the default column) and `SuccessIsComplete` (rows
that are all counted).

## Not modelled

Floating point arithmetic (rounding of distances; conversion to 32 bits is the
constant `Narrow`), metrics and scores of hits, SQL and the Milvus protocol
beyond what the calls do, printed output. `weighted_distance` and `boundary.py`
of the engine are pure and called by no command. The engine's temporary
directory is private to one comparison; a kill leaves it behind, without any
other effect. Cancelled contexts: no command cancels its own, and a cancelled
call is a failed one.

Four components have no behaviour to model. `internal/jobs/state.go` names states
and tests for the terminal ones, and no code moves between them.
`internal/config` parses a file that no command loads. `internal/fixtures`
generates data from a seed, a pure function over floating point numbers whose
outputs are inputs here. The server and the version print strings.

## Plan

Every component that keeps state is modelled, and what is only model-checked is
listed above. What would come next: two commands at once in `library`, which is
beyond what TLC does in minutes, although the proofs cover any number; and, once
the server or the job states are used by code, a model of the jobs' life cycle.
