-------------------------- MODULE VerificationJob --------------------------
(***************************************************************************)
(* The vdbg commands that build, compare and report fingerprints, and the  *)
(* files they hand to each other: cmd/vdbg, internal/pipeline,             *)
(* internal/jobs and internal/engine.                                      *)
(*                                                                         *)
(* A command is a process with its own working directory and artifact      *)
(* directory.  A file is written as os.WriteFile does it, truncated first  *)
(* and filled later, in place and without a lock; the Python engine is a   *)
(* second process that opens the same paths from a directory of its own.   *)
(* Commands of one job share its three files.                              *)
(***************************************************************************)
EXTENDS Naturals, Sequences

CONSTANTS
    Commands,     \* processes that run vdbg commands
    Jobs,         \* values of --job-id
    Invocations,  \* the ways a command may be called
    NoFile,       \* content of a file that does not exist
    Empty,        \* content of a file that is truncated and not filled yet
    Torn,         \* content that is not one JSON document
    Nothing,      \* what an engine has read before it reads
    MaxRuns,      \* bound: how often each process runs a command
    MaxFaults     \* bound: failed calls and kills

Sides == {"source", "target"}
Names == Sides \union {"result"}

\* The artifact directory, and the directory python/<artifact directory>.
Dirs == {"artifacts", "python/artifacts"}
Files == Dirs \X Jobs \X Names

Kinds == {"offline-verify", "migrate-and-verify", "compare-artifacts",
          "build-milvus-artifact", "build-pgvector-artifact"}

\* cwd is the directory a command starts in, relative whether its paths are.
Invocation == [kind: Kinds, job: Jobs, cwd: {"repository", "python"}, relative: BOOLEAN]

\* The contents of a fingerprint file and of a result file: who wrote them,
\* in which run, and for a result what it compares.
Fingerprints == [by: Commands, run: Nat]
Results == [by: Commands, run: Nat, source: Fingerprints, target: Fingerprints]
Blank == {NoFile, Empty, Torn}

ASSUME JobAssumption ==
    /\ Invocations \subseteq Invocation
    /\ {MaxRuns, MaxFaults} \subseteq Nat
    /\ Blank \intersect (Fingerprints \union Results) = {}

VARIABLES
    files,    \* file -> content
    call,     \* per command: how it was called last
    status,   \* per command: "idle", "running", "writing" or how it ended
    at,       \* per command: the step of its program it is at
    run,      \* per command: number of its run
    seen,     \* per command and side: the fingerprints its engine read
    faults,   \* counts failed calls and kills
    alone,    \* auxiliary, per command: since it started, no other command
              \* touched a file of its job
    faulted   \* auxiliary, per command: a fault hit this run

vars == <<files, call, status, at, run, seen, faults, alone, faulted>>

-----------------------------------------------------------------------------
(* The steps of each command, in the order of its code.  *)

Compare == <<"read source", "read target", "result">>

OfflineVerify == <<"search", "source", "target", Compare[1], Compare[2], Compare[3]>>

CompareArtifacts == <<"stat", Compare[1], Compare[2], Compare[3]>>

\* Faulty variant: compares before the target is built.
MigrateAndVerify_CompareEarly ==
    <<"migrate", "search", "source", "stat", Compare[1], Compare[2], Compare[3], "search", "target">>

MigrateAndVerify ==
    <<"migrate", "search", "source", "search", "target", "stat", Compare[1], Compare[2], Compare[3]>>

BuildMilvusArtifact == <<"search", "source">>
BuildPGVectorArtifact == <<"search", "target">>

Program(kind) ==
    CASE kind = "offline-verify" -> OfflineVerify
      [] kind = "migrate-and-verify" -> MigrateAndVerify
      [] kind = "compare-artifacts" -> CompareArtifacts
      [] kind = "build-milvus-artifact" -> BuildMilvusArtifact
      [] kind = "build-pgvector-artifact" -> BuildPGVectorArtifact

Steps(c) == Program(call[c].kind)
Step(c) == Steps(c)[at[c]]
Running(c) == status[c] \in {"running", "writing"}

\* What a path names depends on who opens it: the engine's working directory
\* is python/, and a relative path stays relative.
FileFor(c, name, cwd) ==
    <<IF call[c].relative /\ cwd = "python" THEN "python/artifacts" ELSE "artifacts",
      call[c].job, name>>

GoFile(c, name) == FileFor(c, name, call[c].cwd)
EngineFile(c, name) == FileFor(c, name, "python")

Content(c) ==
    IF Step(c) = "result"
    THEN [by |-> c, run |-> run[c], source |-> seen[c]["source"], target |-> seen[c]["target"]]
    ELSE [by |-> c, run |-> run[c]]

Init ==
    /\ files = [f \in Files |-> NoFile]
    /\ call \in [Commands -> Invocations]
    /\ status = [c \in Commands |-> "idle"]
    /\ at = [c \in Commands |-> 1]
    /\ run = [c \in Commands |-> 0]
    /\ seen = [c \in Commands |-> [side \in Sides |-> Nothing]]
    /\ faults = 0
    /\ alone = [c \in Commands |-> FALSE]
    /\ faulted = [c \in Commands |-> FALSE]

-----------------------------------------------------------------------------
(* One run of a command.  *)

Start(c) ==
    /\ ~Running(c)
    /\ run[c] < MaxRuns
    /\ \E i \in Invocations : call' = [call EXCEPT ![c] = i]
    /\ status' = [status EXCEPT ![c] = "running"]
    /\ at' = [at EXCEPT ![c] = 1]
    /\ run' = [run EXCEPT ![c] = @ + 1]
    /\ seen' = [seen EXCEPT ![c] = [side \in Sides |-> Nothing]]
    /\ alone' = [alone EXCEPT ![c] = TRUE]
    /\ faulted' = [faulted EXCEPT ![c] = FALSE]
    /\ UNCHANGED <<files, faults>>

\* Faulty variant: reports success one step early.
Advance_OneShort(c) ==
    /\ at' = [at EXCEPT ![c] = @ + 1]
    /\ status' = [status EXCEPT ![c] = IF at[c] + 1 >= Len(Steps(c)) THEN "done" ELSE "running"]

Advance(c) ==
    /\ at' = [at EXCEPT ![c] = @ + 1]
    /\ status' = [status EXCEPT ![c] = IF at[c] = Len(Steps(c)) THEN "done" ELSE "running"]

\* Migrating, searching and building change no file.
Work(c) ==
    /\ status[c] = "running"
    /\ Step(c) \in {"migrate", "search"}
    /\ Advance(c)
    /\ UNCHANGED <<files, call, run, seen, faults, alone, faulted>>

\* requireReadableFile, from the directory of the Go process.
StatFiles(c) ==
    /\ status[c] = "running"
    /\ Step(c) = "stat"
    /\ \A side \in Sides : files[GoFile(c, side)] # NoFile
    /\ Advance(c)
    /\ UNCHANGED <<files, call, run, seen, faults, alone, faulted>>

PutFile(c, content) ==
    /\ files' = [files EXCEPT ![GoFile(c, Step(c))] = content]
    /\ alone' = [d \in Commands |-> alone[d] /\ (d = c \/ call[d].job # call[c].job)]

OpenFile(c) ==
    /\ status[c] = "running"
    /\ Step(c) \in Names
    /\ PutFile(c, Empty)
    /\ status' = [status EXCEPT ![c] = "writing"]
    /\ UNCHANGED <<call, at, run, seen, faults, faulted>>

\* Written over what another command wrote meanwhile, the longer of the two
\* leaves a tail.
WriteFile(c) ==
    /\ status[c] = "writing"
    /\ \/ PutFile(c, Content(c))
       \/ files[GoFile(c, Step(c))] # Empty /\ PutFile(c, Torn)
    /\ Advance(c)
    /\ UNCHANGED <<call, run, seen, faults, faulted>>

Side(c) == IF Step(c) = "read source" THEN "source" ELSE "target"

ReadsInput(c) == status[c] = "running" /\ Step(c) \in {"read source", "read target"}

\* The engine starts where there is a python directory, and only a complete
\* artifact gets past its loader.
Readable(c) ==
    /\ call[c].cwd = "repository"
    /\ files[EngineFile(c, Side(c))] \notin Blank

\* Faulty variant: the exit code of the engine is not looked at.
ReadInput_IgnoresExit(c) ==
    /\ ReadsInput(c)
    /\ seen' = IF Readable(c)
               THEN [seen EXCEPT ![c][Side(c)] = files[EngineFile(c, Side(c))]]
               ELSE seen
    /\ Advance(c)
    /\ UNCHANGED <<files, call, run, faults, alone, faulted>>

ReadInput(c) ==
    /\ ReadsInput(c)
    /\ Readable(c)
    /\ seen' = [seen EXCEPT ![c][Side(c)] = files[EngineFile(c, Side(c))]]
    /\ Advance(c)
    /\ UNCHANGED <<files, call, run, faults, alone, faulted>>

\* A step that can only fail.
Refused(c) ==
    \/ status[c] = "running" /\ Step(c) = "stat"
       /\ \E side \in Sides : files[GoFile(c, side)] = NoFile
    \/ ReadsInput(c) /\ ~Readable(c)

StepRefused(c) ==
    /\ Refused(c)
    /\ status' = [status EXCEPT ![c] = "failed"]
    /\ UNCHANGED <<files, call, at, run, seen, faults, alone, faulted>>

Fault(c, end) ==
    /\ Running(c)
    /\ faults < MaxFaults
    /\ faults' = faults + 1
    /\ faulted' = [faulted EXCEPT ![c] = TRUE]
    /\ status' = [status EXCEPT ![c] = end]
    /\ UNCHANGED <<call, at, run, seen>>

\* A failed write leaves the file as it is, a part of the content, or, when
\* only closing the file failed, all of it.
StepFails(c) ==
    /\ Fault(c, "failed")
    /\ \/ UNCHANGED <<files, alone>>
       \/ status[c] = "writing" /\ \E left \in {Torn, Content(c)} : PutFile(c, left)

Kill(c) ==
    /\ Fault(c, "killed")
    /\ UNCHANGED <<files, alone>>

Next ==
    \E c \in Commands :
        \/ Start(c) \/ Work(c) \/ StatFiles(c) \/ OpenFile(c) \/ WriteFile(c)
        \/ ReadInput(c) \/ StepRefused(c) \/ StepFails(c) \/ Kill(c)

Spec == Init /\ [][Next]_vars

-----------------------------------------------------------------------------
(* Properties.  *)

TypeOK ==
    /\ files \in [Files -> Fingerprints \union Results \union Blank]
    /\ call \in [Commands -> Invocations]
    /\ status \in [Commands -> {"idle", "running", "writing", "done", "failed", "killed"}]
    /\ at \in [Commands -> Nat]
    /\ run \in [Commands -> Nat]
    /\ seen \in [Commands -> [Sides -> Fingerprints \union {Nothing}]]
    /\ faults \in 0..MaxFaults
    /\ alone \in [Commands -> BOOLEAN]
    /\ faulted \in [Commands -> BOOLEAN]
    /\ \A c \in Commands :
        IF status[c] = "done" THEN at[c] = Len(Steps(c)) + 1 ELSE at[c] \in DOMAIN Steps(c)
    /\ \A c \in Commands : status[c] = "writing" => Step(c) \in Names

Does(c, step) == \E i \in DOMAIN Steps(c) : Steps(c)[i] = step

\* What a command prints when it succeeds: the fingerprints it built are in
\* the files it names, and the result compares what is in those files.
SaysTheTruth(c) ==
    /\ \A side \in Sides :
        Does(c, side) => files[GoFile(c, side)] = [by |-> c, run |-> run[c]]
    /\ Does(c, "result") =>
        files[GoFile(c, "result")] =
            [by |-> c, run |-> run[c],
             source |-> files[GoFile(c, "source")], target |-> files[GoFile(c, "target")]]

\* "runs the local offline pipeline, and returns generated artifact paths plus
\* engine metrics" (runOfflineVerify, and alike for the other commands): with
\* absolute paths, the files of a run that succeeded agree with each other,
\* whatever earlier runs left half done, unless another command of that job
\* ran meanwhile.
SuccessIsTrue ==
    \A c \in Commands :
        status[c] = "done" /\ alone[c] /\ ~call[c].relative => SaysTheTruth(c)

\* "VerificationResult is the runner output generated from comparing the two
\* artifacts" (pipeline/offline.go:64), the two generated ones.  With relative
\* paths the engine opens files under python/, not those the command wrote
\* and checked: the code breaks it.
ComparesTheGeneratedArtifacts ==
    \A c \in Commands : status[c] = "done" /\ alone[c] => SaysTheTruth(c)

\* "returns before writing success artifacts when validation, connector
\* search, artifact construction, artifact writing, or engine comparison
\* fails" (OfflinePipeline.Run): whoever shares the job, a result names two
\* complete artifacts, and the run that wrote it got as far as writing it.
ResultsAreEarned ==
    \A f \in Files : f[3] = "result" /\ files[f] \notin Blank =>
        LET r == files[f] IN
        /\ {r.source, r.target} \subseteq Fingerprints
        /\ r.run = run[r.by] =>
            /\ status[r.by] = "done" \/ Step(r.by) = "result"
            /\ r.source = seen[r.by]["source"] /\ r.target = seen[r.by]["target"]

\* A verification that builds both artifacts fails only over a fault, another
\* command of its job, or a place where the engine cannot find them: what it
\* wrote, it can read.
OnlyFaultsFail ==
    \A c \in Commands :
        /\ status[c] = "failed" /\ alone[c] /\ ~faulted[c]
        /\ ~call[c].relative /\ call[c].cwd = "repository"
        => call[c].kind = "compare-artifacts"

\* "so callers do not mistake partial runs for completed verification jobs"
\* (jobs/runner.go:85): after a run of a job failed, nobody finds a success
\* result of that job next to fingerprints it does not compare.  The code
\* breaks it: the result of an earlier run stays.
PartialRunIsNotMistaken ==
    \A c \in Commands :
        status[c] = "failed" /\ alone[c] =>
            LET result == files[GoFile(c, "result")] IN
            result \in Results =>
                /\ result.source = files[GoFile(c, "source")]
                /\ result.target = files[GoFile(c, "target")]
=============================================================================
