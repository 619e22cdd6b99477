----------------------- MODULE VerificationJobProofs -----------------------
(***************************************************************************)
(* The commands that share artifact files: types, what a result file       *)
(* proves about the run that wrote it, what a success says of the files it *)
(* names, and what a verification can fail over, for any number of         *)
(* commands, jobs and runs.                                                *)
(*                                                                         *)
(* The argument follows one run through its program: the steps it did      *)
(* (Did) determine what it has read and, as long as it is alone, what is   *)
(* in its files.                                                           *)
(***************************************************************************)
EXTENDS VerificationJob, TLAPS

ReadStep(side) == IF side = "source" THEN "read source" ELSE "read target"
ReadSteps == {"read source", "read target"}
StepNames == {"migrate", "search", "stat"} \union Names \union ReadSteps

\* The run of a command has this step behind it.
Did(c, step) == \E i \in DOMAIN Steps(c) : i < at[c] /\ Steps(c)[i] = step

\* What the order of a program's steps has to be: files are written once and
\* before they are read, the result comes last and after both reads, and all
\* but compare-artifacts write both artifacts before they look for them.
WellOrdered(kind, s) ==
    /\ Len(s) \in Nat \ {0}
    /\ DOMAIN s = 1..Len(s)
    /\ \A i \in 1..Len(s) : s[i] \in StepNames
    /\ \A i, j \in 1..Len(s) : s[i] \in Names /\ s[i] = s[j] => i = j
    /\ \A i, j \in 1..Len(s) : s[i] \in Sides /\ s[j] \in ReadSteps => i < j
    /\ \A i \in 1..Len(s) : s[i] = "result" =>
        /\ i = Len(s)
        /\ \A step \in ReadSteps : \E j \in 1..Len(s) : j < i /\ s[j] = step
    /\ \A i \in 1..Len(s) : kind # "compare-artifacts" /\ s[i] \in {"stat"} \union ReadSteps =>
        \A side \in Sides : \E j \in 1..Len(s) : j < i /\ s[j] = side

-----------------------------------------------------------------------------
(* The programs.  *)

\* The steps are in order (OfflineVerify).
LEMMA OfflineVerifyOrdered == WellOrdered("offline-verify", OfflineVerify)
<1>. DEFINE s == OfflineVerify
<1>1. /\ Len(s) = 6 /\ DOMAIN s = 1..6
      /\ s[1] = "search" /\ s[2] = "source" /\ s[3] = "target" /\ s[4] = "read source"
      /\ s[5] = "read target" /\ s[6] = "result"
  BY DEF OfflineVerify, Compare
<1>. HIDE DEF s
<1>2. \A i \in 1..6 : i = 1 \/ i = 2 \/ i = 3 \/ i = 4 \/ i = 5 \/ i = 6
  OBVIOUS
<1>3. Len(s) \in Nat \ {0} /\ DOMAIN s = 1..Len(s)
  <2>1. 6 \in Nat \ {0}
    OBVIOUS
  <2>. QED
    BY <1>1, <2>1
<1>4. \A i \in 1..6 : s[i] \in StepNames
  BY <1>1, <1>2 DEF StepNames, Names, Sides, ReadSteps
<1>5. \A i, j \in 1..6 : s[i] \in Names /\ s[i] = s[j] => i = j
  BY <1>1, <1>2 DEF Names, Sides
<1>6. \A i, j \in 1..6 : s[i] \in Sides /\ s[j] \in ReadSteps => i < j
  <2>1. \A i \in 1..6 : s[i] \in Sides => i = 2 \/ i = 3
    BY <1>1, <1>2 DEF Sides
  <2>2. \A i \in 1..6 : s[i] \in ReadSteps => i = 4 \/ i = 5
    BY <1>1, <1>2 DEF ReadSteps
  <2>. QED
    BY <2>1, <2>2
<1>7. \A i \in 1..6 : s[i] = "result" =>
        /\ i = 6
        /\ \A step \in ReadSteps : \E j \in 1..6 : j < i /\ s[j] = step
  <2>1. \A i \in 1..6 : s[i] = "result" => i = 6
    BY <1>1, <1>2
  <2>2. 4 \in 1..6 /\ 4 < 6 /\ 5 \in 1..6 /\ 5 < 6
    OBVIOUS
  <2>. QED
    BY <1>1, <2>1, <2>2 DEF ReadSteps
<1>8. \A i \in 1..6 : s[i] \in {"stat"} \union ReadSteps =>
        \A side \in Sides : \E j \in 1..6 : j < i /\ s[j] = side
  <2>1. \A i \in 1..6 : s[i] \in {"stat"} \union ReadSteps => i = 4 \/ i = 5
    BY <1>1, <1>2 DEF ReadSteps
  <2>2. /\ 2 \in 1..6 /\ 3 \in 1..6
        /\ 2 < 4 /\ 2 < 5 /\ 3 < 4 /\ 3 < 5
    OBVIOUS
  <2>. QED
    BY <1>1, <2>1, <2>2 DEF Sides
<1>9. WellOrdered("offline-verify", s)
  <2>1. Len(s) = 6
    BY <1>1
  <2>. QED
    BY <2>1, <1>3, <1>4, <1>5, <1>6, <1>7, <1>8 DEF WellOrdered
<1>. QED
  BY <1>9 DEF s

\* The steps are in order (CompareArtifacts).
LEMMA CompareArtifactsOrdered == WellOrdered("compare-artifacts", CompareArtifacts)
<1>. DEFINE s == CompareArtifacts
<1>1. /\ Len(s) = 4 /\ DOMAIN s = 1..4
      /\ s[1] = "stat" /\ s[2] = "read source" /\ s[3] = "read target" /\ s[4] = "result"
  BY DEF CompareArtifacts, Compare
<1>. HIDE DEF s
<1>2. \A i \in 1..4 : i = 1 \/ i = 2 \/ i = 3 \/ i = 4
  OBVIOUS
<1>3. Len(s) \in Nat \ {0} /\ DOMAIN s = 1..Len(s)
  <2>1. 4 \in Nat \ {0}
    OBVIOUS
  <2>. QED
    BY <1>1, <2>1
<1>4. \A i \in 1..4 : s[i] \in StepNames
  BY <1>1, <1>2 DEF StepNames, Names, Sides, ReadSteps
<1>5. \A i, j \in 1..4 : s[i] \in Names /\ s[i] = s[j] => i = j
  BY <1>1, <1>2 DEF Names, Sides
<1>6. \A i, j \in 1..4 : s[i] \in Sides /\ s[j] \in ReadSteps => i < j
  BY <1>1, <1>2 DEF Sides
<1>7. \A i \in 1..4 : s[i] = "result" =>
        /\ i = 4
        /\ \A step \in ReadSteps : \E j \in 1..4 : j < i /\ s[j] = step
  <2>1. \A i \in 1..4 : s[i] = "result" => i = 4
    BY <1>1, <1>2
  <2>2. 2 \in 1..4 /\ 2 < 4 /\ 3 \in 1..4 /\ 3 < 4
    OBVIOUS
  <2>. QED
    BY <1>1, <2>1, <2>2 DEF ReadSteps
<1>9. WellOrdered("compare-artifacts", s)
  BY <1>1, <1>3, <1>4, <1>5, <1>6, <1>7 DEF WellOrdered
<1>. QED
  BY <1>9 DEF s

\* The steps are in order (MigrateAndVerify).
LEMMA MigrateAndVerifyOrdered == WellOrdered("migrate-and-verify", MigrateAndVerify)
<1>. DEFINE s == MigrateAndVerify
<1>1. /\ Len(s) = 9 /\ DOMAIN s = 1..9
      /\ s[1] = "migrate" /\ s[2] = "search" /\ s[3] = "source" /\ s[4] = "search"
      /\ s[5] = "target" /\ s[6] = "stat" /\ s[7] = "read source" /\ s[8] = "read target"
      /\ s[9] = "result"
  BY DEF MigrateAndVerify, Compare
<1>. HIDE DEF s
<1>2. \A i \in 1..9 :
        i = 1 \/ i = 2 \/ i = 3 \/ i = 4 \/ i = 5 \/ i = 6 \/ i = 7 \/ i = 8 \/ i = 9
  OBVIOUS
<1>3. Len(s) \in Nat \ {0} /\ DOMAIN s = 1..Len(s)
  <2>1. 9 \in Nat \ {0}
    OBVIOUS
  <2>. QED
    BY <1>1, <2>1
<1>4. \A i \in 1..9 : s[i] \in StepNames
  BY <1>1, <1>2 DEF StepNames, Names, Sides, ReadSteps
<1>5. \A i, j \in 1..9 : s[i] \in Names /\ s[i] = s[j] => i = j
  BY <1>1, <1>2 DEF Names, Sides
<1>6. \A i, j \in 1..9 : s[i] \in Sides /\ s[j] \in ReadSteps => i < j
  <2>1. \A i \in 1..9 : s[i] \in Sides => i = 3 \/ i = 5
    BY <1>1, <1>2 DEF Sides
  <2>2. \A i \in 1..9 : s[i] \in ReadSteps => i = 7 \/ i = 8
    BY <1>1, <1>2 DEF ReadSteps
  <2>. QED
    BY <2>1, <2>2
<1>7. \A i \in 1..9 : s[i] = "result" =>
        /\ i = 9
        /\ \A step \in ReadSteps : \E j \in 1..9 : j < i /\ s[j] = step
  <2>1. \A i \in 1..9 : s[i] = "result" => i = 9
    BY <1>1, <1>2
  <2>2. 7 \in 1..9 /\ 7 < 9 /\ 8 \in 1..9 /\ 8 < 9
    OBVIOUS
  <2>. QED
    BY <1>1, <2>1, <2>2 DEF ReadSteps
<1>8. \A i \in 1..9 : s[i] \in {"stat"} \union ReadSteps =>
        \A side \in Sides : \E j \in 1..9 : j < i /\ s[j] = side
  <2>1. \A i \in 1..9 : s[i] \in {"stat"} \union ReadSteps => i = 6 \/ i = 7 \/ i = 8
    BY <1>1, <1>2 DEF ReadSteps
  <2>2. /\ 3 \in 1..9 /\ 5 \in 1..9
        /\ 3 < 6 /\ 3 < 7 /\ 3 < 8 /\ 5 < 6 /\ 5 < 7 /\ 5 < 8
    OBVIOUS
  <2>. QED
    BY <1>1, <2>1, <2>2 DEF Sides
<1>9. WellOrdered("migrate-and-verify", s)
  <2>1. Len(s) = 9
    BY <1>1
  <2>. QED
    BY <2>1, <1>3, <1>4, <1>5, <1>6, <1>7, <1>8 DEF WellOrdered
<1>. QED
  BY <1>9 DEF s

\* The steps are in order (BuildMilvusArtifact).
LEMMA BuildMilvusArtifactOrdered == WellOrdered("build-milvus-artifact", BuildMilvusArtifact)
<1>. DEFINE s == BuildMilvusArtifact
<1>1. /\ Len(s) = 2 /\ DOMAIN s = 1..2
      /\ s[1] = "search" /\ s[2] = "source"
  BY DEF BuildMilvusArtifact
<1>. HIDE DEF s
<1>2. \A i \in 1..2 : i = 1 \/ i = 2
  OBVIOUS
<1>3. Len(s) \in Nat \ {0} /\ DOMAIN s = 1..Len(s)
  <2>1. 2 \in Nat \ {0}
    OBVIOUS
  <2>. QED
    BY <1>1, <2>1
<1>4. \A i \in 1..2 : s[i] \in StepNames
  BY <1>1, <1>2 DEF StepNames, Names, Sides, ReadSteps
<1>5. \A i, j \in 1..2 : s[i] \in Names /\ s[i] = s[j] => i = j
  BY <1>1, <1>2 DEF Names, Sides
<1>6. \A i, j \in 1..2 : s[i] \in Sides /\ s[j] \in ReadSteps => i < j
  <2>1. \A i \in 1..2 : s[i] \in Sides => i = 2
    BY <1>1, <1>2 DEF Sides
  <2>2. \A i \in 1..2 : s[i] \in ReadSteps => FALSE
    BY <1>1, <1>2 DEF ReadSteps
  <2>. QED
    BY <2>1, <2>2
<1>7. \A i \in 1..2 : s[i] = "result" =>
        /\ i = 2
        /\ \A step \in ReadSteps : \E j \in 1..2 : j < i /\ s[j] = step
  BY <1>1, <1>2
<1>8. \A i \in 1..2 : s[i] \in {"stat"} \union ReadSteps =>
        \A side \in Sides : \E j \in 1..2 : j < i /\ s[j] = side
  BY <1>1, <1>2 DEF ReadSteps
<1>9. WellOrdered("build-milvus-artifact", s)
  <2>1. Len(s) = 2
    BY <1>1
  <2>. QED
    BY <2>1, <1>3, <1>4, <1>5, <1>6, <1>7, <1>8 DEF WellOrdered
<1>. QED
  BY <1>9 DEF s

\* The steps are in order (BuildPGVectorArtifact).
LEMMA BuildPGVectorArtifactOrdered == WellOrdered("build-pgvector-artifact", BuildPGVectorArtifact)
<1>. DEFINE s == BuildPGVectorArtifact
<1>1. /\ Len(s) = 2 /\ DOMAIN s = 1..2
      /\ s[1] = "search" /\ s[2] = "target"
  BY DEF BuildPGVectorArtifact
<1>. HIDE DEF s
<1>2. \A i \in 1..2 : i = 1 \/ i = 2
  OBVIOUS
<1>3. Len(s) \in Nat \ {0} /\ DOMAIN s = 1..Len(s)
  <2>1. 2 \in Nat \ {0}
    OBVIOUS
  <2>. QED
    BY <1>1, <2>1
<1>4. \A i \in 1..2 : s[i] \in StepNames
  BY <1>1, <1>2 DEF StepNames, Names, Sides, ReadSteps
<1>5. \A i, j \in 1..2 : s[i] \in Names /\ s[i] = s[j] => i = j
  BY <1>1, <1>2 DEF Names, Sides
<1>6. \A i, j \in 1..2 : s[i] \in Sides /\ s[j] \in ReadSteps => i < j
  <2>1. \A i \in 1..2 : s[i] \in Sides => i = 2
    BY <1>1, <1>2 DEF Sides
  <2>2. \A i \in 1..2 : s[i] \in ReadSteps => FALSE
    BY <1>1, <1>2 DEF ReadSteps
  <2>. QED
    BY <2>1, <2>2
<1>7. \A i \in 1..2 : s[i] = "result" =>
        /\ i = 2
        /\ \A step \in ReadSteps : \E j \in 1..2 : j < i /\ s[j] = step
  BY <1>1, <1>2
<1>8. \A i \in 1..2 : s[i] \in {"stat"} \union ReadSteps =>
        \A side \in Sides : \E j \in 1..2 : j < i /\ s[j] = side
  BY <1>1, <1>2 DEF ReadSteps
<1>9. WellOrdered("build-pgvector-artifact", s)
  <2>1. Len(s) = 2
    BY <1>1
  <2>. QED
    BY <2>1, <1>3, <1>4, <1>5, <1>6, <1>7, <1>8 DEF WellOrdered
<1>. QED
  BY <1>9 DEF s

\* Every program is in order (Program).
LEMMA ProgramsOrdered ==
    ASSUME NEW kind \in Kinds
    PROVE  WellOrdered(kind, Program(kind))
<1>1. CASE kind = "offline-verify"
  <2>1. Program(kind) = OfflineVerify
    BY <1>1 DEF Program
  <2>. QED
    BY <1>1, <2>1, OfflineVerifyOrdered
<1>2. CASE kind = "migrate-and-verify"
  <2>1. Program(kind) = MigrateAndVerify
    BY <1>2 DEF Program
  <2>. QED
    BY <1>2, <2>1, MigrateAndVerifyOrdered
<1>3. CASE kind = "compare-artifacts"
  <2>1. Program(kind) = CompareArtifacts
    BY <1>3 DEF Program
  <2>. QED
    BY <1>3, <2>1, CompareArtifactsOrdered
<1>4. CASE kind = "build-milvus-artifact"
  <2>1. Program(kind) = BuildMilvusArtifact
    BY <1>4 DEF Program
  <2>. QED
    BY <1>4, <2>1, BuildMilvusArtifactOrdered
<1>5. CASE kind = "build-pgvector-artifact"
  <2>1. Program(kind) = BuildPGVectorArtifact
    BY <1>5 DEF Program
  <2>. QED
    BY <1>5, <2>1, BuildPGVectorArtifactOrdered
<1>. QED
  BY <1>1, <1>2, <1>3, <1>4, <1>5 DEF Kinds

\* A program has a first step, and nothing before it (Start).
LEMMA FirstStep ==
    ASSUME NEW kind, NEW s, WellOrdered(kind, s)
    PROVE  1 \in DOMAIN s /\ \A i \in DOMAIN s : ~(i < 1)
<1>1. PICK n \in Nat \ {0} : Len(s) = n /\ DOMAIN s = 1..n
  BY DEF WellOrdered
<1>2. 1 \in 1..n /\ \A i \in 1..n : ~(i < 1)
  OBVIOUS
<1>. QED
  BY <1>1, <1>2

-----------------------------------------------------------------------------
(* The invariant.  *)

\* Artifacts hold fingerprints and results hold results, if anything.
FilesTyped ==
    \A f \in Files :
        files[f] \in (IF f[3] = "result" THEN Results ELSE Fingerprints) \union Blank

\* What an engine took for an artifact is one.
ReadsAreArtifacts(c) ==
    \A side \in Sides : Did(c, ReadStep(side)) => seen[c][side] \in Fingerprints

\* A result was written by a run that got as far, and says what it read.
Earned(f) ==
    LET r == files[f] IN
    /\ r.run <= run[r.by]
    /\ r.run = run[r.by] =>
        /\ status[r.by] = "done" \/ Step(r.by) = "result"
        /\ \A side \in Sides : r[side] = seen[r.by][side]

AllEarned == \A f \in Files : f[3] = "result" /\ files[f] \notin Blank => Earned(f)

Own(c) == [by |-> c, run |-> run[c]]
OwnResult(c) ==
    [by |-> c, run |-> run[c], source |-> seen[c]["source"], target |-> seen[c]["target"]]

\* What a run that is alone knows of its files: they are as it left them.
KnowsItsFiles(c) ==
    alone[c] /\ ~call[c].relative /\ status[c] \in {"running", "writing", "done"} =>
        /\ \A side \in Sides :
            /\ Did(c, side) => files[GoFile(c, side)] = Own(c)
            /\ Did(c, ReadStep(side)) => seen[c][side] = files[GoFile(c, side)]
        /\ Did(c, "result") => files[GoFile(c, "result")] = OwnResult(c)
        /\ status[c] = "writing" => files[GoFile(c, Step(c))] = Empty

FailsOverFaults(c) ==
    /\ status[c] = "failed" /\ alone[c] /\ ~faulted[c]
    /\ ~call[c].relative /\ call[c].cwd = "repository"
    => call[c].kind = "compare-artifacts"

CommandInv(c) == ReadsAreArtifacts(c) /\ KnowsItsFiles(c) /\ FailsOverFaults(c)

JobInv ==
    /\ TypeOK
    /\ FilesTyped
    /\ AllEarned
    /\ \A c \in Commands : CommandInv(c)

-----------------------------------------------------------------------------
(* Facts about one command.  *)

\* The program of a command is in order (Steps).
LEMMA StepsOrdered ==
    ASSUME TypeOK, NEW c \in Commands
    PROVE  WellOrdered(call[c].kind, Steps(c)) /\ call[c] \in Invocation
<1>1. call[c] \in Invocation
  BY JobAssumption DEF TypeOK
<1>2. call[c].kind \in Kinds
  BY <1>1 DEF Invocation
<1>. QED
  BY <1>1, <1>2, ProgramsOrdered DEF Steps

\* Where a running command is, and what lies behind it (Advance, Step).
LEMMA PlaceFacts ==
    ASSUME TypeOK, NEW c \in Commands, Running(c)
    PROVE  /\ at[c] \in 1..Len(Steps(c)) /\ Len(Steps(c)) \in Nat
           /\ Step(c) \in StepNames
           /\ Step(c) \in Names => ~Did(c, Step(c))
           /\ Step(c) \in Sides => \A step \in ReadSteps : ~Did(c, step)
           /\ ~Did(c, "result")
           /\ Step(c) = "result" => at[c] = Len(Steps(c)) /\ \A step \in ReadSteps : Did(c, step)
           /\ call[c].kind # "compare-artifacts" /\ Step(c) \in {"stat"} \union ReadSteps =>
                \A side \in Sides : Did(c, side)
<1>. DEFINE s == Steps(c)
<1>1. /\ WellOrdered(call[c].kind, s)
      /\ at[c] \in DOMAIN s
  BY StepsOrdered DEF TypeOK, Running
<1>2. /\ Len(s) \in Nat /\ DOMAIN s = 1..Len(s)
      /\ at[c] \in 1..Len(s)
  BY <1>1 DEF WellOrdered
<1>3. Step(c) = s[at[c]]
  BY DEF Step
<1>4. \A step : Did(c, step) <=> \E i \in 1..Len(s) : i < at[c] /\ s[i] = step
  BY <1>2 DEF Did
<1>. HIDE DEF s
<1>5. Step(c) \in StepNames
  BY <1>1, <1>2, <1>3 DEF WellOrdered
<1>6. Step(c) \in Names => ~Did(c, Step(c))
  <2>. SUFFICES ASSUME NEW i \in 1..Len(s), i < at[c], s[i] = s[at[c]], s[at[c]] \in Names PROVE FALSE
    BY <1>3, <1>4
  <2>1. i = at[c]
    BY <1>1, <1>2 DEF WellOrdered
  <2>. QED
    BY <1>2, <2>1
<1>7. Step(c) \in Sides => \A step \in ReadSteps : ~Did(c, step)
  <2>. SUFFICES ASSUME NEW i \in 1..Len(s), i < at[c], s[i] \in ReadSteps, s[at[c]] \in Sides PROVE FALSE
    BY <1>3, <1>4
  <2>1. at[c] < i
    BY <1>1, <1>2 DEF WellOrdered
  <2>. QED
    BY <1>2, <2>1
<1>8. ~Did(c, "result")
  <2>. SUFFICES ASSUME NEW i \in 1..Len(s), i < at[c], s[i] = "result" PROVE FALSE
    BY <1>4
  <2>1. i = Len(s)
    BY <1>1 DEF WellOrdered
  <2>. QED
    BY <1>2, <2>1
<1>9. Step(c) = "result" => at[c] = Len(s) /\ \A step \in ReadSteps : Did(c, step)
  <2>1. \A i \in 1..Len(s) : s[i] = "result" =>
            /\ i = Len(s)
            /\ \A step \in ReadSteps : \E j \in 1..Len(s) : j < i /\ s[j] = step
    BY <1>1 DEF WellOrdered
  <2>. QED
    BY <1>2, <1>3, <1>4, <2>1
<1>10. call[c].kind # "compare-artifacts" /\ Step(c) \in {"stat"} \union ReadSteps =>
          \A side \in Sides : Did(c, side)
  <2>. SUFFICES ASSUME call[c].kind # "compare-artifacts",
                       s[at[c]] \in {"stat"} \union ReadSteps,
                       NEW side \in Sides
                PROVE  \E j \in 1..Len(s) : j < at[c] /\ s[j] = side
    BY <1>3, <1>4
  <2>1. \A i \in 1..Len(s) :
            call[c].kind # "compare-artifacts" /\ s[i] \in {"stat"} \union ReadSteps =>
                \A d \in Sides : \E j \in 1..Len(s) : j < i /\ s[j] = d
    BY <1>1 DEF WellOrdered
  <2>. QED
    BY <1>2, <2>1
<1>. QED
  BY <1>2, <1>5, <1>6, <1>7, <1>8, <1>9, <1>10 DEF s

\* After a step, that step lies behind, and nothing else does (Advance).
LEMMA AdvanceFacts ==
    ASSUME TypeOK, NEW c \in Commands, Running(c), Advance(c), call' = call
    PROVE  /\ \A step : Did(c, step)' <=> Did(c, step) \/ step = Step(c)
           /\ at' \in [Commands -> Nat]
           /\ status' \in [Commands -> {"idle", "running", "writing", "done", "failed", "killed"}]
           /\ \A d \in Commands : d # c => at'[d] = at[d] /\ status'[d] = status[d]
           /\ status'[c] = "done" => at'[c] = Len(Steps(c)) + 1
           /\ status'[c] # "done" => status'[c] = "running" /\ at'[c] \in DOMAIN Steps(c)
           /\ at[c] = Len(Steps(c)) => status'[c] = "done"
<1>. DEFINE s == Steps(c)
<1>1. /\ Len(s) \in Nat /\ DOMAIN s = 1..Len(s) /\ at[c] \in 1..Len(s)
      /\ Step(c) = s[at[c]]
  BY PlaceFacts, StepsOrdered DEF WellOrdered, Step
<1>2. /\ at \in [Commands -> Nat]
      /\ status \in [Commands -> {"idle", "running", "writing", "done", "failed", "killed"}]
  BY DEF TypeOK
<1>3. /\ at' = [at EXCEPT ![c] = at[c] + 1]
      /\ status' = [status EXCEPT ![c] = IF at[c] = Len(s) THEN "done" ELSE "running"]
      /\ Steps(c)' = s
  BY DEF Advance, Steps
<1>4. \A step : Did(c, step) <=> \E i \in DOMAIN s : i < at[c] /\ s[i] = step
  BY DEF Did
<1>5. \A step : Did(c, step)' <=> \E i \in DOMAIN s : i < at'[c] /\ s[i] = step
  BY <1>3 DEF Did
<1>. HIDE DEF s
<1>6. at[c] \in Nat /\ at'[c] = at[c] + 1
  BY <1>1, <1>2, <1>3
<1>7. ASSUME NEW step PROVE Did(c, step)' <=> Did(c, step) \/ step = Step(c)
  <2>1. \A i \in 1..Len(s) : i < at[c] + 1 <=> i < at[c] \/ i = at[c]
    BY <1>1, <1>6
  <2>. QED
    BY <1>1, <1>4, <1>5, <1>6, <2>1
<1>8. at[c] # Len(s) => at[c] + 1 \in 1..Len(s)
  BY <1>1
<1>9. at' \in [Commands -> Nat] /\ \A d \in Commands : d # c => at'[d] = at[d]
  BY <1>2, <1>3, <1>6
<1>10. /\ status' \in [Commands -> {"idle", "running", "writing", "done", "failed", "killed"}]
       /\ \A d \in Commands : d # c => status'[d] = status[d]
       /\ status'[c] = IF at[c] = Len(s) THEN "done" ELSE "running"
  BY <1>2, <1>3
<1>11. /\ status'[c] = "done" => at'[c] = Len(s) + 1
       /\ status'[c] # "done" => status'[c] = "running" /\ at'[c] \in DOMAIN s
       /\ at[c] = Len(s) => status'[c] = "done"
  BY <1>1, <1>6, <1>8, <1>10
<1>. QED
  BY <1>7, <1>9, <1>10, <1>11 DEF s

\* Which files a command and its engine open (FileFor).
LEMMA FileFacts ==
    ASSUME TypeOK, NEW c \in Commands, NEW n \in Names
    PROVE  /\ GoFile(c, n) \in Files /\ EngineFile(c, n) \in Files
           /\ GoFile(c, n)[3] = n /\ EngineFile(c, n)[3] = n
           /\ GoFile(c, n)[2] = call[c].job
           /\ ~call[c].relative => EngineFile(c, n) = GoFile(c, n)
<1>1. call[c].job \in Jobs
  BY StepsOrdered DEF Invocation
<1>. QED
  BY <1>1 DEF GoFile, EngineFile, FileFor, Files, Dirs

\* What a step of c leaves to every other command.
Others(c) ==
    \A d \in Commands : d # c =>
        /\ call'[d] = call[d] /\ at'[d] = at[d] /\ status'[d] = status[d]
        /\ run'[d] = run[d] /\ seen'[d] = seen[d] /\ faulted'[d] = faulted[d]
        /\ alone'[d] => alone[d]
        /\ alone'[d] => \A n \in Names : files'[GoFile(d, n)] = files[GoFile(d, n)]

\* A command whose files nobody touched knows what it knew (PutFile).
LEMMA OthersKeep ==
    ASSUME TypeOK, NEW c \in Commands, Others(c),
           NEW d \in Commands, d # c, CommandInv(d)
    PROVE  CommandInv(d)'
<1>1. /\ call'[d] = call[d] /\ at'[d] = at[d] /\ status'[d] = status[d]
      /\ run'[d] = run[d] /\ seen'[d] = seen[d] /\ faulted'[d] = faulted[d]
      /\ alone'[d] => alone[d]
      /\ alone'[d] => \A n \in Names : files'[GoFile(d, n)] = files[GoFile(d, n)]
  BY DEF Others
<1>2. Steps(d)' = Steps(d)
  BY <1>1 DEF Steps
<1>3. Step(d)' = Step(d)
  BY <1>1, <1>2 DEF Step
<1>4. \A step : Did(d, step)' <=> Did(d, step)
  BY <1>1, <1>2 DEF Did
<1>5. \A n \in Names : GoFile(d, n)' = GoFile(d, n)
  BY <1>1 DEF GoFile, FileFor
<1>6. Own(d)' = Own(d) /\ OwnResult(d)' = OwnResult(d)
  BY <1>1 DEF Own, OwnResult
<1>7. ReadsAreArtifacts(d)'
  BY <1>1, <1>4 DEF CommandInv, ReadsAreArtifacts
<1>8. FailsOverFaults(d)'
  BY <1>1 DEF CommandInv, FailsOverFaults
<1>9. KnowsItsFiles(d)'
  <2>. SUFFICES ASSUME alone'[d], ~call'[d].relative, status'[d] \in {"running", "writing", "done"}
                PROVE  /\ \A side \in Sides :
                            /\ Did(d, side)' => files'[GoFile(d, side)'] = Own(d)'
                            /\ Did(d, ReadStep(side))' => seen'[d][side] = files'[GoFile(d, side)']
                       /\ Did(d, "result")' => files'[GoFile(d, "result")'] = OwnResult(d)'
                       /\ status'[d] = "writing" => files'[GoFile(d, Step(d))'] = Empty
    BY DEF KnowsItsFiles
  <2>1. /\ \A side \in Sides :
            /\ Did(d, side) => files[GoFile(d, side)] = Own(d)
            /\ Did(d, ReadStep(side)) => seen[d][side] = files[GoFile(d, side)]
        /\ Did(d, "result") => files[GoFile(d, "result")] = OwnResult(d)
        /\ status[d] = "writing" => files[GoFile(d, Step(d))] = Empty
    BY <1>1 DEF CommandInv, KnowsItsFiles
  <2>2. \A n \in Names : files'[GoFile(d, n)'] = files[GoFile(d, n)]
    BY <1>1, <1>5
  <2>3. Sides \subseteq Names /\ "result" \in Names
    BY DEF Names
  <2>4. status[d] = "writing" => Step(d) \in Names /\ GoFile(d, Step(d))' = GoFile(d, Step(d))
    BY <1>1, <1>3 DEF TypeOK, GoFile, FileFor
  <2>5. status'[d] = "writing" => files'[GoFile(d, Step(d))'] = Empty
    BY <1>1, <2>1, <2>4
  <2>. QED
    BY <1>1, <1>4, <1>6, <2>1, <2>2, <2>3, <2>5
<1>. QED
  BY <1>7, <1>8, <1>9 DEF CommandInv

\* A file that a command writes (PutFile).
LEMMA PutFileEffect ==
    ASSUME TypeOK, NEW c \in Commands, Step(c) \in Names, NEW content,
           PutFile(c, content)
    PROVE  /\ files' = [files EXCEPT ![GoFile(c, Step(c))] = content]
           /\ files'[GoFile(c, Step(c))] = content
           /\ \A f \in Files : f # GoFile(c, Step(c)) => files'[f] = files[f]
           /\ \A n \in Names : n # Step(c) => files'[GoFile(c, n)] = files[GoFile(c, n)]
           /\ alone' \in [Commands -> BOOLEAN] /\ alone'[c] = alone[c]
           /\ \A d \in Commands : d # c /\ alone'[d] =>
                alone[d] /\ \A n \in Names : files'[GoFile(d, n)] = files[GoFile(d, n)]
<1>1. /\ files' = [files EXCEPT ![GoFile(c, Step(c))] = content]
      /\ alone' = [d \in Commands |-> alone[d] /\ (d = c \/ call[d].job # call[c].job)]
  BY DEF PutFile
<1>2. GoFile(c, Step(c)) \in Files
  BY FileFacts
<1>3. /\ files'[GoFile(c, Step(c))] = content
      /\ \A f \in Files : f # GoFile(c, Step(c)) => files'[f] = files[f]
  BY <1>1, <1>2 DEF TypeOK
<1>4. \A n \in Names : n # Step(c) => files'[GoFile(c, n)] = files[GoFile(c, n)]
  BY <1>3, FileFacts
<1>5. alone' \in [Commands -> BOOLEAN]
  <2>1. \A d \in Commands : (alone[d] /\ (d = c \/ call[d].job # call[c].job)) \in BOOLEAN
    OBVIOUS
  <2>. QED
    BY <1>1, <2>1
<1>6. alone'[c] = alone[c]
  BY <1>1 DEF TypeOK
<1>7. ASSUME NEW d \in Commands, d # c, alone'[d]
      PROVE  alone[d] /\ \A n \in Names : files'[GoFile(d, n)] = files[GoFile(d, n)]
  <2>1. alone[d] /\ call[d].job # call[c].job
    BY <1>1, <1>7
  <2>2. \A n \in Names : GoFile(d, n) \in Files /\ GoFile(d, n) # GoFile(c, Step(c))
    BY <2>1, FileFacts
  <2>. QED
    BY <1>3, <2>1, <2>2
<1>. QED
  BY <1>1, <1>3, <1>4, <1>5, <1>6, <1>7

\* A command that is past writing its result, or at it, stays there and keeps
\* what it read, unless it starts again.
KeepsPlace(c) ==
    \/ run'[c] > run[c]
    \/ /\ run'[c] = run[c]
       /\ status[c] = "done" \/ Step(c) = "result" =>
            /\ status'[c] = "done" \/ Step(c)' = "result"
            /\ seen'[c] = seen[c]

\* A result stays earned while nobody writes it (ResultsAreEarned).
LEMMA EarnedKept ==
    ASSUME TypeOK, FilesTyped, AllEarned, NEW c \in Commands, Others(c), KeepsPlace(c),
           run' \in [Commands -> Nat],
           \A f \in Files : f[3] = "result" /\ files'[f] \notin Blank =>
                files'[f] = files[f] \/ Earned(f)'
    PROVE  AllEarned'
<1>. SUFFICES ASSUME NEW f \in Files, f[3] = "result", files'[f] \notin Blank, files'[f] = files[f]
              PROVE  Earned(f)'
  BY DEF AllEarned, Blank
<1>1. files[f] \in Results /\ Earned(f)
  BY DEF FilesTyped, AllEarned
<1>. PICK r \in Results : r = files[f] /\ r = files'[f]
  BY <1>1
<1>2. r.by \in Commands /\ r.run \in Nat
  BY DEF Results
<1>3. /\ r.run <= run[r.by]
      /\ r.run = run[r.by] =>
            /\ status[r.by] = "done" \/ Step(r.by) = "result"
            /\ \A side \in Sides : r[side] = seen[r.by][side]
  BY <1>1 DEF Earned
<1>4. Earned(f)' <=>
        /\ r.run <= run'[r.by]
        /\ r.run = run'[r.by] =>
            /\ status'[r.by] = "done" \/ Step(r.by)' = "result"
            /\ \A side \in Sides : r[side] = seen'[r.by][side]
  <2>1. Step(r.by)' = Step(files[f].by)'
    BY DEF Step, Steps
  <2>. QED
    BY <2>1 DEF Earned, Step, Steps
<1>5. run[r.by] \in Nat /\ run'[r.by] \in Nat
  BY <1>2 DEF TypeOK
<1>6. CASE r.by # c
  <2>1. /\ call'[r.by] = call[r.by] /\ at'[r.by] = at[r.by] /\ status'[r.by] = status[r.by]
        /\ run'[r.by] = run[r.by] /\ seen'[r.by] = seen[r.by]
    BY <1>2, <1>6 DEF Others
  <2>2. Step(r.by)' = Step(r.by)
    BY <2>1 DEF Step, Steps
  <2>. QED
    BY <1>3, <1>4, <2>1, <2>2
<1>7. CASE r.by = c
  BY <1>2, <1>3, <1>4, <1>5, <1>7 DEF KeepsPlace
<1>. QED
  BY <1>6, <1>7

-----------------------------------------------------------------------------
(* Every step keeps the invariant.  *)

\* What is left to show once the other commands are out of the way.
LEMMA StepKeeps ==
    ASSUME JobInv, NEW c \in Commands, Others(c), KeepsPlace(c),
           TypeOK', FilesTyped', CommandInv(c)',
           \A f \in Files : f[3] = "result" /\ files'[f] \notin Blank =>
                files'[f] = files[f] \/ Earned(f)'
    PROVE  JobInv'
<1>1. AllEarned'
  BY EarnedKept DEF JobInv, TypeOK
<1>2. ASSUME NEW d \in Commands PROVE CommandInv(d)'
  BY <1>2, OthersKeep DEF JobInv
<1>. QED
  BY <1>1, <1>2 DEF JobInv

\* No run has started (Init).
LEMMA InitInv ==
    ASSUME Init
    PROVE  JobInv
<1>1. \A c \in Commands : call[c] \in Invocation /\ at[c] = 1 /\ status[c] = "idle"
  BY JobAssumption DEF Init
<1>2. ASSUME NEW c \in Commands PROVE 1 \in DOMAIN Steps(c) /\ \A i \in DOMAIN Steps(c) : ~(i < 1)
  <2>1. call[c].kind \in Kinds
    BY <1>1 DEF Invocation
  <2>. QED
    BY <2>1, ProgramsOrdered, FirstStep DEF Steps
<1>3. TypeOK
  <2>1. files \in [Files -> Fingerprints \union Results \union Blank]
    BY DEF Init, Blank
  <2>2. faults \in 0..MaxFaults
    BY JobAssumption DEF Init
  <2>. QED
    BY <1>1, <1>2, <2>1, <2>2 DEF Init, TypeOK
<1>4. FilesTyped /\ AllEarned
  BY DEF Init, FilesTyped, AllEarned, Blank
<1>5. ASSUME NEW c \in Commands PROVE CommandInv(c)
  <2>1. \A step : ~Did(c, step)
    BY <1>1, <1>2 DEF Did
  <2>. QED
    BY <1>1, <2>1 DEF CommandInv, ReadsAreArtifacts, KnowsItsFiles, FailsOverFaults
<1>. QED
  BY <1>3, <1>4, <1>5 DEF JobInv

\* A new run has done nothing and knows nothing (Start).
LEMMA StartInv ==
    ASSUME JobInv, NEW c \in Commands, Start(c)
    PROVE  JobInv'
<1>1. TypeOK
  BY DEF JobInv
<1>2. /\ files' = files /\ faults' = faults
      /\ call' \in [Commands -> Invocations]
      /\ call'[c] \in Invocation
      /\ status' = [status EXCEPT ![c] = "running"]
      /\ at' = [at EXCEPT ![c] = 1]
      /\ run' = [run EXCEPT ![c] = run[c] + 1]
      /\ seen' = [seen EXCEPT ![c] = [side \in Sides |-> Nothing]]
      /\ alone' = [alone EXCEPT ![c] = TRUE]
      /\ faulted' = [faulted EXCEPT ![c] = FALSE]
      /\ \A d \in Commands : d # c => call'[d] = call[d]
  BY <1>1, JobAssumption DEF Start, TypeOK
<1>3. /\ at'[c] = 1 /\ status'[c] = "running" /\ run'[c] = run[c] + 1
      /\ \A d \in Commands : d # c =>
            /\ at'[d] = at[d] /\ status'[d] = status[d] /\ run'[d] = run[d]
            /\ seen'[d] = seen[d] /\ alone'[d] = alone[d] /\ faulted'[d] = faulted[d]
  BY <1>1, <1>2 DEF TypeOK
<1>4. Others(c)
  BY <1>2, <1>3 DEF Others
<1>5. run[c] \in Nat
  BY <1>1 DEF TypeOK
<1>6. KeepsPlace(c)
  BY <1>3, <1>5 DEF KeepsPlace
<1>7. WellOrdered(call'[c].kind, Steps(c)')
  <2>1. call'[c].kind \in Kinds
    BY <1>2 DEF Invocation
  <2>. QED
    BY <2>1, ProgramsOrdered DEF Steps
<1>8. 1 \in DOMAIN Steps(c)' /\ \A i \in DOMAIN Steps(c)' : ~(i < 1)
  BY <1>7, FirstStep
<1>9. TypeOK'
  <2>1. /\ status' \in [Commands -> {"idle", "running", "writing", "done", "failed", "killed"}]
        /\ at' \in [Commands -> Nat] /\ run' \in [Commands -> Nat]
        /\ seen' \in [Commands -> [Sides -> Fingerprints \union {Nothing}]]
        /\ faulted' \in [Commands -> BOOLEAN]
    BY <1>1, <1>2, <1>5 DEF TypeOK
  <2>2. alone' \in [Commands -> BOOLEAN]
    BY <1>1, <1>2 DEF TypeOK
  <2>3. ASSUME NEW d \in Commands
        PROVE  /\ IF status'[d] = "done" THEN at'[d] = Len(Steps(d)') + 1
                   ELSE at'[d] \in DOMAIN Steps(d)'
               /\ status'[d] = "writing" => Step(d)' \in Names
    <3>1. CASE d = c
      BY <1>3, <1>8, <3>1
    <3>2. CASE d # c
      <4>1. Steps(d)' = Steps(d) /\ Step(d)' = Step(d)
        BY <1>2, <1>3, <3>2 DEF Steps, Step
      <4>. QED
        BY <1>1, <1>3, <3>2, <4>1 DEF TypeOK
    <3>. QED
      BY <3>1, <3>2
  <2>. QED
    BY <1>1, <1>2, <2>1, <2>2, <2>3 DEF TypeOK
<1>10. FilesTyped'
  BY <1>2 DEF JobInv, FilesTyped
<1>11. CommandInv(c)'
  <2>1. \A step : ~Did(c, step)'
    BY <1>3, <1>8 DEF Did
  <2>. QED
    BY <1>3, <2>1 DEF CommandInv, ReadsAreArtifacts, KnowsItsFiles, FailsOverFaults
<1>. QED
  BY <1>2, <1>4, <1>6, <1>9, <1>10, <1>11, StepKeeps

\* Typing of what Advance changes.
LEMMA AdvanceTyped ==
    ASSUME TypeOK, NEW c \in Commands, Running(c), Advance(c), call' = call
    PROVE  /\ at' \in [Commands -> Nat]
           /\ status' \in [Commands -> {"idle", "running", "writing", "done", "failed", "killed"}]
           /\ \A d \in Commands :
                /\ IF status'[d] = "done" THEN at'[d] = Len(Steps(d)') + 1
                   ELSE at'[d] \in DOMAIN Steps(d)'
                /\ status'[d] = "writing" => Step(d)' \in Names
<1>1. /\ at' \in [Commands -> Nat]
      /\ status' \in [Commands -> {"idle", "running", "writing", "done", "failed", "killed"}]
      /\ \A d \in Commands : d # c => at'[d] = at[d] /\ status'[d] = status[d]
      /\ status'[c] = "done" => at'[c] = Len(Steps(c)) + 1
      /\ status'[c] # "done" => status'[c] = "running" /\ at'[c] \in DOMAIN Steps(c)
  BY AdvanceFacts
<1>2. ASSUME NEW d \in Commands
      PROVE  /\ IF status'[d] = "done" THEN at'[d] = Len(Steps(d)') + 1
                 ELSE at'[d] \in DOMAIN Steps(d)'
             /\ status'[d] = "writing" => Step(d)' \in Names
  <2>1. Steps(d)' = Steps(d)
    BY DEF Steps
  <2>2. CASE d = c
    BY <1>1, <2>1, <2>2
  <2>3. CASE d # c
    <3>1. Step(d)' = Step(d)
      BY <1>1, <2>1, <2>3 DEF Step
    <3>. QED
      BY <1>1, <2>1, <2>3, <3>1 DEF TypeOK
  <2>. QED
    BY <2>2, <2>3
<1>. QED
  BY <1>1, <1>2

\* Typing when a run stays where it is.
LEMMA StayTyped ==
    ASSUME TypeOK, NEW c \in Commands, Running(c), call' = call, at' = at,
           NEW new \in {"writing", "failed", "killed"},
           status' = [status EXCEPT ![c] = new],
           new = "writing" => Step(c) \in Names
    PROVE  /\ at' \in [Commands -> Nat]
           /\ status' \in [Commands -> {"idle", "running", "writing", "done", "failed", "killed"}]
           /\ status'[c] = new
           /\ \A d \in Commands : d # c => status'[d] = status[d]
           /\ \A d \in Commands :
                /\ IF status'[d] = "done" THEN at'[d] = Len(Steps(d)') + 1
                   ELSE at'[d] \in DOMAIN Steps(d)'
                /\ status'[d] = "writing" => Step(d)' \in Names
           /\ Step(c)' = Step(c)
           /\ \A step : Did(c, step)' <=> Did(c, step)
<1>1. /\ status' \in [Commands -> {"idle", "running", "writing", "done", "failed", "killed"}]
      /\ status'[c] = new
      /\ \A d \in Commands : d # c => status'[d] = status[d]
  BY DEF TypeOK
<1>2. \A d \in Commands : Steps(d)' = Steps(d) /\ Step(d)' = Step(d)
  BY DEF Steps, Step
<1>3. \A step : Did(c, step)' <=> Did(c, step)
  BY DEF Did, Steps
<1>4. \A d \in Commands :
        /\ IF status[d] = "done" THEN at[d] = Len(Steps(d)) + 1 ELSE at[d] \in DOMAIN Steps(d)
        /\ status[d] = "writing" => Step(d) \in Names
  BY DEF TypeOK
<1>5. status[c] # "done"
  BY DEF Running
<1>6. ASSUME NEW d \in Commands
      PROVE  /\ IF status'[d] = "done" THEN at'[d] = Len(Steps(d)') + 1
                 ELSE at'[d] \in DOMAIN Steps(d)'
             /\ status'[d] = "writing" => Step(d)' \in Names
  BY <1>1, <1>2, <1>4, <1>5
<1>. QED
  BY <1>1, <1>2, <1>3, <1>6 DEF TypeOK

\* A step that works on no file (Work, StatFiles).
LEMMA WorkInv ==
    ASSUME JobInv, NEW c \in Commands, Work(c) \/ StatFiles(c)
    PROVE  JobInv'
<1>1. TypeOK /\ CommandInv(c)
  BY DEF JobInv
<1>2. /\ status[c] = "running" /\ Running(c)
      /\ Step(c) \in {"migrate", "search", "stat"}
      /\ Advance(c) /\ call' = call
      /\ UNCHANGED <<files, call, run, seen, faults, alone, faulted>>
  BY DEF Work, StatFiles, Running
<1>3. /\ \A step : Did(c, step)' <=> Did(c, step) \/ step = Step(c)
      /\ \A d \in Commands : d # c => at'[d] = at[d] /\ status'[d] = status[d]
      /\ status'[c] # "writing" /\ status'[c] # "failed"
  BY <1>1, <1>2, AdvanceFacts
<1>4. Others(c)
  BY <1>2, <1>3 DEF Others, GoFile, FileFor
<1>5. KeepsPlace(c)
  BY <1>2 DEF KeepsPlace
<1>6. TypeOK'
  BY <1>1, <1>2, AdvanceTyped DEF TypeOK
<1>7. FilesTyped'
  BY <1>2 DEF JobInv, FilesTyped
<1>8. \A side \in Sides : Did(c, ReadStep(side))' => Did(c, ReadStep(side))
  BY <1>2, <1>3 DEF ReadStep
<1>9. /\ \A side \in Sides : Did(c, side)' => Did(c, side)
      /\ Did(c, "result")' => Did(c, "result")
  BY <1>2, <1>3 DEF Sides
<1>10. \A n \in Names : GoFile(c, n)' = GoFile(c, n)
  BY <1>2 DEF GoFile, FileFor
<1>11. Own(c)' = Own(c) /\ OwnResult(c)' = OwnResult(c)
  BY <1>2 DEF Own, OwnResult
<1>12. ReadsAreArtifacts(c)'
  BY <1>1, <1>2, <1>8 DEF CommandInv, ReadsAreArtifacts
<1>13. KnowsItsFiles(c)'
  BY <1>1, <1>2, <1>3, <1>8, <1>9, <1>10, <1>11 DEF CommandInv, KnowsItsFiles, Names
<1>14. FailsOverFaults(c)'
  BY <1>3 DEF FailsOverFaults
<1>15. CommandInv(c)'
  BY <1>12, <1>13, <1>14 DEF CommandInv
<1>. QED
  BY <1>2, <1>4, <1>5, <1>6, <1>7, <1>15, StepKeeps

\* The engine takes in an artifact (ReadInput).
LEMMA ReadInv ==
    ASSUME JobInv, NEW c \in Commands, ReadInput(c)
    PROVE  JobInv'
<1>1. TypeOK /\ CommandInv(c)
  BY DEF JobInv
<1>. DEFINE it == files[EngineFile(c, Side(c))]
<1>2. /\ status[c] = "running" /\ Running(c)
      /\ Step(c) \in ReadSteps
      /\ Side(c) \in Sides /\ ReadStep(Side(c)) = Step(c)
      /\ it \notin Blank
      /\ seen' = [seen EXCEPT ![c][Side(c)] = it]
      /\ Advance(c) /\ call' = call
      /\ UNCHANGED <<files, call, run, faults, alone, faulted>>
  BY DEF ReadInput, ReadsInput, Readable, Running, Side, Sides, ReadStep, ReadSteps
<1>3. it \in Fingerprints
  <2>1. EngineFile(c, Side(c)) \in Files /\ EngineFile(c, Side(c))[3] = Side(c)
    BY <1>1, <1>2, FileFacts DEF Names
  <2>2. Side(c) # "result"
    BY <1>2 DEF Sides
  <2>. QED
    BY <1>2, <2>1, <2>2 DEF JobInv, FilesTyped
<1>4. ~call[c].relative => it = files[GoFile(c, Side(c))]
  BY <1>1, <1>2, FileFacts DEF Names
<1>. HIDE DEF it
<1>5. /\ \A step : Did(c, step)' <=> Did(c, step) \/ step = Step(c)
      /\ \A d \in Commands : d # c => at'[d] = at[d] /\ status'[d] = status[d]
      /\ status'[c] # "writing" /\ status'[c] # "failed"
  BY <1>1, <1>2, AdvanceFacts
<1>6. /\ seen' \in [Commands -> [Sides -> Fingerprints \union {Nothing}]]
      /\ \A d \in Commands : d # c => seen'[d] = seen[d]
      /\ seen'[c][Side(c)] = it
      /\ \A side \in Sides : side # Side(c) => seen'[c][side] = seen[c][side]
  <2>1. seen \in [Commands -> [Sides -> Fingerprints \union {Nothing}]]
    BY <1>1 DEF TypeOK
  <2>2. seen' = [seen EXCEPT ![c] = [seen[c] EXCEPT ![Side(c)] = it]]
    BY <1>2
  <2>3. [seen[c] EXCEPT ![Side(c)] = it] \in [Sides -> Fingerprints \union {Nothing}]
    BY <1>3, <2>1
  <2>. QED
    BY <1>2, <2>1, <2>2, <2>3
<1>7. Others(c)
  BY <1>2, <1>5, <1>6 DEF Others, GoFile, FileFor
<1>8. KeepsPlace(c)
  BY <1>2 DEF KeepsPlace, ReadSteps
<1>9. TypeOK'
  BY <1>1, <1>2, <1>6, AdvanceTyped DEF TypeOK
<1>10. FilesTyped'
  BY <1>2 DEF JobInv, FilesTyped
<1>11. \A side \in Sides : Did(c, ReadStep(side))' => Did(c, ReadStep(side)) \/ side = Side(c)
  BY <1>2, <1>5 DEF ReadStep, Sides
<1>12. /\ \A side \in Sides : Did(c, side)' => Did(c, side)
       /\ ~Did(c, "result")'
  BY <1>1, <1>2, <1>5, PlaceFacts DEF Sides, ReadSteps
<1>13. \A n \in Names : GoFile(c, n)' = GoFile(c, n)
  BY <1>2 DEF GoFile, FileFor
<1>14. Own(c)' = Own(c)
  BY <1>2 DEF Own
<1>15. ReadsAreArtifacts(c)'
  BY <1>1, <1>3, <1>6, <1>11 DEF CommandInv, ReadsAreArtifacts
<1>16. KnowsItsFiles(c)'
  <2>. SUFFICES ASSUME alone[c], ~call[c].relative
                PROVE  \A side \in Sides :
                        /\ Did(c, side)' => files[GoFile(c, side)] = Own(c)
                        /\ Did(c, ReadStep(side))' => seen'[c][side] = files[GoFile(c, side)]
    BY <1>2, <1>5, <1>12, <1>13, <1>14 DEF KnowsItsFiles, Names
  <2>1. \A side \in Sides :
            /\ Did(c, side) => files[GoFile(c, side)] = Own(c)
            /\ Did(c, ReadStep(side)) => seen[c][side] = files[GoFile(c, side)]
    BY <1>1, <1>2 DEF CommandInv, KnowsItsFiles
  <2>. QED
    BY <1>4, <1>6, <1>11, <1>12, <2>1
<1>17. FailsOverFaults(c)'
  BY <1>5 DEF FailsOverFaults
<1>18. CommandInv(c)'
  BY <1>15, <1>16, <1>17 DEF CommandInv
<1>. QED
  BY <1>2, <1>7, <1>8, <1>9, <1>10, <1>18, StepKeeps

\* What a command writes is a fingerprint or a result of its own (Content).
LEMMA ContentTyped ==
    ASSUME JobInv, NEW c \in Commands, Running(c), Step(c) \in Names
    PROVE  /\ Content(c) = IF Step(c) = "result" THEN OwnResult(c) ELSE Own(c)
           /\ Content(c) \in IF Step(c) = "result" THEN Results ELSE Fingerprints
<1>1. TypeOK /\ ReadsAreArtifacts(c) /\ run[c] \in Nat
  BY DEF JobInv, CommandInv, TypeOK
<1>2. Content(c) = IF Step(c) = "result" THEN OwnResult(c) ELSE Own(c)
  BY DEF Content, OwnResult, Own
<1>3. Own(c) \in Fingerprints
  BY <1>1 DEF Own, Fingerprints
<1>4. ASSUME Step(c) = "result" PROVE OwnResult(c) \in Results
  <2>1. \A side \in Sides : Did(c, ReadStep(side))
    BY <1>1, <1>4, PlaceFacts DEF ReadStep, ReadSteps
  <2>2. seen[c]["source"] \in Fingerprints /\ seen[c]["target"] \in Fingerprints
    BY <1>1, <2>1 DEF ReadsAreArtifacts, Sides
  <2>. QED
    BY <1>1, <2>2 DEF OwnResult, Results
<1>. QED
  BY <1>2, <1>3, <1>4

\* A written file keeps its type (PutFile).
LEMMA WrittenTyped ==
    ASSUME JobInv, NEW c \in Commands, Running(c), Step(c) \in Names,
           NEW content \in {Empty, Torn, Content(c)}, PutFile(c, content)
    PROVE  FilesTyped' /\ files' \in [Files -> Fingerprints \union Results \union Blank]
<1>1. TypeOK /\ FilesTyped
  BY DEF JobInv
<1>2. content \in (IF Step(c) = "result" THEN Results ELSE Fingerprints) \union Blank
  BY ContentTyped DEF Blank
<1>3. /\ files' = [files EXCEPT ![GoFile(c, Step(c))] = content]
      /\ files'[GoFile(c, Step(c))] = content
      /\ \A f \in Files : f # GoFile(c, Step(c)) => files'[f] = files[f]
  BY <1>1, PutFileEffect
<1>4. GoFile(c, Step(c))[3] = Step(c)
  BY <1>1, FileFacts
<1>5. FilesTyped'
  BY <1>1, <1>2, <1>3, <1>4 DEF FilesTyped
<1>6. files' \in [Files -> Fingerprints \union Results \union Blank]
  BY <1>1, <1>2, <1>3 DEF TypeOK
<1>. QED
  BY <1>5, <1>6

\* A result that was just written is earned (WriteFile, StepFails).
LEMMA WrittenEarned ==
    ASSUME JobInv, NEW c \in Commands, Running(c), Step(c) \in Names,
           NEW content \in {Empty, Torn, Content(c)}, PutFile(c, content),
           run' = run, seen' = seen,
           Step(c) = "result" => status'[c] = "done" \/ Step(c)' = "result"
    PROVE  \A f \in Files : f[3] = "result" /\ files'[f] \notin Blank =>
                files'[f] = files[f] \/ Earned(f)'
<1>. SUFFICES ASSUME NEW f \in Files, f[3] = "result", files'[f] \notin Blank, files'[f] # files[f]
              PROVE  Earned(f)'
  OBVIOUS
<1>1. TypeOK
  BY DEF JobInv
<1>2. f = GoFile(c, Step(c)) /\ files'[f] = content
  BY <1>1, PutFileEffect
<1>3. Step(c) = "result"
  BY <1>1, <1>2, FileFacts
<1>4. files'[f] = OwnResult(c)
  BY <1>2, <1>3, ContentTyped DEF Blank
<1>. PICK r : r = OwnResult(c)
  OBVIOUS
<1>5. /\ r.by = c /\ r.run = run[c]
      /\ \A side \in Sides : r[side] = seen[c][side]
  BY DEF OwnResult, Sides
<1>6. run[c] \in Nat
  BY <1>1 DEF TypeOK
<1>7. files'[f] = r
  BY <1>4
<1>8. run'[r.by] = run[c] /\ seen'[r.by] = seen[c]
  BY <1>5
<1>9. status'[r.by] = "done" \/ Step(r.by)' = "result"
  <2>1. Step(r.by)' = Step(c)'
    BY <1>5 DEF Step, Steps
  <2>. QED
    BY <1>3, <1>5, <2>1
<1>10. Earned(f)' <=>
        /\ r.run <= run'[r.by]
        /\ r.run = run'[r.by] =>
            /\ status'[r.by] = "done" \/ Step(r.by)' = "result"
            /\ \A side \in Sides : r[side] = seen'[r.by][side]
  BY <1>7 DEF Earned, Step, Steps
<1>. QED
  BY <1>5, <1>6, <1>8, <1>9, <1>10

\* A file is truncated: what the run wrote and read before is elsewhere (OpenFile).
LEMMA OpenInv ==
    ASSUME JobInv, NEW c \in Commands, OpenFile(c)
    PROVE  JobInv'
<1>1. TypeOK /\ CommandInv(c)
  BY DEF JobInv
<1>2. /\ status[c] = "running" /\ Running(c) /\ Step(c) \in Names
      /\ PutFile(c, Empty)
      /\ status' = [status EXCEPT ![c] = "writing"]
      /\ UNCHANGED <<call, at, run, seen, faults, faulted>>
  BY DEF OpenFile, Running
<1>3. /\ \A step : Did(c, step)' <=> Did(c, step)
      /\ Step(c)' = Step(c)
      /\ status'[c] = "writing"
      /\ \A d \in Commands : d # c => status'[d] = status[d]
  BY <1>1, <1>2, StayTyped
<1>4. /\ files'[GoFile(c, Step(c))] = Empty
      /\ \A n \in Names : n # Step(c) => files'[GoFile(c, n)] = files[GoFile(c, n)]
      /\ alone' \in [Commands -> BOOLEAN] /\ alone'[c] = alone[c]
      /\ \A d \in Commands : d # c /\ alone'[d] =>
            alone[d] /\ \A n \in Names : files'[GoFile(d, n)] = files[GoFile(d, n)]
  BY <1>1, <1>2, PutFileEffect
<1>5. Others(c)
  BY <1>2, <1>3, <1>4 DEF Others
<1>6. KeepsPlace(c)
  BY <1>2, <1>3 DEF KeepsPlace
<1>7. FilesTyped' /\ files' \in [Files -> Fingerprints \union Results \union Blank]
  BY <1>2, WrittenTyped
<1>8. TypeOK'
  <2>1. /\ at' \in [Commands -> Nat]
        /\ status' \in [Commands -> {"idle", "running", "writing", "done", "failed", "killed"}]
        /\ \A d \in Commands :
            /\ IF status'[d] = "done" THEN at'[d] = Len(Steps(d)') + 1
               ELSE at'[d] \in DOMAIN Steps(d)'
            /\ status'[d] = "writing" => Step(d)' \in Names
    BY <1>1, <1>2, StayTyped
  <2>. QED
    BY <1>1, <1>2, <1>4, <1>7, <2>1 DEF TypeOK
<1>9. \A n \in Names : GoFile(c, n)' = GoFile(c, n)
  BY <1>2 DEF GoFile, FileFor
<1>10. GoFile(c, Step(c))' = GoFile(c, Step(c))
  BY <1>2, <1>3 DEF GoFile, FileFor
<1>11. Own(c)' = Own(c)
  BY <1>2 DEF Own
<1>12. /\ ~Did(c, Step(c)) /\ ~Did(c, "result")
       /\ Step(c) \in Sides => \A step \in ReadSteps : ~Did(c, step)
  BY <1>1, <1>2, PlaceFacts
<1>13. ReadsAreArtifacts(c)'
  BY <1>1, <1>2, <1>3 DEF CommandInv, ReadsAreArtifacts
<1>14. KnowsItsFiles(c)'
  <2>. SUFFICES ASSUME alone[c], ~call[c].relative
                PROVE  \A side \in Sides :
                        /\ Did(c, side) => files'[GoFile(c, side)] = Own(c)
                        /\ Did(c, ReadStep(side)) => seen[c][side] = files'[GoFile(c, side)]
    BY <1>2, <1>3, <1>4, <1>9, <1>10, <1>11, <1>12 DEF KnowsItsFiles, Names
  <2>1. \A side \in Sides :
            /\ Did(c, side) => files[GoFile(c, side)] = Own(c)
            /\ Did(c, ReadStep(side)) => seen[c][side] = files[GoFile(c, side)]
    BY <1>1, <1>2 DEF CommandInv, KnowsItsFiles
  <2>2. \A side \in Sides : Did(c, ReadStep(side)) => Step(c) \notin Sides
    BY <1>12 DEF ReadStep, ReadSteps
  <2>3. \A side \in Sides : Did(c, side) \/ Did(c, ReadStep(side)) => side # Step(c)
    BY <1>12, <2>2
  <2>4. Sides \subseteq Names
    BY DEF Names
  <2>. QED
    BY <1>4, <2>1, <2>3, <2>4
<1>15. FailsOverFaults(c)'
  BY <1>3 DEF FailsOverFaults
<1>16. CommandInv(c)'
  BY <1>13, <1>14, <1>15 DEF CommandInv
<1>17. \A f \in Files : f[3] = "result" /\ files'[f] \notin Blank =>
            files'[f] = files[f] \/ Earned(f)'
  BY <1>2, <1>3, WrittenEarned
<1>. QED
  BY <1>5, <1>6, <1>7, <1>8, <1>16, <1>17, StepKeeps

\* A file is filled; torn only if someone else was at it (WriteFile).
LEMMA WriteInv ==
    ASSUME JobInv, NEW c \in Commands, WriteFile(c)
    PROVE  JobInv'
<1>1. TypeOK /\ CommandInv(c)
  BY DEF JobInv
<1>2. /\ status[c] = "writing" /\ Running(c) /\ Step(c) \in Names
      /\ Advance(c) /\ call' = call
      /\ UNCHANGED <<call, run, seen, faults, faulted>>
  BY <1>1 DEF WriteFile, Running, TypeOK
<1>3. PICK content \in {Empty, Torn, Content(c)} :
        /\ PutFile(c, content)
        /\ content = Content(c) \/ files[GoFile(c, Step(c))] # Empty
  BY DEF WriteFile
<1>4. /\ \A step : Did(c, step)' <=> Did(c, step) \/ step = Step(c)
      /\ \A d \in Commands : d # c => at'[d] = at[d] /\ status'[d] = status[d]
      /\ status'[c] # "writing" /\ status'[c] # "failed"
      /\ at[c] = Len(Steps(c)) => status'[c] = "done"
  BY <1>1, <1>2, AdvanceFacts
<1>5. /\ files'[GoFile(c, Step(c))] = content
      /\ \A n \in Names : n # Step(c) => files'[GoFile(c, n)] = files[GoFile(c, n)]
      /\ alone' \in [Commands -> BOOLEAN] /\ alone'[c] = alone[c]
      /\ \A d \in Commands : d # c /\ alone'[d] =>
            alone[d] /\ \A n \in Names : files'[GoFile(d, n)] = files[GoFile(d, n)]
  BY <1>1, <1>2, <1>3, PutFileEffect
<1>6. /\ ~Did(c, Step(c)) /\ ~Did(c, "result")
      /\ Step(c) \in Sides => \A step \in ReadSteps : ~Did(c, step)
      /\ Step(c) = "result" => at[c] = Len(Steps(c))
  BY <1>1, <1>2, PlaceFacts
<1>7. Others(c)
  BY <1>2, <1>4, <1>5 DEF Others
<1>8. KeepsPlace(c)
  BY <1>2, <1>4, <1>6 DEF KeepsPlace
<1>9. FilesTyped' /\ files' \in [Files -> Fingerprints \union Results \union Blank]
  BY <1>2, <1>3, WrittenTyped
<1>10. TypeOK'
  <2>1. /\ at' \in [Commands -> Nat]
        /\ status' \in [Commands -> {"idle", "running", "writing", "done", "failed", "killed"}]
        /\ \A d \in Commands :
            /\ IF status'[d] = "done" THEN at'[d] = Len(Steps(d)') + 1
               ELSE at'[d] \in DOMAIN Steps(d)'
            /\ status'[d] = "writing" => Step(d)' \in Names
    BY <1>1, <1>2, AdvanceTyped
  <2>. QED
    BY <1>1, <1>2, <1>5, <1>9, <2>1 DEF TypeOK
<1>11. \A n \in Names : GoFile(c, n)' = GoFile(c, n)
  BY <1>2 DEF GoFile, FileFor
<1>12. Own(c)' = Own(c) /\ OwnResult(c)' = OwnResult(c)
  BY <1>2 DEF Own, OwnResult
<1>13. \A side \in Sides : Did(c, ReadStep(side))' => Did(c, ReadStep(side))
  BY <1>2, <1>4 DEF ReadStep, Names, Sides
<1>14. ReadsAreArtifacts(c)'
  BY <1>1, <1>2, <1>13 DEF CommandInv, ReadsAreArtifacts
<1>15. KnowsItsFiles(c)'
  <2>. SUFFICES ASSUME alone[c], ~call[c].relative
                PROVE  /\ \A side \in Sides :
                            /\ Did(c, side)' => files'[GoFile(c, side)] = Own(c)
                            /\ Did(c, ReadStep(side))' => seen[c][side] = files'[GoFile(c, side)]
                       /\ Did(c, "result")' => files'[GoFile(c, "result")] = OwnResult(c)
    BY <1>2, <1>4, <1>5, <1>11, <1>12 DEF KnowsItsFiles, Names
  <2>1. /\ \A side \in Sides :
            /\ Did(c, side) => files[GoFile(c, side)] = Own(c)
            /\ Did(c, ReadStep(side)) => seen[c][side] = files[GoFile(c, side)]
        /\ files[GoFile(c, Step(c))] = Empty
    BY <1>1, <1>2 DEF CommandInv, KnowsItsFiles
  <2>2. files'[GoFile(c, Step(c))] = IF Step(c) = "result" THEN OwnResult(c) ELSE Own(c)
    BY <1>2, <1>3, <1>5, <2>1, ContentTyped
  <2>3. Sides \subseteq Names /\ "result" \notin Sides
    BY DEF Names, Sides
  <2>4. \A side \in Sides : Did(c, side)' => files'[GoFile(c, side)] = Own(c)
    BY <1>4, <1>5, <2>1, <2>2, <2>3
  <2>5. \A side \in Sides : Did(c, ReadStep(side)) => Step(c) \notin Sides
    BY <1>6 DEF ReadStep, ReadSteps
  <2>6. \A side \in Sides : Did(c, ReadStep(side))' => seen[c][side] = files'[GoFile(c, side)]
    BY <1>5, <1>13, <2>1, <2>3, <2>5
  <2>7. Did(c, "result")' => files'[GoFile(c, "result")] = OwnResult(c)
    BY <1>4, <1>6, <2>2
  <2>. QED
    BY <2>4, <2>6, <2>7
<1>16. FailsOverFaults(c)'
  BY <1>4 DEF FailsOverFaults
<1>17. CommandInv(c)'
  BY <1>14, <1>15, <1>16 DEF CommandInv
<1>18. \A f \in Files : f[3] = "result" /\ files'[f] \notin Blank =>
            files'[f] = files[f] \/ Earned(f)'
  BY <1>2, <1>3, <1>4, <1>6, WrittenEarned
<1>. QED
  BY <1>7, <1>8, <1>9, <1>10, <1>17, <1>18, StepKeeps

\* A run that ends without having come to its end (StepRefused, StepFails, Kill).
LEMMA EndInv ==
    ASSUME JobInv, NEW c \in Commands, Running(c),
           NEW end \in {"failed", "killed"}, status' = [status EXCEPT ![c] = end],
           UNCHANGED <<call, at, run, seen>>,
           faults' \in 0..MaxFaults,
           faulted' \in [Commands -> BOOLEAN],
           \A d \in Commands : d # c => faulted'[d] = faulted[d],
           \/ UNCHANGED <<files, alone>>
           \/ Step(c) \in Names /\ \E left \in {Empty, Torn, Content(c)} : PutFile(c, left),
           FailsOverFaults(c)'
    PROVE  JobInv'
<1>1. TypeOK /\ CommandInv(c)
  BY DEF JobInv
<1>2. /\ \A step : Did(c, step)' <=> Did(c, step)
      /\ Step(c)' = Step(c)
      /\ status'[c] = end
      /\ \A d \in Commands : d # c => status'[d] = status[d]
      /\ at' \in [Commands -> Nat]
      /\ status' \in [Commands -> {"idle", "running", "writing", "done", "failed", "killed"}]
      /\ \A d \in Commands :
            /\ IF status'[d] = "done" THEN at'[d] = Len(Steps(d)') + 1
               ELSE at'[d] \in DOMAIN Steps(d)'
            /\ status'[d] = "writing" => Step(d)' \in Names
  BY <1>1, StayTyped
<1>3. /\ FilesTyped' /\ files' \in [Files -> Fingerprints \union Results \union Blank]
      /\ alone' \in [Commands -> BOOLEAN]
      /\ \A d \in Commands : d # c /\ alone'[d] =>
            alone[d] /\ \A n \in Names : files'[GoFile(d, n)] = files[GoFile(d, n)]
      /\ \A f \in Files : f[3] = "result" /\ files'[f] \notin Blank =>
            files'[f] = files[f] \/ Earned(f)'
  <2>1. CASE UNCHANGED <<files, alone>>
    BY <1>1, <2>1 DEF JobInv, FilesTyped, TypeOK
  <2>2. CASE Step(c) \in Names /\ \E left \in {Empty, Torn, Content(c)} : PutFile(c, left)
    <3>1. PICK left \in {Empty, Torn, Content(c)} : PutFile(c, left)
      BY <2>2
    <3>2. FilesTyped' /\ files' \in [Files -> Fingerprints \union Results \union Blank]
      BY <2>2, <3>1, WrittenTyped
    <3>3. \A f \in Files : f[3] = "result" /\ files'[f] \notin Blank =>
            files'[f] = files[f] \/ Earned(f)'
      BY <1>2, <2>2, <3>1, WrittenEarned
    <3>4. /\ alone' \in [Commands -> BOOLEAN]
          /\ \A d \in Commands : d # c /\ alone'[d] =>
                alone[d] /\ \A n \in Names : files'[GoFile(d, n)] = files[GoFile(d, n)]
      BY <1>1, <2>2, <3>1, PutFileEffect
    <3>. QED
      BY <3>2, <3>3, <3>4
  <2>. QED
    BY <2>1, <2>2
<1>4. Others(c)
  BY <1>2, <1>3 DEF Others
<1>5. KeepsPlace(c)
  BY <1>2 DEF KeepsPlace, Running
<1>6. TypeOK'
  BY <1>1, <1>2, <1>3 DEF TypeOK
<1>7. ReadsAreArtifacts(c)'
  BY <1>1, <1>2 DEF CommandInv, ReadsAreArtifacts
<1>8. KnowsItsFiles(c)'
  BY <1>2 DEF KnowsItsFiles
<1>9. CommandInv(c)'
  BY <1>7, <1>8 DEF CommandInv
<1>. QED
  BY <1>3, <1>4, <1>5, <1>6, <1>9, StepKeeps

\* Left alone, only compare-artifacts looks for files that are not there
\* (Refused): every other command has written them itself.
LEMMA RefusedInv ==
    ASSUME JobInv, NEW c \in Commands, StepRefused(c)
    PROVE  JobInv'
<1>1. TypeOK /\ CommandInv(c) /\ faults \in 0..MaxFaults /\ faulted \in [Commands -> BOOLEAN]
  BY DEF JobInv, TypeOK
<1>2. /\ status[c] = "running" /\ Running(c)
      /\ status' = [status EXCEPT ![c] = "failed"]
      /\ UNCHANGED <<files, call, at, run, seen, faults, alone, faulted>>
  BY DEF StepRefused, Refused, ReadsInput, Running
<1>3. FailsOverFaults(c)'
  <2>. SUFFICES ASSUME alone[c], ~call[c].relative, call[c].cwd = "repository",
                       call[c].kind # "compare-artifacts"
                PROVE  FALSE
    BY <1>2 DEF FailsOverFaults
  <2>1. Step(c) \in {"stat"} \union ReadSteps
    BY DEF StepRefused, Refused, ReadsInput, ReadSteps
  <2>2. \A side \in Sides : Did(c, side)
    BY <1>1, <1>2, <2>1, PlaceFacts
  <2>3. \A side \in Sides : files[GoFile(c, side)] = Own(c)
    BY <1>1, <1>2, <2>2 DEF CommandInv, KnowsItsFiles
  <2>4. Own(c) \notin Blank
    BY <1>1, JobAssumption DEF Own, Fingerprints, TypeOK
  <2>5. CASE Step(c) = "stat"
    <3>1. \E side \in Sides : files[GoFile(c, side)] = NoFile
      BY <2>5 DEF StepRefused, Refused, ReadsInput
    <3>. QED
      BY <2>3, <2>4, <3>1 DEF Blank
  <2>6. CASE Step(c) \in ReadSteps
    <3>1. files[EngineFile(c, Side(c))] \in Blank
      BY <2>6 DEF StepRefused, Refused, ReadsInput, ReadSteps, Readable
    <3>2. Side(c) \in Sides /\ Sides \subseteq Names
      BY DEF Side, Sides, Names
    <3>3. EngineFile(c, Side(c)) = GoFile(c, Side(c))
      BY <1>1, <3>2, FileFacts
    <3>. QED
      BY <2>3, <2>4, <3>1, <3>2, <3>3
  <2>. QED
    BY <2>1, <2>5, <2>6
<1>. QED
  BY <1>1, <1>2, <1>3, EndInv

\* An error or a kill (Fault).
LEMMA FaultInv ==
    ASSUME JobInv, NEW c \in Commands, StepFails(c) \/ Kill(c)
    PROVE  JobInv'
<1>1. TypeOK
  BY DEF JobInv
<1>2. PICK end \in {"failed", "killed"} :
        /\ Running(c) /\ faults < MaxFaults /\ faults' = faults + 1
        /\ faulted' = [faulted EXCEPT ![c] = TRUE]
        /\ status' = [status EXCEPT ![c] = end]
        /\ UNCHANGED <<call, at, run, seen>>
  BY DEF StepFails, Kill, Fault
<1>3. faults' \in 0..MaxFaults
  BY <1>1, <1>2, JobAssumption DEF TypeOK
<1>4. /\ faulted' \in [Commands -> BOOLEAN] /\ faulted'[c]
      /\ \A d \in Commands : d # c => faulted'[d] = faulted[d]
  BY <1>1, <1>2 DEF TypeOK
<1>5. \/ UNCHANGED <<files, alone>>
      \/ Step(c) \in Names /\ \E left \in {Empty, Torn, Content(c)} : PutFile(c, left)
  BY <1>1 DEF StepFails, Kill, TypeOK
<1>6. FailsOverFaults(c)'
  BY <1>4 DEF FailsOverFaults
<1>. QED
  BY <1>2, <1>3, <1>4, <1>5, <1>6, EndInv

\* Every step of every command (Next).
LEMMA NextInv ==
    ASSUME JobInv, [Next]_vars
    PROVE  JobInv'
<1>1. CASE Next
  <2>1. PICK c \in Commands :
            \/ Start(c) \/ Work(c) \/ StatFiles(c) \/ OpenFile(c) \/ WriteFile(c)
            \/ ReadInput(c) \/ StepRefused(c) \/ StepFails(c) \/ Kill(c)
    BY <1>1 DEF Next
  <2>. QED
    BY <2>1, StartInv, WorkInv, OpenInv, WriteInv, ReadInv, RefusedInv, FaultInv
<1>2. CASE UNCHANGED vars
  <2>1. TypeOK' /\ FilesTyped' /\ AllEarned'
    BY <1>2 DEF JobInv, vars, TypeOK, FilesTyped, AllEarned, Earned, Steps, Step
  <2>2. ASSUME NEW c \in Commands PROVE CommandInv(c)'
    BY <1>2 DEF JobInv, vars, CommandInv, ReadsAreArtifacts, KnowsItsFiles, FailsOverFaults,
                Did, Steps, Step, GoFile, FileFor, Own, OwnResult
  <2>. QED
    BY <2>1, <2>2 DEF JobInv
<1>. QED
  BY <1>1, <1>2

\* The inductive invariant holds of every reachable state.
THEOREM JobInvariant == Spec => []JobInv
<1>. QED
  BY InitInv, NextInv, PTL DEF Spec

-----------------------------------------------------------------------------
(* What follows.  *)

\* Every variable keeps its type, and a run stays within its program.
THEOREM JobsTypeCorrect == Spec => []TypeOK
<1>1. JobInv => TypeOK
  BY DEF JobInv
<1>. QED
  BY <1>1, JobInvariant, PTL

\* A success that was left alone is true of the files it names
\* (runOfflineVerify, runCompareArtifacts, runMigrateAndVerify).
THEOREM SuccessTellsTheTruth == Spec => []SuccessIsTrue
<1>1. ASSUME JobInv PROVE SuccessIsTrue
  <2>. SUFFICES ASSUME NEW c \in Commands, status[c] = "done", alone[c], ~call[c].relative
                PROVE  SaysTheTruth(c)
    BY DEF SuccessIsTrue
  <2>1. TypeOK /\ KnowsItsFiles(c)
    BY <1>1 DEF JobInv, CommandInv
  <2>2. WellOrdered(call[c].kind, Steps(c)) /\ at[c] = Len(Steps(c)) + 1
    BY <2>1, StepsOrdered DEF TypeOK
  <2>3. \A step : Does(c, step) => Did(c, step)
    <3>1. PICK n \in Nat : Len(Steps(c)) = n /\ DOMAIN Steps(c) = 1..n
      BY <2>2 DEF WellOrdered
    <3>2. \A i \in 1..n : i < n + 1
      OBVIOUS
    <3>. QED
      BY <2>2, <3>1, <3>2 DEF Does, Did
  <2>4. /\ \A side \in Sides :
            /\ Did(c, side) => files[GoFile(c, side)] = Own(c)
            /\ Did(c, ReadStep(side)) => seen[c][side] = files[GoFile(c, side)]
        /\ Did(c, "result") => files[GoFile(c, "result")] = OwnResult(c)
    BY <2>1 DEF KnowsItsFiles
  <2>5. Does(c, "result") => \A side \in Sides : Does(c, ReadStep(side))
    BY <2>2 DEF WellOrdered, Does, ReadStep, ReadSteps
  <2>. QED
    BY <2>3, <2>4, <2>5 DEF SaysTheTruth, Own, OwnResult, Sides
<1>. QED
  BY <1>1, JobInvariant, PTL

\* Whoever shares the job, a result names two complete artifacts, those its
\* writer read, and its writer got as far (OfflinePipeline.Run).
THEOREM ResultsEarned == Spec => []ResultsAreEarned
<1>1. ASSUME JobInv PROVE ResultsAreEarned
  <2>. SUFFICES ASSUME NEW f \in Files, f[3] = "result", files[f] \notin Blank
                PROVE  LET r == files[f] IN
                       /\ {r.source, r.target} \subseteq Fingerprints
                       /\ r.run = run[r.by] =>
                            /\ status[r.by] = "done" \/ Step(r.by) = "result"
                            /\ r.source = seen[r.by]["source"] /\ r.target = seen[r.by]["target"]
    BY DEF ResultsAreEarned
  <2>1. files[f] \in Results /\ Earned(f)
    BY <1>1 DEF JobInv, FilesTyped, AllEarned
  <2>. QED
    BY <2>1 DEF Results, Earned, Sides
<1>. QED
  BY <1>1, JobInvariant, PTL

\* A verification that built its artifacts itself fails only over a fault,
\* another command, or a place where the engine cannot find them.
THEOREM FaultsAloneFail == Spec => []OnlyFaultsFail
<1>1. JobInv => OnlyFaultsFail
  BY DEF JobInv, CommandInv, FailsOverFaults, OnlyFaultsFail
<1>. QED
  BY <1>1, JobInvariant, PTL
=============================================================================
