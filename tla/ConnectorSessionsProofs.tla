---------------------- MODULE ConnectorSessionsProofs ----------------------
(***************************************************************************)
(* What ConnectorSessions promises about connections holds for any number  *)
(* of processes and callers, whatever limit PostgreSQL has.                *)
(*                                                                         *)
(* The argument has two halves.  The programs are constants: each section  *)
(* defers Close before its first call, and the checks come before it       *)
(* (the lemmas on programs).  The invariant then says of a process that    *)
(* what it has open belongs to its section and that a call was reached,    *)
(* and of a caller what a closed client has become.  That nobody is        *)
(* refused a connection there is room for takes a count of the connections *)
(* open at once, in a second invariant built on the first (RoomInv).       *)
(***************************************************************************)
EXTENDS ConnectorSessions, FiniteSetTheorems, TLAPS

Steps == Checks \union Calls \union {"output"}

-----------------------------------------------------------------------------
(* The programs.  *)

\* Close is deferred no later than before the first call, or right after a
\* Milvus connect that is that call, and a Milvus client is connected before
\* all other calls.
WellOrdered(s) ==
    /\ s.on \in Clients
    /\ s.steps \in Seq(Steps)
    /\ s.before \in Nat
    /\ s.on \notin {"writer", "memory"} => \A i \in DOMAIN s.steps : s.steps[i] \in Calls =>
        i > s.before \/ (i = s.before /\ s.on \in Milvus)
    /\ s.on \in Milvus => \A i, j \in DOMAIN s.steps :
        s.steps[i] = "connect" /\ s.steps[j] \in Calls => i <= j

\* Each of the checks is there and comes before every call.
ChecksFirst(s, checks) ==
    \A c \in checks : \E i \in DOMAIN s.steps :
        s.steps[i] = c /\ \A j \in DOMAIN s.steps : s.steps[j] \in Calls => i < j

\* The checks a command makes before its first call.
EarlyChecks(k) ==
    {"flags"} \union
    (IF k \in {"migrate", "migrate-and-verify"} THEN {} ELSE {"fixture"}) \union
    (IF k \in {"seed-milvus", "offline-verify"} THEN {} ELSE {"names"}) \union
    (IF k = "seed-pgvector" THEN {"dataset"} ELSE {})

\* The section of search-milvus (SearchMilvus).
LEMMA SearchMilvusSection ==
    /\ Len(SearchMilvus) = 1 /\ DOMAIN SearchMilvus = 1..1
    /\ WellOrdered(SearchMilvus[1])
    /\ ChecksFirst(SearchMilvus[1], {"flags", "fixture", "names"})
<1>. DEFINE st == <<"flags", "fixture", "names", "connect", "count", "search">>
<1>1. /\ Len(SearchMilvus) = 1 /\ DOMAIN SearchMilvus = 1..1
      /\ SearchMilvus[1] = [on |-> "milvus", steps |-> st, before |-> 3]
  BY DEF SearchMilvus, Section
<1>2. /\ DOMAIN st = 1..6
      /\ st[1] = "flags" /\ st[2] = "fixture" /\ st[3] = "names" /\ st[4] = "connect" /\ st[5] = "count" /\ st[6] = "search"
  OBVIOUS
<1>3. st \in Seq(Steps)
  BY DEF Steps, Checks, Calls
<1>4. SearchMilvus[1].on = "milvus" /\ SearchMilvus[1].before = 3 /\ SearchMilvus[1].steps = st
  BY <1>1
<1>. HIDE DEF st
<1>5. \A i \in DOMAIN st : st[i] \in Calls => i > 3 \/ (i = 3 /\ "milvus" \in Milvus)
  BY <1>2 DEF Calls, Milvus
<1>6. \A i, j \in DOMAIN st : st[i] = "connect" /\ st[j] \in Calls => i <= j
  BY <1>2 DEF Calls
<1>7. ChecksFirst(SearchMilvus[1], {"flags", "fixture", "names"})
  BY <1>2, <1>4 DEF ChecksFirst, Calls
<1>. QED
  BY <1>1, <1>3, <1>4, <1>5, <1>6, <1>7 DEF WellOrdered, Clients, Milvus, Postgres

\* The section of search-pgvector (SearchPGVector).
LEMMA SearchPGVectorSection ==
    /\ Len(SearchPGVector) = 1 /\ DOMAIN SearchPGVector = 1..1
    /\ WellOrdered(SearchPGVector[1])
    /\ ChecksFirst(SearchPGVector[1], {"flags", "fixture", "names"})
<1>. DEFINE st == <<"flags", "fixture", "names", "connect", "count", "search">>
<1>1. /\ Len(SearchPGVector) = 1 /\ DOMAIN SearchPGVector = 1..1
      /\ SearchPGVector[1] = [on |-> "pgvector", steps |-> st, before |-> 3]
  BY DEF SearchPGVector, Section
<1>2. /\ DOMAIN st = 1..6
      /\ st[1] = "flags" /\ st[2] = "fixture" /\ st[3] = "names" /\ st[4] = "connect" /\ st[5] = "count" /\ st[6] = "search"
  OBVIOUS
<1>3. st \in Seq(Steps)
  BY DEF Steps, Checks, Calls
<1>4. SearchPGVector[1].on = "pgvector" /\ SearchPGVector[1].before = 3 /\ SearchPGVector[1].steps = st
  BY <1>1
<1>. HIDE DEF st
<1>5. \A i \in DOMAIN st : st[i] \in Calls => i > 3 \/ (i = 3 /\ "pgvector" \in Milvus)
  BY <1>2 DEF Calls, Milvus
<1>6. "pgvector" \notin Milvus
  BY DEF Milvus
<1>7. ChecksFirst(SearchPGVector[1], {"flags", "fixture", "names"})
  BY <1>2, <1>4 DEF ChecksFirst, Calls
<1>. QED
  BY <1>1, <1>3, <1>4, <1>5, <1>6, <1>7 DEF WellOrdered, Clients, Milvus, Postgres

\* The section of build-milvus-artifact (BuildMilvusArtifact).
LEMMA BuildMilvusArtifactSection ==
    /\ Len(BuildMilvusArtifact) = 1 /\ DOMAIN BuildMilvusArtifact = 1..1
    /\ WellOrdered(BuildMilvusArtifact[1])
    /\ ChecksFirst(BuildMilvusArtifact[1], {"flags", "fixture", "names"})
<1>. DEFINE st == <<"flags", "fixture", "names", "connect", "search", "output">>
<1>1. /\ Len(BuildMilvusArtifact) = 1 /\ DOMAIN BuildMilvusArtifact = 1..1
      /\ BuildMilvusArtifact[1] = [on |-> "milvus", steps |-> st, before |-> 3]
  BY DEF BuildMilvusArtifact, Section
<1>2. /\ DOMAIN st = 1..6
      /\ st[1] = "flags" /\ st[2] = "fixture" /\ st[3] = "names" /\ st[4] = "connect" /\ st[5] = "search" /\ st[6] = "output"
  OBVIOUS
<1>3. st \in Seq(Steps)
  BY DEF Steps, Checks, Calls
<1>4. BuildMilvusArtifact[1].on = "milvus" /\ BuildMilvusArtifact[1].before = 3 /\ BuildMilvusArtifact[1].steps = st
  BY <1>1
<1>. HIDE DEF st
<1>5. \A i \in DOMAIN st : st[i] \in Calls => i > 3 \/ (i = 3 /\ "milvus" \in Milvus)
  BY <1>2 DEF Calls, Milvus
<1>6. \A i, j \in DOMAIN st : st[i] = "connect" /\ st[j] \in Calls => i <= j
  BY <1>2 DEF Calls
<1>7. ChecksFirst(BuildMilvusArtifact[1], {"flags", "fixture", "names"})
  BY <1>2, <1>4 DEF ChecksFirst, Calls
<1>. QED
  BY <1>1, <1>3, <1>4, <1>5, <1>6, <1>7 DEF WellOrdered, Clients, Milvus, Postgres

\* The section of build-pgvector-artifact (BuildPGVectorArtifact).
LEMMA BuildPGVectorArtifactSection ==
    /\ Len(BuildPGVectorArtifact) = 1 /\ DOMAIN BuildPGVectorArtifact = 1..1
    /\ WellOrdered(BuildPGVectorArtifact[1])
    /\ ChecksFirst(BuildPGVectorArtifact[1], {"flags", "fixture", "names"})
<1>. DEFINE st == <<"flags", "fixture", "names", "connect", "search", "output">>
<1>1. /\ Len(BuildPGVectorArtifact) = 1 /\ DOMAIN BuildPGVectorArtifact = 1..1
      /\ BuildPGVectorArtifact[1] = [on |-> "pgvector", steps |-> st, before |-> 3]
  BY DEF BuildPGVectorArtifact, Section
<1>2. /\ DOMAIN st = 1..6
      /\ st[1] = "flags" /\ st[2] = "fixture" /\ st[3] = "names" /\ st[4] = "connect" /\ st[5] = "search" /\ st[6] = "output"
  OBVIOUS
<1>3. st \in Seq(Steps)
  BY DEF Steps, Checks, Calls
<1>4. BuildPGVectorArtifact[1].on = "pgvector" /\ BuildPGVectorArtifact[1].before = 3 /\ BuildPGVectorArtifact[1].steps = st
  BY <1>1
<1>. HIDE DEF st
<1>5. \A i \in DOMAIN st : st[i] \in Calls => i > 3 \/ (i = 3 /\ "pgvector" \in Milvus)
  BY <1>2 DEF Calls, Milvus
<1>6. "pgvector" \notin Milvus
  BY DEF Milvus
<1>7. ChecksFirst(BuildPGVectorArtifact[1], {"flags", "fixture", "names"})
  BY <1>2, <1>4 DEF ChecksFirst, Calls
<1>. QED
  BY <1>1, <1>3, <1>4, <1>5, <1>6, <1>7 DEF WellOrdered, Clients, Milvus, Postgres

\* The section of seed-milvus (SeedMilvus).
LEMMA SeedMilvusSection ==
    /\ Len(SeedMilvus) = 1 /\ DOMAIN SeedMilvus = 1..1
    /\ WellOrdered(SeedMilvus[1])
    /\ ChecksFirst(SeedMilvus[1], {"flags", "fixture"})
<1>. DEFINE st == <<"flags", "fixture", "connect", "names", "dataset", "write">>
<1>1. /\ Len(SeedMilvus) = 1 /\ DOMAIN SeedMilvus = 1..1
      /\ SeedMilvus[1] = [on |-> "milvusSeed", steps |-> st, before |-> 3]
  BY DEF SeedMilvus, Section
<1>2. /\ DOMAIN st = 1..6
      /\ st[1] = "flags" /\ st[2] = "fixture" /\ st[3] = "connect" /\ st[4] = "names" /\ st[5] = "dataset" /\ st[6] = "write"
  OBVIOUS
<1>3. st \in Seq(Steps)
  BY DEF Steps, Checks, Calls
<1>4. SeedMilvus[1].on = "milvusSeed" /\ SeedMilvus[1].before = 3 /\ SeedMilvus[1].steps = st
  BY <1>1
<1>. HIDE DEF st
<1>5. \A i \in DOMAIN st : st[i] \in Calls => i > 3 \/ (i = 3 /\ "milvusSeed" \in Milvus)
  BY <1>2 DEF Calls, Milvus
<1>6. \A i, j \in DOMAIN st : st[i] = "connect" /\ st[j] \in Calls => i <= j
  BY <1>2 DEF Calls
<1>7. ChecksFirst(SeedMilvus[1], {"flags", "fixture"})
  BY <1>2, <1>4 DEF ChecksFirst, Calls
<1>. QED
  BY <1>1, <1>3, <1>4, <1>5, <1>6, <1>7 DEF WellOrdered, Clients, Milvus, Postgres

\* The section of seed-pgvector (SeedPGVector).
LEMMA SeedPGVectorSection ==
    /\ Len(SeedPGVector) = 1 /\ DOMAIN SeedPGVector = 1..1
    /\ WellOrdered(SeedPGVector[1])
    /\ ChecksFirst(SeedPGVector[1], {"flags", "fixture", "names", "dataset"})
<1>. DEFINE st == <<"flags", "fixture", "names", "dataset", "write">>
<1>1. /\ Len(SeedPGVector) = 1 /\ DOMAIN SeedPGVector = 1..1
      /\ SeedPGVector[1] = [on |-> "pgvectorSeed", steps |-> st, before |-> 3]
  BY DEF SeedPGVector, Section
<1>2. /\ DOMAIN st = 1..5
      /\ st[1] = "flags" /\ st[2] = "fixture" /\ st[3] = "names" /\ st[4] = "dataset" /\ st[5] = "write"
  OBVIOUS
<1>3. st \in Seq(Steps)
  BY DEF Steps, Checks, Calls
<1>4. SeedPGVector[1].on = "pgvectorSeed" /\ SeedPGVector[1].before = 3 /\ SeedPGVector[1].steps = st
  BY <1>1
<1>. HIDE DEF st
<1>5. \A i \in DOMAIN st : st[i] \in Calls => i > 3 \/ (i = 3 /\ "pgvectorSeed" \in Milvus)
  BY <1>2 DEF Calls, Milvus
<1>6. "pgvectorSeed" \notin Milvus
  BY DEF Milvus
<1>7. ChecksFirst(SeedPGVector[1], {"flags", "fixture", "names", "dataset"})
  BY <1>2, <1>4 DEF ChecksFirst, Calls
<1>. QED
  BY <1>1, <1>3, <1>4, <1>5, <1>6, <1>7 DEF WellOrdered, Clients, Milvus, Postgres

\* The first section of migrate (Migrate).
LEMMA MigrateSection1 ==
    /\ Len(Migrate) = 2 /\ DOMAIN Migrate = 1..2
    /\ WellOrdered(Migrate[1])
    /\ ChecksFirst(Migrate[1], {"flags", "names"})
<1>. DEFINE st == <<"flags", "names", "connect", "count", "query">>
<1>1. /\ Len(Migrate) = 2 /\ DOMAIN Migrate = 1..2
      /\ Migrate[1] = [on |-> "reader", steps |-> st, before |-> 3]
  BY DEF Migrate, Section
<1>2. /\ DOMAIN st = 1..5
      /\ st[1] = "flags" /\ st[2] = "names" /\ st[3] = "connect" /\ st[4] = "count" /\ st[5] = "query"
  OBVIOUS
<1>3. st \in Seq(Steps)
  BY DEF Steps, Checks, Calls
<1>4. Migrate[1].on = "reader" /\ Migrate[1].before = 3 /\ Migrate[1].steps = st
  BY <1>1
<1>. HIDE DEF st
<1>5. \A i \in DOMAIN st : st[i] \in Calls => i > 3 \/ (i = 3 /\ "reader" \in Milvus)
  BY <1>2 DEF Calls, Milvus
<1>6. \A i, j \in DOMAIN st : st[i] = "connect" /\ st[j] \in Calls => i <= j
  BY <1>2 DEF Calls
<1>7. ChecksFirst(Migrate[1], {"flags", "names"})
  BY <1>2, <1>4 DEF ChecksFirst, Calls
<1>. QED
  BY <1>1, <1>3, <1>4, <1>5, <1>6, <1>7 DEF WellOrdered, Clients, Milvus, Postgres

\* The second section of migrate (Migrate).
LEMMA MigrateSection2 ==
    /\ Len(Migrate) = 2 /\ DOMAIN Migrate = 1..2
    /\ WellOrdered(Migrate[2])
    /\ ChecksFirst(Migrate[2], {})
<1>. DEFINE st == <<"connect", "write">>
<1>1. /\ Len(Migrate) = 2 /\ DOMAIN Migrate = 1..2
      /\ Migrate[2] = [on |-> "writer", steps |-> st, before |-> 3]
  BY DEF Migrate, Section
<1>2. /\ DOMAIN st = 1..2
      /\ st[1] = "connect" /\ st[2] = "write"
  OBVIOUS
<1>3. st \in Seq(Steps)
  BY DEF Steps, Checks, Calls
<1>4. Migrate[2].on = "writer" /\ Migrate[2].before = 3 /\ Migrate[2].steps = st
  BY <1>1
<1>. HIDE DEF st
<1>6. "writer" \notin Milvus
  BY DEF Milvus
<1>7. ChecksFirst(Migrate[2], {})
  BY <1>2, <1>4 DEF ChecksFirst, Calls
<1>. QED
  BY <1>1, <1>3, <1>4, <1>6, <1>7 DEF WellOrdered, Clients, Milvus, Postgres

\* The section of offline-verify (OfflineVerify).
LEMMA OfflineVerifySection ==
    /\ Len(OfflineVerify) = 1 /\ DOMAIN OfflineVerify = 1..1
    /\ WellOrdered(OfflineVerify[1])
    /\ ChecksFirst(OfflineVerify[1], {"flags", "fixture"})
<1>. DEFINE st == <<"flags", "fixture", "search", "output">>
<1>1. /\ Len(OfflineVerify) = 1 /\ DOMAIN OfflineVerify = 1..1
      /\ OfflineVerify[1] = [on |-> "memory", steps |-> st, before |-> 5]
  BY DEF OfflineVerify, Section
<1>2. /\ DOMAIN st = 1..4
      /\ st[1] = "flags" /\ st[2] = "fixture" /\ st[3] = "search" /\ st[4] = "output"
  OBVIOUS
<1>3. st \in Seq(Steps)
  BY DEF Steps, Checks, Calls
<1>4. OfflineVerify[1].on = "memory" /\ OfflineVerify[1].before = 5 /\ OfflineVerify[1].steps = st
  BY <1>1
<1>. HIDE DEF st
<1>6. "memory" \notin Milvus
  BY DEF Milvus
<1>7. ChecksFirst(OfflineVerify[1], {"flags", "fixture"})
  BY <1>2, <1>4 DEF ChecksFirst, Calls
<1>. QED
  BY <1>1, <1>3, <1>4, <1>6, <1>7 DEF WellOrdered, Clients, Milvus, Postgres

\* Every command is a program of such sections (the run functions of vdbg).
LEMMA Programs ==
    ASSUME NEW k \in Kinds
    PROVE  /\ Len(Program(k)) \in Nat \ {0}
           /\ DOMAIN Program(k) = 1..Len(Program(k))
           /\ \A n \in DOMAIN Program(k) : WellOrdered(Program(k)[n])
           /\ ChecksFirst(Program(k)[1], EarlyChecks(k))
<1>1. CASE k = "search-milvus"
  <2>1. Program(k) = SearchMilvus
    BY <1>1 DEF Program
  <2>2. EarlyChecks(k) = {"flags", "fixture", "names"}
    BY <1>1 DEF EarlyChecks
  <2>3. \A n \in DOMAIN SearchMilvus : WellOrdered(SearchMilvus[n])
    BY SearchMilvusSection
  <2>. QED
    BY <2>1, <2>2, <2>3, SearchMilvusSection
<1>2. CASE k = "search-pgvector"
  <2>1. Program(k) = SearchPGVector
    BY <1>2 DEF Program
  <2>2. EarlyChecks(k) = {"flags", "fixture", "names"}
    BY <1>2 DEF EarlyChecks
  <2>3. \A n \in DOMAIN SearchPGVector : WellOrdered(SearchPGVector[n])
    BY SearchPGVectorSection
  <2>. QED
    BY <2>1, <2>2, <2>3, SearchPGVectorSection
<1>3. CASE k = "build-milvus-artifact"
  <2>1. Program(k) = BuildMilvusArtifact
    BY <1>3 DEF Program
  <2>2. EarlyChecks(k) = {"flags", "fixture", "names"}
    BY <1>3 DEF EarlyChecks
  <2>3. \A n \in DOMAIN BuildMilvusArtifact : WellOrdered(BuildMilvusArtifact[n])
    BY BuildMilvusArtifactSection
  <2>. QED
    BY <2>1, <2>2, <2>3, BuildMilvusArtifactSection
<1>4. CASE k = "build-pgvector-artifact"
  <2>1. Program(k) = BuildPGVectorArtifact
    BY <1>4 DEF Program
  <2>2. EarlyChecks(k) = {"flags", "fixture", "names"}
    BY <1>4 DEF EarlyChecks
  <2>3. \A n \in DOMAIN BuildPGVectorArtifact : WellOrdered(BuildPGVectorArtifact[n])
    BY BuildPGVectorArtifactSection
  <2>. QED
    BY <2>1, <2>2, <2>3, BuildPGVectorArtifactSection
<1>5. CASE k = "seed-milvus"
  <2>1. Program(k) = SeedMilvus
    BY <1>5 DEF Program
  <2>2. EarlyChecks(k) = {"flags", "fixture"}
    BY <1>5 DEF EarlyChecks
  <2>3. \A n \in DOMAIN SeedMilvus : WellOrdered(SeedMilvus[n])
    BY SeedMilvusSection
  <2>. QED
    BY <2>1, <2>2, <2>3, SeedMilvusSection
<1>6. CASE k = "seed-pgvector"
  <2>1. Program(k) = SeedPGVector
    BY <1>6 DEF Program
  <2>2. EarlyChecks(k) = {"flags", "fixture", "names", "dataset"}
    BY <1>6 DEF EarlyChecks
  <2>3. \A n \in DOMAIN SeedPGVector : WellOrdered(SeedPGVector[n])
    BY SeedPGVectorSection
  <2>. QED
    BY <2>1, <2>2, <2>3, SeedPGVectorSection
<1>7. CASE k = "migrate"
  <2>1. Program(k) = Migrate
    BY <1>7 DEF Program
  <2>2. EarlyChecks(k) = {"flags", "names"}
    BY <1>7 DEF EarlyChecks
  <2>3. \A n \in DOMAIN Migrate : WellOrdered(Migrate[n])
    BY MigrateSection1, MigrateSection2
  <2>. QED
    BY <2>1, <2>2, <2>3, MigrateSection1, MigrateSection2
<1>8. CASE k = "migrate-and-verify"
  <2>1. /\ Len(MigrateAndVerify) = 4 /\ DOMAIN MigrateAndVerify = 1..4
        /\ MigrateAndVerify[1] = Migrate[1] /\ MigrateAndVerify[2] = Migrate[2]
        /\ MigrateAndVerify[3] = BuildMilvusArtifact[1]
        /\ MigrateAndVerify[4] = BuildPGVectorArtifact[1]
    BY DEF MigrateAndVerify
  <2>2. Program(k) = MigrateAndVerify
    BY <1>8 DEF Program
  <2>3. ASSUME NEW n \in 1..4 PROVE WellOrdered(MigrateAndVerify[n])
    <3>1. n = 1 \/ n = 2 \/ n = 3 \/ n = 4
      OBVIOUS
    <3>. QED
      BY <3>1, <2>1, MigrateSection1, MigrateSection2, BuildMilvusArtifactSection,
         BuildPGVectorArtifactSection
  <2>4. ChecksFirst(MigrateAndVerify[1], EarlyChecks(k))
    BY <1>8, <2>1, MigrateSection1 DEF EarlyChecks, ChecksFirst
  <2>5. Len(MigrateAndVerify) \in Nat \ {0}
    BY <2>1
  <2>. QED
    BY <2>1, <2>2, <2>3, <2>4, <2>5
<1>9. CASE k = "offline-verify"
  <2>1. Program(k) = OfflineVerify
    BY <1>9 DEF Program
  <2>2. EarlyChecks(k) = {"flags", "fixture"}
    BY <1>9 DEF EarlyChecks
  <2>3. \A n \in DOMAIN OfflineVerify : WellOrdered(OfflineVerify[n])
    BY OfflineVerifySection
  <2>. QED
    BY <2>1, <2>2, <2>3, OfflineVerifySection
<1>. QED
  BY <1>1, <1>2, <1>3, <1>4, <1>5, <1>6, <1>7, <1>8, <1>9 DEF Kinds

\* A Milvus client is connected before it is asked for anything else.
ConnectsFirst(s) ==
    s.on \in Milvus => \A i \in DOMAIN s.steps : s.steps[i] \in Calls \ {"connect"} =>
        \E j \in DOMAIN s.steps : j < i /\ s.steps[j] = "connect"

AsksNothing(s) == \A i \in DOMAIN s.steps : s.steps[i] # "search"

\* The sections on a Milvus client (SearchMilvus, BuildMilvusArtifact,
\* SeedMilvus, Migrate).
LEMMA MilvusSections ==
    /\ SearchMilvus[1].on = "milvus" /\ ConnectsFirst(SearchMilvus[1])
    /\ BuildMilvusArtifact[1].on = "milvus" /\ ConnectsFirst(BuildMilvusArtifact[1])
    /\ SeedMilvus[1].on = "milvusSeed" /\ ConnectsFirst(SeedMilvus[1]) /\ AsksNothing(SeedMilvus[1])
    /\ Migrate[1].on = "reader" /\ ConnectsFirst(Migrate[1]) /\ AsksNothing(Migrate[1])
<1>1. SearchMilvus[1].on = "milvus" /\ ConnectsFirst(SearchMilvus[1])
  <2>. DEFINE st == <<"flags", "fixture", "names", "connect", "count", "search">>
  <2>1. SearchMilvus[1].on = "milvus" /\ SearchMilvus[1].steps = st
    BY DEF SearchMilvus, Section
  <2>2. /\ DOMAIN st = 1..6
        /\ st[1] = "flags" /\ st[2] = "fixture" /\ st[3] = "names" /\ st[4] = "connect" /\ st[5] = "count" /\ st[6] = "search"
    OBVIOUS
  <2>. HIDE DEF st
  <2>. QED
    BY <2>1, <2>2 DEF ConnectsFirst, AsksNothing, Calls
<1>2. BuildMilvusArtifact[1].on = "milvus" /\ ConnectsFirst(BuildMilvusArtifact[1])
  <2>. DEFINE st == <<"flags", "fixture", "names", "connect", "search", "output">>
  <2>1. BuildMilvusArtifact[1].on = "milvus" /\ BuildMilvusArtifact[1].steps = st
    BY DEF BuildMilvusArtifact, Section
  <2>2. /\ DOMAIN st = 1..6
        /\ st[1] = "flags" /\ st[2] = "fixture" /\ st[3] = "names" /\ st[4] = "connect" /\ st[5] = "search" /\ st[6] = "output"
    OBVIOUS
  <2>. HIDE DEF st
  <2>. QED
    BY <2>1, <2>2 DEF ConnectsFirst, AsksNothing, Calls
<1>3. SeedMilvus[1].on = "milvusSeed" /\ ConnectsFirst(SeedMilvus[1]) /\ AsksNothing(SeedMilvus[1])
  <2>. DEFINE st == <<"flags", "fixture", "connect", "names", "dataset", "write">>
  <2>1. SeedMilvus[1].on = "milvusSeed" /\ SeedMilvus[1].steps = st
    BY DEF SeedMilvus, Section
  <2>2. /\ DOMAIN st = 1..6
        /\ st[1] = "flags" /\ st[2] = "fixture" /\ st[3] = "connect" /\ st[4] = "names" /\ st[5] = "dataset" /\ st[6] = "write"
    OBVIOUS
  <2>. HIDE DEF st
  <2>. QED
    BY <2>1, <2>2 DEF ConnectsFirst, AsksNothing, Calls
<1>4. Migrate[1].on = "reader" /\ ConnectsFirst(Migrate[1]) /\ AsksNothing(Migrate[1])
  <2>. DEFINE st == <<"flags", "names", "connect", "count", "query">>
  <2>1. Migrate[1].on = "reader" /\ Migrate[1].steps = st
    BY DEF Migrate, Section
  <2>2. /\ DOMAIN st = 1..5
        /\ st[1] = "flags" /\ st[2] = "names" /\ st[3] = "connect" /\ st[4] = "count" /\ st[5] = "query"
    OBVIOUS
  <2>. HIDE DEF st
  <2>. QED
    BY <2>1, <2>2 DEF ConnectsFirst, AsksNothing, Calls
<1>. QED
  BY <1>1, <1>2, <1>3, <1>4

\* The other sections (SearchPGVector, BuildPGVectorArtifact, SeedPGVector,
\* Migrate, OfflineVerify).
LEMMA OtherSections ==
    /\ SearchPGVector[1].on = "pgvector"
    /\ BuildPGVectorArtifact[1].on = "pgvector"
    /\ SeedPGVector[1].on = "pgvectorSeed" /\ AsksNothing(SeedPGVector[1])
    /\ Migrate[2].on = "writer" /\ AsksNothing(Migrate[2])
    /\ OfflineVerify[1].on = "memory"
<1>1. /\ SearchPGVector[1].on = "pgvector"
      /\ BuildPGVectorArtifact[1].on = "pgvector"
      /\ OfflineVerify[1].on = "memory"
  BY DEF SearchPGVector, BuildPGVectorArtifact, OfflineVerify, Section
<1>2. SeedPGVector[1].on = "pgvectorSeed" /\ AsksNothing(SeedPGVector[1])
  <2>. DEFINE st == <<"flags", "fixture", "names", "dataset", "write">>
  <2>1. SeedPGVector[1].on = "pgvectorSeed" /\ SeedPGVector[1].steps = st
    BY DEF SeedPGVector, Section
  <2>2. /\ DOMAIN st = 1..5
        /\ st[1] = "flags" /\ st[2] = "fixture" /\ st[3] = "names" /\ st[4] = "dataset" /\ st[5] = "write"
    OBVIOUS
  <2>. HIDE DEF st
  <2>. QED
    BY <2>1, <2>2 DEF AsksNothing
<1>3. Migrate[2].on = "writer" /\ AsksNothing(Migrate[2])
  <2>. DEFINE st == <<"connect", "write">>
  <2>1. Migrate[2].on = "writer" /\ Migrate[2].steps = st
    BY DEF Migrate, Section
  <2>2. /\ DOMAIN st = 1..2
        /\ st[1] = "connect" /\ st[2] = "write"
    OBVIOUS
  <2>. HIDE DEF st
  <2>. QED
    BY <2>1, <2>2 DEF AsksNothing
<1>. QED
  BY <1>1, <1>2, <1>3

\* What the order of the calls is good for: no client is used before it is
\* connected, none is used in two sections, and only commands that check
\* their search flags search (Program).
LEMMA ProgramsConnect ==
    ASSUME NEW k \in Kinds
    PROVE  /\ \A n \in DOMAIN Program(k) : ConnectsFirst(Program(k)[n])
           /\ \A m, n \in DOMAIN Program(k) : Program(k)[m].on = Program(k)[n].on => m = n
           /\ k \notin Searches \union Builds \union {"offline-verify"} =>
                \A n \in DOMAIN Program(k) : AsksNothing(Program(k)[n])
<1>1. CASE k = "search-milvus"
  <2>1. Program(k) = SearchMilvus
    BY <1>1 DEF Program
  <2>. QED
    BY <1>1, <2>1, SearchMilvusSection, MilvusSections, OtherSections DEF ConnectsFirst, Milvus, Searches, Builds
<1>2. CASE k = "search-pgvector"
  <2>1. Program(k) = SearchPGVector
    BY <1>2 DEF Program
  <2>. QED
    BY <1>2, <2>1, SearchPGVectorSection, MilvusSections, OtherSections DEF ConnectsFirst, Milvus, Searches, Builds
<1>3. CASE k = "build-milvus-artifact"
  <2>1. Program(k) = BuildMilvusArtifact
    BY <1>3 DEF Program
  <2>. QED
    BY <1>3, <2>1, BuildMilvusArtifactSection, MilvusSections, OtherSections DEF ConnectsFirst, Milvus, Searches, Builds
<1>4. CASE k = "build-pgvector-artifact"
  <2>1. Program(k) = BuildPGVectorArtifact
    BY <1>4 DEF Program
  <2>. QED
    BY <1>4, <2>1, BuildPGVectorArtifactSection, MilvusSections, OtherSections DEF ConnectsFirst, Milvus, Searches, Builds
<1>5. CASE k = "seed-milvus"
  <2>1. Program(k) = SeedMilvus
    BY <1>5 DEF Program
  <2>. QED
    BY <1>5, <2>1, SeedMilvusSection, MilvusSections, OtherSections DEF ConnectsFirst, Milvus, Searches, Builds
<1>6. CASE k = "seed-pgvector"
  <2>1. Program(k) = SeedPGVector
    BY <1>6 DEF Program
  <2>. QED
    BY <1>6, <2>1, SeedPGVectorSection, MilvusSections, OtherSections DEF ConnectsFirst, Milvus, Searches, Builds
<1>7. CASE k = "offline-verify"
  <2>1. Program(k) = OfflineVerify
    BY <1>7 DEF Program
  <2>. QED
    BY <1>7, <2>1, OfflineVerifySection, MilvusSections, OtherSections DEF ConnectsFirst, Milvus, Searches, Builds
<1>8. CASE k = "migrate"
  <2>1. Program(k) = Migrate
    BY <1>8 DEF Program
  <2>. QED
    BY <1>8, <2>1, MigrateSection1, MilvusSections, OtherSections DEF ConnectsFirst, Milvus
<1>9. CASE k = "migrate-and-verify"
  <2>1. /\ Program(k) = MigrateAndVerify /\ DOMAIN MigrateAndVerify = 1..4
        /\ MigrateAndVerify[1] = Migrate[1] /\ MigrateAndVerify[2] = Migrate[2]
        /\ MigrateAndVerify[3] = BuildMilvusArtifact[1]
        /\ MigrateAndVerify[4] = BuildPGVectorArtifact[1]
    BY <1>9 DEF Program, MigrateAndVerify
  <2>. QED
    BY <1>9, <2>1, MilvusSections, OtherSections DEF ConnectsFirst, Milvus, Builds
<1>. QED
  BY <1>1, <1>2, <1>3, <1>4, <1>5, <1>6, <1>7, <1>8, <1>9 DEF Kinds

-----------------------------------------------------------------------------
(* What a call does to the clients of its user, and to nobody else's.  *)

States == {"none", "open", "dead"}
ClientsTyped == client \in [Users -> [Clients -> States]]

\* One client of one user changes.
Becomes(u, x, s) ==
    /\ client' \in [Users -> [Clients -> States]]
    /\ \A v \in Users : v # u => client'[v] = client[v]
    /\ \A y \in Clients : client'[u][y] = IF y = x THEN s ELSE client[u][y]

\* The update of one client (CallErrs, CloseClient, CallSucceeds).
LEMMA ClientUpdate ==
    ASSUME ClientsTyped, NEW u \in Users, NEW x \in Clients, NEW s \in States,
           client' = [client EXCEPT ![u][x] = s]
    PROVE  Becomes(u, x, s)
<1>1. client' = [client EXCEPT ![u] = [client[u] EXCEPT ![x] = s]]
  BY DEF ClientsTyped
<1>2. client[u] \in [Clients -> States]
  BY DEF ClientsTyped
<1>3. [client[u] EXCEPT ![x] = s] \in [Clients -> States]
  BY <1>2
<1>4. \A v \in Users : client'[v] = IF v = u THEN [client[u] EXCEPT ![x] = s] ELSE client[v]
  BY <1>1 DEF ClientsTyped
<1>5. client' \in [Users -> [Clients -> States]]
  BY <1>1, <1>3 DEF ClientsTyped
<1>. QED
  BY <1>2, <1>4, <1>5 DEF Becomes

\* A call that succeeds leaves its client open (milvusSDKDB.Connect,
\* pgxPGVectorDB.connection).
LEMMA SuccessEffect ==
    ASSUME ClientsTyped, orphans \in [Users -> Nat], NEW u \in Users, NEW x \in Clients,
           NEW call, CallSucceeds(u, x, call)
    PROVE  /\ x = "memory" => client' = client
           /\ x # "memory" => Becomes(u, x, "open")
           /\ Accepts(u, x, call)
           /\ orphans' \in [Users -> Nat]
           /\ \A v \in Users : v # u => orphans'[v] = orphans[v]
           /\ orphans'[u] = IF x \in Milvus /\ call = "connect" /\ client[u][x] = "open"
                             THEN orphans[u] + 1 ELSE orphans[u]
<1>1. x # "memory" => Becomes(u, x, "open")
  BY ClientUpdate DEF CallSucceeds, States
<1>2. Accepts(u, x, call) /\ (x = "memory" => client' = client)
  BY DEF CallSucceeds
<1>3. \/ /\ ~(x \in Milvus /\ call = "connect" /\ client[u][x] = "open")
         /\ orphans' = orphans
      \/ /\ x \in Milvus /\ call = "connect" /\ client[u][x] = "open"
         /\ orphans' = [orphans EXCEPT ![u] = orphans[u] + 1]
  BY DEF CallSucceeds
<1>4. CASE /\ ~(x \in Milvus /\ call = "connect" /\ client[u][x] = "open")
           /\ orphans' = orphans
  BY <1>1, <1>2, <1>4
<1>5. CASE /\ x \in Milvus /\ call = "connect" /\ client[u][x] = "open"
           /\ orphans' = [orphans EXCEPT ![u] = orphans[u] + 1]
  BY <1>1, <1>2, <1>5
<1>. QED
  BY <1>3, <1>4, <1>5

\* A call that fails may leave a PostgreSQL connection open or dead, and
\* changes nothing else (pgxPGVectorDB).
LEMMA ErrorEffect ==
    ASSUME ClientsTyped, NEW u \in Users, NEW x \in Clients, CallErrs(u, x)
    PROVE  /\ orphans' = orphans
           /\ \E s \in States :
                /\ Becomes(u, x, s)
                /\ s # client[u][x] => x \in Postgres /\ client[u][x] # "dead"
<1>1. PICK s \in Leftovers(u, x) : client' = [client EXCEPT ![u][x] = s] /\ UNCHANGED orphans
  BY DEF CallErrs
<1>2. s \in States
  BY DEF Leftovers, ClientsTyped, States
<1>3. s # client[u][x] => x \in Postgres /\ client[u][x] # "dead"
  BY DEF Leftovers, Accepts, Milvus, Postgres
<1>4. Becomes(u, x, s)
  BY <1>1, <1>2, ClientUpdate
<1>. QED
  BY <1>1, <1>2, <1>3, <1>4

\* Close leaves a client dead or gone (Close of both adapters).
LEMMA CloseEffect ==
    ASSUME ClientsTyped, NEW u \in Users, NEW x \in Clients, CloseClient(u, x)
    PROVE  Becomes(u, x, AfterClose(u, x)) /\ orphans' = orphans
<1>1. AfterClose(u, x) \in States
  BY DEF AfterClose, States
<1>. QED
  BY <1>1, ClientUpdate DEF CloseClient

-----------------------------------------------------------------------------
(* The invariant.  *)

First(p) == Program(kind[p])[1]

\* The steps of its first section a process has taken.
Taken(p) == IF section[p] = 1 THEN at[p] - 1 ELSE Len(First(p).steps)

\* A process at rest has nothing; one that works has open, besides the writer,
\* at most the client of its section, and only after a call.
HoldsItsOwn(p) ==
    /\ status[p] = "idle" =>
        /\ section[p] = 1 /\ at[p] = 1
        /\ \A x \in Clients : client[p][x] = "none"
    /\ status[p] # "killed" => orphans[p] = 0
    /\ status[p] \in Ended => \A x \in Clients \ {"writer"} : client[p][x] # "open"
    /\ status[p] = "running" => \A x \in Clients \ {"writer"} : client[p][x] = "open" =>
        /\ x = This(p).on
        /\ \E j \in DOMAIN This(p).steps : j < at[p] /\ This(p).steps[j] \in Calls
    /\ status[p] = "failing" => \A x \in Clients \ {"writer"} : client[p][x] = "open" =>
        x = This(p).on /\ at[p] > This(p).before

\* The steps a process has taken passed its input, and it has a client only
\* if it has come to a call.
HasChecked(p) ==
    status[p] # "idle" =>
        /\ \A j \in DOMAIN First(p).steps : j <= Taken(p) =>
            Passes(kind[p], input[p], First(p).steps[j])
        /\ (\E x \in Clients : client[p][x] # "none") => section[p] > 1 \/
            \E j \in DOMAIN First(p).steps : j <= at[p] /\ First(p).steps[j] \in Calls

\* What a closed connector has become, and where a caller's clients went.
KnowsWhatItClosed(c) ==
    /\ \A x \in Library : closed[c][x] =>
        /\ answer[c][x] # "answer"
        /\ client[c][x] = IF x \in Postgres THEN "dead" ELSE "none"
    /\ \A x \in Clients \ Library : client[c][x] = "none"
    /\ orphans[c] = replaced[c]

SessionInv ==
    /\ SessionTypeOK
    /\ \A p \in Processes : HoldsItsOwn(p) /\ HasChecked(p)
    /\ \A c \in Callers : KnowsWhatItClosed(c)
    /\ \A u \in Users : client[u]["memory"] = "none"

\* A new process and a new connector hold nothing (NewMilvusConnector).
LEMMA SessionInitInv == SessionInit => SessionInv
<1>. SUFFICES ASSUME SessionInit PROVE SessionInv
  OBVIOUS
<1>1. \A p \in Processes : kind[p] = "migrate"
  BY DEF SessionInit
<1>2. \A p \in Processes : section[p] \in DOMAIN Program(kind[p])
  BY <1>1, Programs DEF SessionInit, Kinds
<1>3. \A p \in Processes : at[p] <= Len(This(p).steps) + 1
  BY <1>1, <1>2, Programs DEF SessionInit, Kinds, This, WellOrdered
<1>4. SessionTypeOK
  BY <1>2, <1>3 DEF SessionInit, SessionTypeOK, Kinds, Milvus, Clients
<1>5. \A p \in Processes : HoldsItsOwn(p) /\ HasChecked(p)
  BY DEF SessionInit, HoldsItsOwn, HasChecked, Users, Ended
<1>6. \A c \in Callers : KnowsWhatItClosed(c)
  BY DEF SessionInit, KnowsWhatItClosed, Users, Library, Clients, Postgres, Milvus
<1>7. \A u \in Users : client[u]["memory"] = "none"
  BY DEF SessionInit, Clients
<1>. QED
  BY <1>4, <1>5, <1>6, <1>7 DEF SessionInv

\* Only process p and its clients change (the actions of a command).
OnlyProcess(p) ==
    /\ client' \in [Users -> [Clients -> States]]
    /\ orphans' \in [Users -> Nat]
    /\ \A u \in Users : u # p => client'[u] = client[u] /\ orphans'[u] = orphans[u]
    /\ kind' \in [Processes -> Kinds]
    /\ input' \in [Processes -> Inputs]
    /\ section' \in [Processes -> Nat]
    /\ at' \in [Processes -> Nat \ {0}]
    /\ status' \in [Processes -> {"idle", "running", "failing", "killed"} \union Ended]
    /\ limit' = limit
    /\ faults' \in Nat
    /\ faulted' \in [Processes -> BOOLEAN]
    /\ \A q \in Processes : q # p =>
        /\ kind'[q] = kind[q] /\ input'[q] = input[q] /\ section'[q] = section[q]
        /\ at'[q] = at[q] /\ status'[q] = status[q]
    /\ UNCHANGED <<answer, closed, replaced>>

\* Another process keeps what the invariant says of it (HoldsItsOwn, HasChecked).
LEMMA ProcessKept ==
    ASSUME NEW q \in Processes, HoldsItsOwn(q), HasChecked(q),
           client'[q] = client[q], orphans'[q] = orphans[q], kind'[q] = kind[q],
           input'[q] = input[q], section'[q] = section[q], at'[q] = at[q], status'[q] = status[q]
    PROVE  HoldsItsOwn(q)' /\ HasChecked(q)'
<1>1. This(q)' = This(q) /\ First(q)' = First(q) /\ Taken(q)' = Taken(q)
  BY DEF This, First, Taken
<1>2. HoldsItsOwn(q)'
  BY <1>1 DEF HoldsItsOwn
<1>3. HasChecked(q)'
  BY <1>1 DEF HasChecked
<1>. QED
  BY <1>2, <1>3

\* A caller keeps what the invariant says of it (KnowsWhatItClosed).
LEMMA CallerKept ==
    ASSUME NEW c \in Callers, KnowsWhatItClosed(c),
           client'[c] = client[c], orphans'[c] = orphans[c], answer'[c] = answer[c],
           closed'[c] = closed[c], replaced'[c] = replaced[c]
    PROVE  KnowsWhatItClosed(c)'
BY DEF KnowsWhatItClosed

\* A step of a process keeps the invariant if it does for that process.
LEMMA ProcessStep ==
    ASSUME SessionInv, NEW p \in Processes, OnlyProcess(p),
           \A x \in Milvus : client'[p][x] # "dead",
           client'[p]["memory"] = "none",
           section'[p] \in DOMAIN Program(kind'[p]),
           at'[p] <= Len(This(p)'.steps) + 1,
           HoldsItsOwn(p)', HasChecked(p)'
    PROVE  SessionInv'
<1>. USE SessionAssumption
<1>1. \A q \in Processes : HoldsItsOwn(q)' /\ HasChecked(q)'
  <2>. SUFFICES ASSUME NEW q \in Processes, q # p PROVE HoldsItsOwn(q)' /\ HasChecked(q)'
    OBVIOUS
  <2>. QED
    BY ProcessKept DEF OnlyProcess, SessionInv, Users
<1>2. \A c \in Callers : KnowsWhatItClosed(c)'
  <2>. SUFFICES ASSUME NEW c \in Callers PROVE KnowsWhatItClosed(c)'
    OBVIOUS
  <2>1. c # p /\ c \in Users
    BY DEF Users
  <2>. QED
    BY <2>1, CallerKept DEF OnlyProcess, SessionInv
<1>3. \A u \in Users : client'[u]["memory"] = "none"
  BY DEF OnlyProcess, SessionInv
<1>4. SessionTypeOK'
  <2>1. \A u \in Users : \A x \in Milvus \union {"memory"} : client'[u][x] # "dead"
    <3>1. \A u \in Users : \A x \in Milvus : u # p => client'[u][x] # "dead"
      BY DEF OnlyProcess, SessionInv, SessionTypeOK
    <3>. QED
      BY <3>1, <1>3
  <2>2. \A q \in Processes : section'[q] \in DOMAIN Program(kind'[q])
    BY DEF OnlyProcess, SessionInv, SessionTypeOK
  <2>3. \A q \in Processes : at'[q] <= Len(This(q)'.steps) + 1
    BY DEF OnlyProcess, SessionInv, SessionTypeOK, This
  <2>4. /\ limit' \in Limits
        /\ closed' \in [Callers -> [Clients -> BOOLEAN]]
        /\ answer' \in [Callers -> [Clients -> {"none", "answer", "error"}]]
        /\ replaced' \in [Callers -> Nat]
    BY DEF OnlyProcess, SessionInv, SessionTypeOK
  <2>. QED
    BY <2>1, <2>2, <2>3, <2>4 DEF OnlyProcess, SessionTypeOK, States
<1>. QED
  BY <1>1, <1>2, <1>3, <1>4 DEF SessionInv

\* The section a process is in (Program).
LEMMA ThisSection ==
    ASSUME SessionInv, NEW p \in Processes
    PROVE  /\ p \in Users /\ ClientsTyped /\ orphans \in [Users -> Nat]
           /\ kind[p] \in Kinds /\ section[p] \in Nat \ {0} /\ at[p] \in Nat \ {0}
           /\ section[p] \in 1..Len(Program(kind[p]))
           /\ Len(Program(kind[p])) \in Nat
           /\ WellOrdered(This(p)) /\ WellOrdered(First(p))
           /\ DOMAIN This(p).steps = 1..Len(This(p).steps) /\ Len(This(p).steps) \in Nat
           /\ DOMAIN First(p).steps = 1..Len(First(p).steps) /\ Len(First(p).steps) \in Nat
           /\ section[p] = 1 => This(p) = First(p)
           /\ at[p] <= Len(This(p).steps) + 1
           /\ HoldsItsOwn(p) /\ HasChecked(p)
           /\ client[p]["memory"] = "none"
           /\ \A x \in Milvus : client[p][x] # "dead"
<1>1. /\ p \in Users /\ ClientsTyped /\ orphans \in [Users -> Nat]
      /\ kind[p] \in Kinds /\ section[p] \in Nat /\ at[p] \in Nat \ {0}
      /\ section[p] \in DOMAIN Program(kind[p])
      /\ at[p] <= Len(This(p).steps) + 1
      /\ HoldsItsOwn(p) /\ HasChecked(p)
      /\ client[p]["memory"] = "none"
      /\ \A x \in Milvus : client[p][x] # "dead"
  BY DEF SessionInv, SessionTypeOK, Users, ClientsTyped, States
<1>2. /\ DOMAIN Program(kind[p]) = 1..Len(Program(kind[p]))
      /\ Len(Program(kind[p])) \in Nat \ {0}
      /\ \A n \in DOMAIN Program(kind[p]) : WellOrdered(Program(kind[p])[n])
  BY <1>1, Programs
<1>3. WellOrdered(This(p)) /\ WellOrdered(First(p))
  BY <1>1, <1>2 DEF This, First
<1>4. /\ DOMAIN This(p).steps = 1..Len(This(p).steps) /\ Len(This(p).steps) \in Nat
      /\ DOMAIN First(p).steps = 1..Len(First(p).steps) /\ Len(First(p).steps) \in Nat
  BY <1>3 DEF WellOrdered
<1>5. section[p] = 1 => This(p) = First(p)
  BY DEF This, First
<1>. QED
  BY <1>1, <1>2, <1>3, <1>4, <1>5

\* A client that is open in a section came after its first call and is closed
\* when the section is left (WellOrdered, HoldsItsOwn).
LEMMA OpenIsDeferred ==
    ASSUME SessionInv, NEW p \in Processes, NEW x \in Clients \ {"writer"},
           client[p][x] = "open", status[p] \in {"running", "failing"}
    PROVE  x = This(p).on /\ at[p] > This(p).before
<1>1. /\ WellOrdered(This(p)) /\ HoldsItsOwn(p) /\ x # "memory" /\ at[p] \in Nat
      /\ DOMAIN This(p).steps = 1..Len(This(p).steps) /\ Len(This(p).steps) \in Nat
  BY ThisSection
<1>2. CASE status[p] = "failing"
  BY <1>1, <1>2 DEF HoldsItsOwn
<1>3. CASE status[p] = "running"
  <2>1. x = This(p).on
    BY <1>1, <1>3 DEF HoldsItsOwn
  <2>2. PICK j \in DOMAIN This(p).steps : j < at[p] /\ This(p).steps[j] \in Calls
    BY <1>1, <1>3 DEF HoldsItsOwn
  <2>3. j >= This(p).before /\ This(p).before \in Nat
    BY <1>1, <2>1, <2>2 DEF WellOrdered
  <2>. QED
    BY <1>1, <2>1, <2>2, <2>3
<1>. QED
  BY <1>2, <1>3

\* A command starts with nothing (StartCommand).
LEMMA StartCommandInv ==
    ASSUME SessionInv, NEW p \in Processes, StartCommand(p)
    PROVE  SessionInv'
<1>1. PICK k \in Kinds, i \in Inputs :
          kind' = [kind EXCEPT ![p] = k] /\ input' = [input EXCEPT ![p] = i]
  BY DEF StartCommand
<1>2. /\ status[p] = "idle" /\ status' = [status EXCEPT ![p] = "running"]
      /\ UNCHANGED <<client, orphans, section, at, limit, faults, faulted, answer, closed, replaced>>
  BY DEF StartCommand, callerVars
<1>3. /\ section[p] = 1 /\ at[p] = 1 /\ orphans[p] = 0
      /\ \A x \in Clients : client[p][x] = "none"
  BY <1>2, ThisSection DEF HoldsItsOwn
<1>4. OnlyProcess(p)
  BY <1>1, <1>2 DEF OnlyProcess, SessionInv, SessionTypeOK, States
<1>5. /\ kind'[p] = k /\ status'[p] = "running"
      /\ section'[p] = 1 /\ at'[p] = 1 /\ client'[p] = client[p] /\ orphans'[p] = 0
  BY <1>1, <1>2, <1>3 DEF SessionInv, SessionTypeOK
<1>6. section'[p] \in DOMAIN Program(kind'[p])
  BY <1>5, Programs
<1>7. /\ This(p)' = Program(k)[1] /\ First(p)' = Program(k)[1] /\ Taken(p)' = 0
      /\ WellOrdered(Program(k)[1])
  BY <1>5, <1>6, Programs DEF This, First, Taken
<1>8. at'[p] <= Len(This(p)'.steps) + 1
  BY <1>5, <1>7 DEF WellOrdered
<1>9. HoldsItsOwn(p)'
  BY <1>3, <1>5 DEF HoldsItsOwn, Ended
<1>10. HasChecked(p)'
  <2>1. \A j \in DOMAIN First(p)'.steps : ~(j <= Taken(p)')
    BY <1>7 DEF WellOrdered
  <2>. QED
    BY <1>3, <1>5, <2>1 DEF HasChecked
<1>. QED
  BY <1>3, <1>4, <1>5, <1>6, <1>8, <1>9, <1>10, ProcessStep, ThisSection DEF Milvus, Clients

\* A check or a call that goes well (TakeStep).
LEMMA TakeStepInv ==
    ASSUME SessionInv, NEW p \in Processes, TakeStep(p)
    PROVE  SessionInv'
<1>. DEFINE s == This(p)
            i == at[p]
            x == This(p).on
<1>t. /\ p \in Users /\ ClientsTyped /\ orphans \in [Users -> Nat]
      /\ section[p] \in Nat \ {0} /\ i \in Nat \ {0}
      /\ WellOrdered(s) /\ x \in Clients
      /\ DOMAIN s.steps = 1..Len(s.steps) /\ Len(s.steps) \in Nat
      /\ DOMAIN First(p).steps = 1..Len(First(p).steps) /\ Len(First(p).steps) \in Nat
      /\ section[p] = 1 => s = First(p)
      /\ HoldsItsOwn(p) /\ HasChecked(p)
      /\ client[p]["memory"] = "none"
      /\ \A y \in Milvus : client[p][y] # "dead"
  BY ThisSection DEF WellOrdered
<1>1. /\ status[p] = "running" /\ i \in DOMAIN s.steps
      /\ Passes(kind[p], input[p], s.steps[i])
      /\ at' = [at EXCEPT ![p] = i + 1]
      /\ UNCHANGED <<kind, input, section, status, limit, faults, faulted, answer, closed, replaced>>
  <2>1. ~(i > Len(s.steps))
    BY DEF TakeStep, AtStep, Done
  <2>. QED
    BY <1>t, <2>1 DEF TakeStep, AtStep, Step, callerVars
<1>2. at'[p] = i + 1
  BY <1>1 DEF SessionInv, SessionTypeOK
<1>3. /\ client' \in [Users -> [Clients -> States]]
      /\ orphans' \in [Users -> Nat]
      /\ \A u \in Users : u # p => client'[u] = client[u] /\ orphans'[u] = orphans[u]
      /\ orphans'[p] = 0
      /\ \A y \in Clients : client'[p][y] # client[p][y] =>
            y = x /\ y # "memory" /\ client'[p][y] = "open" /\ s.steps[i] \in Calls
  <2>0. orphans[p] = 0
    BY <1>t, <1>1 DEF HoldsItsOwn
  <2>1. CASE s.steps[i] \in Calls
    <3>1. CallSucceeds(p, x, s.steps[i])
      BY <2>1 DEF TakeStep, Step
    <3>2. /\ x = "memory" => client' = client
          /\ x # "memory" => Becomes(p, x, "open")
          /\ orphans' \in [Users -> Nat]
          /\ \A v \in Users : v # p => orphans'[v] = orphans[v]
          /\ orphans'[p] # orphans[p] =>
               x \in Milvus /\ s.steps[i] = "connect" /\ client[p][x] = "open"
      BY <1>t, <3>1, SuccessEffect
    <3>3. orphans'[p] = orphans[p]
      <4>. SUFFICES ASSUME x \in Milvus, s.steps[i] = "connect", client[p][x] = "open"
                    PROVE  FALSE
        BY <3>2
      <4>1. PICK j \in DOMAIN s.steps : j < i /\ s.steps[j] \in Calls
        BY <1>t, <1>1 DEF HoldsItsOwn, Milvus
      <4>2. i <= j
        BY <1>t, <1>1, <4>1 DEF WellOrdered
      <4>. QED
        BY <1>t, <4>1, <4>2
    <3>. QED
      BY <1>t, <2>0, <2>1, <3>2, <3>3 DEF Becomes, ClientsTyped
  <2>2. CASE s.steps[i] \notin Calls
    BY <1>t, <2>0, <2>2 DEF TakeStep, Step, ClientsTyped
  <2>. QED
    BY <2>1, <2>2
<1>4. OnlyProcess(p)
  BY <1>1, <1>3 DEF OnlyProcess, SessionInv, SessionTypeOK
<1>5. /\ section'[p] = section[p] /\ status'[p] = "running"
      /\ kind'[p] = kind[p] /\ input'[p] = input[p]
      /\ This(p)' = s /\ First(p)' = First(p)
      /\ Taken(p)' = IF section[p] = 1 THEN i ELSE Len(First(p).steps)
  <2>1. /\ section'[p] = section[p] /\ status'[p] = "running"
        /\ kind'[p] = kind[p] /\ input'[p] = input[p]
    BY <1>1
  <2>2. This(p)' = s /\ First(p)' = First(p)
    BY <2>1 DEF This, First
  <2>3. Taken(p)' = IF section'[p] = 1 THEN at'[p] - 1 ELSE Len(First(p)'.steps)
    BY DEF Taken
  <2>4. at'[p] - 1 = i
    <3>1. i \in Nat
      BY <1>t
    <3>. HIDE DEF i
    <3>2. \A n \in Nat : (n + 1) - 1 = n
      OBVIOUS
    <3>. QED
      BY <1>2, <3>1, <3>2
  <2>5. Taken(p)' = IF section[p] = 1 THEN i ELSE Len(First(p).steps)
    BY <2>1, <2>2, <2>3, <2>4
  <2>. QED
    BY <2>1, <2>2, <2>5
<1>6. HoldsItsOwn(p)'
  <2>1. ASSUME NEW y \in Clients \ {"writer"}, client'[p][y] = "open"
        PROVE  y = x /\ \E j \in DOMAIN s.steps : j < i + 1 /\ s.steps[j] \in Calls
    <3>1. CASE client'[p][y] = client[p][y]
      <4>1. y = x
        BY <1>t, <1>1, <2>1, <3>1 DEF HoldsItsOwn
      <4>2. PICK j \in DOMAIN s.steps : j < i /\ s.steps[j] \in Calls
        BY <1>t, <1>1, <2>1, <3>1 DEF HoldsItsOwn
      <4>. QED
        BY <1>t, <4>1, <4>2
    <3>2. CASE client'[p][y] # client[p][y]
      BY <1>t, <1>1, <1>3, <3>2
    <3>. QED
      BY <3>1, <3>2
  <2>. QED
    BY <1>2, <1>3, <1>5, <2>1 DEF HoldsItsOwn, Ended
<1>7. HasChecked(p)'
  <2>1. ASSUME NEW j \in DOMAIN First(p).steps, j <= Taken(p)'
        PROVE  Passes(kind[p], input[p], First(p).steps[j])
    <3>1. CASE j <= Taken(p)
      BY <1>t, <1>1, <3>1 DEF HasChecked
    <3>2. CASE ~(j <= Taken(p))
      <4>1. section[p] = 1 /\ j = i
        BY <1>t, <1>5, <2>1, <3>2 DEF Taken
      <4>. QED
        BY <1>t, <1>1, <4>1
    <3>. QED
      BY <3>1, <3>2
  <2>2. ASSUME NEW y \in Clients, client'[p][y] # "none"
        PROVE  section[p] > 1 \/
               \E j \in DOMAIN First(p).steps : j <= i + 1 /\ First(p).steps[j] \in Calls
    <3>1. CASE client'[p][y] = client[p][y]
      <4>1. section[p] > 1 \/
               \E j \in DOMAIN First(p).steps : j <= i /\ First(p).steps[j] \in Calls
        BY <1>t, <1>1, <2>2, <3>1 DEF HasChecked
      <4>. QED
        BY <1>t, <4>1
    <3>2. CASE client'[p][y] # client[p][y]
      <4>1. s.steps[i] \in Calls
        BY <1>3, <3>2
      <4>. QED
        BY <1>t, <1>1, <4>1
    <3>. QED
      BY <3>1, <3>2
  <2>. QED
    BY <1>2, <1>5, <2>1, <2>2 DEF HasChecked
<1>8. /\ \A y \in Milvus : client'[p][y] # "dead"
      /\ client'[p]["memory"] = "none"
  BY <1>t, <1>3 DEF Milvus, Clients
<1>9. section'[p] \in DOMAIN Program(kind'[p])
  BY <1>5 DEF SessionInv, SessionTypeOK
<1>10. at'[p] <= Len(This(p)'.steps) + 1
  BY <1>t, <1>1, <1>2, <1>5
<1>. QED
  BY <1>4, <1>6, <1>7, <1>8, <1>9, <1>10, ProcessStep

\* A step that can only fail changes no client (StepRefused).
LEMMA StepRefusedInv ==
    ASSUME SessionInv, NEW p \in Processes, StepRefused(p)
    PROVE  SessionInv'
<1>1. /\ status[p] = "running" /\ status' = [status EXCEPT ![p] = "failing"]
      /\ UNCHANGED <<client, orphans, kind, input, section, at, limit, faults, faulted>>
      /\ UNCHANGED <<answer, closed, replaced>>
  BY DEF StepRefused, AtStep, callerVars
<1>2. OnlyProcess(p)
  BY <1>1 DEF OnlyProcess, SessionInv, SessionTypeOK, States
<1>3. status'[p] = "failing"
  BY <1>1 DEF SessionInv, SessionTypeOK
<1>4. This(p)' = This(p) /\ First(p)' = First(p) /\ Taken(p)' = Taken(p)
  BY <1>1 DEF This, First, Taken
<1>5. HoldsItsOwn(p)'
  <2>1. orphans[p] = 0
    BY <1>1, ThisSection DEF HoldsItsOwn
  <2>2. \A x \in Clients \ {"writer"} : client[p][x] = "open" =>
            x = This(p).on /\ at[p] > This(p).before
    BY <1>1, OpenIsDeferred
  <2>. QED
    BY <1>1, <1>3, <1>4, <2>1, <2>2 DEF HoldsItsOwn, Ended
<1>6. HasChecked(p)'
  BY <1>1, <1>4, ThisSection DEF HasChecked
<1>7. /\ \A x \in Milvus : client'[p][x] # "dead"
      /\ client'[p]["memory"] = "none"
      /\ section'[p] \in DOMAIN Program(kind'[p])
      /\ at'[p] <= Len(This(p)'.steps) + 1
  BY <1>1, <1>4 DEF SessionInv, SessionTypeOK, Users
<1>. QED
  BY <1>2, <1>5, <1>6, <1>7, ProcessStep

\* A call that fails can leave a connection behind, whose Close is deferred
\* (StepFails).
LEMMA StepFailsInv ==
    ASSUME SessionInv, NEW p \in Processes, StepFails(p)
    PROVE  SessionInv'
<1>. DEFINE s == This(p)
            i == at[p]
            x == This(p).on
<1>t. /\ p \in Users /\ ClientsTyped /\ orphans \in [Users -> Nat]
      /\ section[p] \in Nat \ {0} /\ i \in Nat \ {0}
      /\ WellOrdered(s) /\ x \in Clients
      /\ DOMAIN s.steps = 1..Len(s.steps) /\ Len(s.steps) \in Nat
      /\ DOMAIN First(p).steps = 1..Len(First(p).steps) /\ Len(First(p).steps) \in Nat
      /\ section[p] = 1 => s = First(p)
      /\ HoldsItsOwn(p) /\ HasChecked(p)
      /\ client[p]["memory"] = "none"
      /\ \A y \in Milvus : client[p][y] # "dead"
  BY ThisSection DEF WellOrdered
<1>1. /\ status[p] = "running" /\ i \in DOMAIN s.steps
      /\ status' = [status EXCEPT ![p] = "failing"]
      /\ faults' = faults + 1 /\ faulted' = [faulted EXCEPT ![p] = TRUE]
      /\ UNCHANGED <<kind, input, section, at, limit, answer, closed, replaced>>
  <2>1. ~(i > Len(s.steps))
    BY DEF StepFails, AtStep, Done
  <2>. QED
    BY <1>t, <2>1 DEF StepFails, AtStep, callerVars
<1>2. status'[p] = "failing"
  BY <1>1 DEF SessionInv, SessionTypeOK
<1>3. /\ client' \in [Users -> [Clients -> States]]
      /\ orphans' = orphans
      /\ \A u \in Users : u # p => client'[u] = client[u]
      /\ \A y \in Clients : client'[p][y] # client[p][y] =>
            y = x /\ y \in Postgres /\ s.steps[i] \in Calls
  <2>1. CASE s.steps[i] \in Calls
    <3>1. CallErrs(p, x)
      BY <2>1 DEF StepFails, Step
    <3>2. orphans' = orphans
      BY <1>t, <3>1, ErrorEffect
    <3>3. PICK left \in States : /\ Becomes(p, x, left)
                                 /\ left # client[p][x] => x \in Postgres
      BY <1>t, <3>1, ErrorEffect
    <3>. QED
      BY <2>1, <3>2, <3>3 DEF Becomes
  <2>2. CASE s.steps[i] \notin Calls
    BY <1>t, <2>2 DEF StepFails, Step, ClientsTyped
  <2>. QED
    BY <2>1, <2>2
<1>4. OnlyProcess(p)
  <2>1. faults' \in Nat /\ faulted' \in [Processes -> BOOLEAN]
    BY <1>1 DEF SessionInv, SessionTypeOK
  <2>. QED
    BY <1>t, <1>1, <1>3, <2>1 DEF OnlyProcess, SessionInv, SessionTypeOK
<1>5. This(p)' = s /\ First(p)' = First(p) /\ Taken(p)' = Taken(p)
  BY <1>1 DEF This, First, Taken
<1>6. HoldsItsOwn(p)'
  <2>1. orphans[p] = 0
    BY <1>t, <1>1 DEF HoldsItsOwn
  <2>2. ASSUME NEW y \in Clients \ {"writer"}, client'[p][y] = "open"
        PROVE  y = x /\ i > s.before
    <3>1. CASE client'[p][y] = client[p][y]
      BY <1>1, <2>2, <3>1, OpenIsDeferred
    <3>2. CASE client'[p][y] # client[p][y]
      <4>1. y = x /\ y \in Postgres /\ s.steps[i] \in Calls
        BY <1>3, <3>2
      <4>2. x \notin {"writer", "memory"} /\ x \notin Milvus
        BY <2>2, <4>1 DEF Postgres, Milvus
      <4>. QED
        BY <1>t, <1>1, <4>1, <4>2 DEF WellOrdered
    <3>. QED
      BY <3>1, <3>2
  <2>. QED
    BY <1>1, <1>2, <1>3, <1>5, <2>1, <2>2 DEF HoldsItsOwn, Ended
<1>7. HasChecked(p)'
  <2>1. ASSUME NEW y \in Clients, client'[p][y] # "none"
        PROVE  section[p] > 1 \/
               \E j \in DOMAIN First(p).steps : j <= i /\ First(p).steps[j] \in Calls
    <3>1. CASE client'[p][y] = client[p][y]
      BY <1>t, <1>1, <2>1, <3>1 DEF HasChecked
    <3>2. CASE client'[p][y] # client[p][y]
      <4>1. s.steps[i] \in Calls
        BY <1>3, <3>2
      <4>. QED
        BY <1>t, <1>1, <4>1
    <3>. QED
      BY <3>1, <3>2
  <2>. QED
    BY <1>t, <1>1, <1>5, <2>1 DEF HasChecked
<1>8. /\ \A y \in Milvus : client'[p][y] # "dead"
      /\ client'[p]["memory"] = "none"
  BY <1>t, <1>3 DEF Milvus, Postgres, Clients
<1>9. /\ section'[p] \in DOMAIN Program(kind'[p])
      /\ at'[p] <= Len(This(p)'.steps) + 1
  BY <1>1, <1>5 DEF SessionInv, SessionTypeOK
<1>. QED
  BY <1>4, <1>6, <1>7, <1>8, <1>9, ProcessStep

\* What a section opened is closed when it returns (LeaveSection).
LEMMA LeaveSectionInv ==
    ASSUME SessionInv, NEW p \in Processes, LeaveSection(p)
    PROVE  SessionInv'
<1>. DEFINE s == This(p)
            i == at[p]
            x == This(p).on
            last == ~(status[p] = "running" /\ section[p] < Len(Program(kind[p])))
<1>t. /\ p \in Users /\ ClientsTyped /\ orphans \in [Users -> Nat]
      /\ kind[p] \in Kinds
      /\ section[p] \in Nat \ {0} /\ i \in Nat \ {0}
      /\ Len(Program(kind[p])) \in Nat
      /\ section[p] \in 1..Len(Program(kind[p]))
      /\ WellOrdered(s) /\ x \in Clients
      /\ DOMAIN s.steps = 1..Len(s.steps) /\ Len(s.steps) \in Nat
      /\ DOMAIN First(p).steps = 1..Len(First(p).steps) /\ Len(First(p).steps) \in Nat
      /\ section[p] = 1 => s = First(p)
      /\ HoldsItsOwn(p) /\ HasChecked(p)
      /\ client[p]["memory"] = "none"
      /\ \A y \in Milvus : client[p][y] # "dead"
  BY ThisSection DEF WellOrdered
<1>1. /\ status[p] \in {"running", "failing"}
      /\ status[p] = "running" => i > Len(s.steps)
      /\ UNCHANGED <<kind, input, limit, faults, faulted, answer, closed, replaced>>
  BY DEF LeaveSection, Done, callerVars
<1>2. /\ client' \in [Users -> [Clients -> States]]
      /\ orphans' = orphans
      /\ \A u \in Users : u # p => client'[u] = client[u]
      /\ \A y \in Clients : client'[p][y] # client[p][y] =>
            y = x /\ client[p][y] # "none" /\ client'[p][y] = AfterClose(p, y)
      /\ i > s.before => client'[p][x] = AfterClose(p, x)
  <2>1. CASE i > s.before
    <3>1. CloseClient(p, x)
      BY <2>1 DEF LeaveSection
    <3>2. Becomes(p, x, AfterClose(p, x)) /\ orphans' = orphans
      BY <1>t, <3>1, CloseEffect
    <3>3. client[p][x] = "none" => AfterClose(p, x) = "none"
      BY DEF AfterClose
    <3>. QED
      BY <1>t, <3>2, <3>3 DEF Becomes
  <2>2. CASE ~(i > s.before)
    BY <1>t, <2>2 DEF LeaveSection, ClientsTyped
  <2>. QED
    BY <2>1, <2>2
<1>3. AfterClose(p, x) # "open" /\ (x \in Milvus \union {"memory"} => AfterClose(p, x) = "none")
  BY DEF AfterClose, Milvus, Postgres
<1>4. \A y \in Clients \ {"writer"} : client'[p][y] # "open"
  <2>. SUFFICES ASSUME NEW y \in Clients \ {"writer"}, client'[p][y] = "open" PROVE FALSE
    OBVIOUS
  <2>1. client[p][y] = "open"
    BY <1>2, <1>3
  <2>2. y = x /\ i > s.before
    BY <1>1, <2>1, OpenIsDeferred
  <2>. QED
    BY <1>2, <1>3, <2>2
<1>5. /\ \A y \in Milvus : client'[p][y] # "dead"
      /\ client'[p]["memory"] = "none"
  BY <1>t, <1>2, <1>3 DEF Milvus, Clients
<1>6. (\E y \in Clients : client'[p][y] # "none") => \E y \in Clients : client[p][y] # "none"
  BY <1>2
<1>7. orphans'[p] = 0
  BY <1>t, <1>1, <1>2 DEF HoldsItsOwn
<1>8. ASSUME ~last PROVE SessionInv'
  <2>1. /\ status[p] = "running" /\ section[p] < Len(Program(kind[p]))
        /\ section' = [section EXCEPT ![p] = section[p] + 1]
        /\ at' = [at EXCEPT ![p] = 1]
        /\ status' = status
    BY <1>8 DEF LeaveSection
  <2>2. section'[p] = section[p] + 1 /\ at'[p] = 1 /\ status'[p] = "running"
    BY <2>1 DEF SessionInv, SessionTypeOK
  <2>3. OnlyProcess(p)
    BY <1>t, <1>1, <1>2, <2>1 DEF OnlyProcess, SessionInv, SessionTypeOK
  <2>4. section'[p] \in DOMAIN Program(kind'[p])
    <3>1. DOMAIN Program(kind[p]) = 1..Len(Program(kind[p]))
      BY <1>t, Programs
    <3>2. section[p] + 1 \in 1..Len(Program(kind[p]))
      BY <1>t, <2>1
    <3>. QED
      BY <1>1, <2>2, <3>1, <3>2
  <2>5. at'[p] <= Len(This(p)'.steps) + 1
    <3>1. WellOrdered(This(p)')
      BY <1>t, <1>1, <2>4, Programs DEF This
    <3>2. Len(This(p)'.steps) \in Nat
      BY <3>1 DEF WellOrdered
    <3>. QED
      BY <2>2, <3>2
  <2>6. HoldsItsOwn(p)'
    BY <1>4, <1>7, <2>2 DEF HoldsItsOwn, Ended
  <2>7. HasChecked(p)'
    <3>1. First(p)' = First(p)
      BY <1>1 DEF First
    <3>2. section'[p] > 1
      BY <1>t, <2>2
    <3>3. ASSUME NEW j \in DOMAIN First(p).steps
          PROVE  Passes(kind[p], input[p], First(p).steps[j])
      <4>1. j <= Taken(p)
        BY <1>t, <1>1, <2>1 DEF Taken
      <4>. QED
        BY <1>t, <2>1, <4>1 DEF HasChecked
    <3>. QED
      BY <1>1, <3>1, <3>2, <3>3 DEF HasChecked
  <2>. QED
    BY <1>5, <2>3, <2>4, <2>5, <2>6, <2>7, ProcessStep
<1>9. ASSUME last PROVE SessionInv'
  <2>1. /\ status' = [status EXCEPT ![p] =
                        IF status[p] = "failing" THEN "failed" ELSE "succeeded"]
        /\ section' = section /\ at' = at
    BY <1>9 DEF LeaveSection
  <2>2. status'[p] \in Ended
    BY <2>1 DEF SessionInv, SessionTypeOK, Ended
  <2>3. OnlyProcess(p)
    BY <1>t, <1>1, <1>2, <2>1 DEF OnlyProcess, SessionInv, SessionTypeOK, Ended
  <2>4. This(p)' = s /\ First(p)' = First(p) /\ Taken(p)' = Taken(p)
    BY <1>1, <2>1 DEF This, First, Taken
  <2>5. /\ section'[p] \in DOMAIN Program(kind'[p])
        /\ at'[p] <= Len(This(p)'.steps) + 1
    BY <1>1, <2>1, <2>4 DEF SessionInv, SessionTypeOK
  <2>6. HoldsItsOwn(p)'
    BY <1>4, <1>7, <2>2 DEF HoldsItsOwn, Ended
  <2>7. HasChecked(p)'
    BY <1>t, <1>1, <1>6, <2>1, <2>4 DEF HasChecked
  <2>. QED
    BY <1>5, <2>3, <2>5, <2>6, <2>7, ProcessStep
<1>. QED
  BY <1>8, <1>9

\* A killed process does nothing more, and the next one starts anew (Kill, Exit).
LEMMA EndInv ==
    ASSUME SessionInv, NEW p \in Processes, Kill(p) \/ Exit(p)
    PROVE  SessionInv'
<1>t. /\ p \in Users /\ ClientsTyped /\ orphans \in [Users -> Nat]
      /\ kind[p] \in Kinds /\ HoldsItsOwn(p) /\ HasChecked(p)
      /\ client[p]["memory"] = "none"
      /\ \A y \in Milvus : client[p][y] # "dead"
  BY ThisSection
<1>1. CASE Kill(p)
  <2>1. /\ status[p] \in {"running", "failing"}
        /\ status' = [status EXCEPT ![p] = "killed"]
        /\ faults' = faults + 1 /\ faulted' = [faulted EXCEPT ![p] = TRUE]
        /\ UNCHANGED <<client, orphans, kind, input, section, at, limit>>
        /\ UNCHANGED <<answer, closed, replaced>>
    BY <1>1 DEF Kill, callerVars
  <2>2. status'[p] = "killed"
    BY <2>1 DEF SessionInv, SessionTypeOK
  <2>3. OnlyProcess(p)
    BY <2>1 DEF OnlyProcess, SessionInv, SessionTypeOK, States
  <2>4. This(p)' = This(p) /\ First(p)' = First(p) /\ Taken(p)' = Taken(p)
    BY <2>1 DEF This, First, Taken
  <2>5. HoldsItsOwn(p)'
    BY <2>2 DEF HoldsItsOwn, Ended
  <2>6. HasChecked(p)'
    BY <1>t, <2>1, <2>4 DEF HasChecked
  <2>7. /\ section'[p] \in DOMAIN Program(kind'[p])
        /\ at'[p] <= Len(This(p)'.steps) + 1
    BY <2>1, <2>4 DEF SessionInv, SessionTypeOK
  <2>. QED
    BY <1>t, <2>1, <2>3, <2>5, <2>6, <2>7, ProcessStep
<1>2. CASE Exit(p)
  <2>1. /\ status' = [status EXCEPT ![p] = "idle"]
        /\ section' = [section EXCEPT ![p] = 1]
        /\ at' = [at EXCEPT ![p] = 1]
        /\ faulted' = [faulted EXCEPT ![p] = FALSE]
        /\ client' = [client EXCEPT ![p] = [x \in Clients |-> "none"]]
        /\ orphans' = [orphans EXCEPT ![p] = 0]
        /\ UNCHANGED <<kind, input, limit, faults, answer, closed, replaced>>
    BY <1>2 DEF Exit, callerVars
  <2>2. /\ status'[p] = "idle" /\ section'[p] = 1 /\ at'[p] = 1
        /\ orphans'[p] = 0 /\ \A x \in Clients : client'[p][x] = "none"
    BY <1>t, <2>1 DEF SessionInv, SessionTypeOK, ClientsTyped
  <2>3. /\ client' \in [Users -> [Clients -> States]]
        /\ orphans' \in [Users -> Nat]
        /\ \A u \in Users : u # p => client'[u] = client[u] /\ orphans'[u] = orphans[u]
    BY <1>t, <2>1 DEF ClientsTyped, States
  <2>4. OnlyProcess(p)
    BY <2>1, <2>3 DEF OnlyProcess, SessionInv, SessionTypeOK
  <2>5. HoldsItsOwn(p)' /\ HasChecked(p)'
    BY <2>2 DEF HoldsItsOwn, HasChecked, Ended
  <2>6. section'[p] \in DOMAIN Program(kind'[p])
    BY <1>t, <2>1, <2>2, Programs
  <2>7. at'[p] <= Len(This(p)'.steps) + 1
    <3>1. WellOrdered(This(p)')
      BY <1>t, <2>1, <2>6, Programs DEF This
    <3>. QED
      BY <2>2, <3>1 DEF WellOrdered
  <2>8. /\ \A x \in Milvus : client'[p][x] # "dead"
        /\ client'[p]["memory"] = "none"
    BY <2>2 DEF Milvus, Clients
  <2>. QED
    BY <2>4, <2>5, <2>6, <2>7, <2>8, ProcessStep
<1>. QED
  BY <1>1, <1>2

-----------------------------------------------------------------------------
(* The callers.  *)

\* Only caller c and its clients change (the actions of a caller).
OnlyCaller(c) ==
    /\ client' \in [Users -> [Clients -> States]]
    /\ orphans' \in [Users -> Nat]
    /\ \A u \in Users : u # c => client'[u] = client[u] /\ orphans'[u] = orphans[u]
    /\ closed' \in [Callers -> [Clients -> BOOLEAN]]
    /\ answer' \in [Callers -> [Clients -> {"none", "answer", "error"}]]
    /\ replaced' \in [Callers -> Nat]
    /\ \A d \in Callers : d # c =>
        closed'[d] = closed[d] /\ answer'[d] = answer[d] /\ replaced'[d] = replaced[d]
    /\ faults' \in Nat
    /\ UNCHANGED <<limit, kind, input, section, at, status, faulted>>

\* A step of a caller keeps the invariant if it does for that caller.
LEMMA CallerStep ==
    ASSUME SessionInv, NEW c \in Callers, OnlyCaller(c),
           \A x \in Milvus : client'[c][x] # "dead",
           client'[c]["memory"] = "none",
           KnowsWhatItClosed(c)'
    PROVE  SessionInv'
<1>. USE SessionAssumption
<1>1. \A q \in Processes : HoldsItsOwn(q)' /\ HasChecked(q)'
  <2>. SUFFICES ASSUME NEW q \in Processes PROVE HoldsItsOwn(q)' /\ HasChecked(q)'
    OBVIOUS
  <2>1. q # c /\ q \in Users
    BY DEF Users
  <2>. QED
    BY <2>1, ProcessKept DEF OnlyCaller, SessionInv
<1>2. \A d \in Callers : KnowsWhatItClosed(d)'
  <2>. SUFFICES ASSUME NEW d \in Callers, d # c PROVE KnowsWhatItClosed(d)'
    OBVIOUS
  <2>. QED
    BY CallerKept DEF OnlyCaller, SessionInv, Users
<1>3. \A u \in Users : client'[u]["memory"] = "none"
  BY DEF OnlyCaller, SessionInv
<1>4. SessionTypeOK'
  <2>1. \A u \in Users : \A x \in Milvus \union {"memory"} : client'[u][x] # "dead"
    <3>1. \A u \in Users : \A x \in Milvus : u # c => client'[u][x] # "dead"
      BY DEF OnlyCaller, SessionInv, SessionTypeOK
    <3>. QED
      BY <3>1, <1>3
  <2>2. \A q \in Processes : section'[q] \in DOMAIN Program(kind'[q])
    BY DEF OnlyCaller, SessionInv, SessionTypeOK
  <2>3. \A q \in Processes : at'[q] <= Len(This(q)'.steps) + 1
    BY DEF OnlyCaller, SessionInv, SessionTypeOK, This
  <2>4. /\ kind' \in [Processes -> Kinds] /\ input' \in [Processes -> Inputs]
        /\ section' \in [Processes -> Nat] /\ at' \in [Processes -> Nat \ {0}]
        /\ status' \in [Processes -> {"idle", "running", "failing", "killed"} \union Ended]
        /\ limit' \in Limits /\ faulted' \in [Processes -> BOOLEAN]
    BY DEF OnlyCaller, SessionInv, SessionTypeOK
  <2>. QED
    BY <2>1, <2>2, <2>3, <2>4 DEF OnlyCaller, SessionTypeOK, States
<1>. QED
  BY <1>1, <1>2, <1>3, <1>4 DEF SessionInv

\* The update of a value that a caller has per client (closed, answer).
LEMMA PerClient ==
    ASSUME NEW S, NEW f \in [Callers -> [Clients -> S]], NEW c \in Callers, NEW x \in Clients,
           NEW e \in S, NEW g, g = [f EXCEPT ![c][x] = e]
    PROVE  /\ g \in [Callers -> [Clients -> S]]
           /\ \A d \in Callers : d # c => g[d] = f[d]
           /\ \A y \in Clients : g[c][y] = IF y = x THEN e ELSE f[c][y]
<1>1. f[c] \in [Clients -> S] /\ [f[c] EXCEPT ![x] = e] \in [Clients -> S]
  OBVIOUS
<1>2. g = [f EXCEPT ![c] = [f[c] EXCEPT ![x] = e]]
  OBVIOUS
<1>. QED
  BY <1>1, <1>2

\* What a caller knows and has (KnowsWhatItClosed).
LEMMA CallerFacts ==
    ASSUME SessionInv, NEW c \in Callers
    PROVE  /\ c \in Users /\ ClientsTyped /\ orphans \in [Users -> Nat]
           /\ closed \in [Callers -> [Clients -> BOOLEAN]]
           /\ answer \in [Callers -> [Clients -> {"none", "answer", "error"}]]
           /\ replaced \in [Callers -> Nat]
           /\ KnowsWhatItClosed(c)
           /\ client[c]["memory"] = "none"
           /\ \A x \in Milvus : client[c][x] # "dead"
           /\ faults \in Nat
BY DEF SessionInv, SessionTypeOK, Users, ClientsTyped, States

\* Connect makes a closed connector open, or is refused (CallConnect).
LEMMA CallConnectInv ==
    ASSUME SessionInv, NEW c \in Callers, NEW x \in Library, CallConnect(c, x)
    PROVE  SessionInv'
<1>t. /\ c \in Users /\ ClientsTyped /\ orphans \in [Users -> Nat]
      /\ closed \in [Callers -> [Clients -> BOOLEAN]]
      /\ answer \in [Callers -> [Clients -> {"none", "answer", "error"}]]
      /\ replaced \in [Callers -> Nat]
      /\ KnowsWhatItClosed(c)
      /\ client[c]["memory"] = "none"
      /\ \A y \in Milvus : client[c][y] # "dead"
      /\ faults \in Nat
      /\ x \in Clients /\ x # "memory"
  BY CallerFacts DEF Library, Clients, Milvus, Postgres
<1>1. /\ CallSucceeds(c, x, "connect")
      /\ closed' = [closed EXCEPT ![c][x] = FALSE]
      /\ replaced' = IF x \in Milvus /\ client[c][x] = "open"
                     THEN [replaced EXCEPT ![c] = @ + 1] ELSE replaced
      /\ answer' = answer
      /\ UNCHANGED <<limit, faults, kind, input, section, at, status, faulted>>
  BY DEF CallConnect, processVars
<1>2. /\ Becomes(c, x, "open")
      /\ orphans' \in [Users -> Nat]
      /\ \A v \in Users : v # c => orphans'[v] = orphans[v]
      /\ orphans'[c] = IF x \in Milvus /\ client[c][x] = "open"
                        THEN orphans[c] + 1 ELSE orphans[c]
  BY <1>t, <1>1, SuccessEffect
<1>3. /\ closed' \in [Callers -> [Clients -> BOOLEAN]]
      /\ \A d \in Callers : d # c => closed'[d] = closed[d]
      /\ \A y \in Clients : closed'[c][y] = IF y = x THEN FALSE ELSE closed[c][y]
  <2>1. closed[c] \in [Clients -> BOOLEAN]
    BY <1>t
  <2>2. [closed[c] EXCEPT ![x] = FALSE] \in [Clients -> BOOLEAN]
    BY <2>1
  <2>3. closed' = [closed EXCEPT ![c] = [closed[c] EXCEPT ![x] = FALSE]]
    BY <1>1
  <2>. QED
    BY <1>t, <2>1, <2>2, <2>3
<1>4. /\ replaced' \in [Callers -> Nat]
      /\ \A d \in Callers : d # c => replaced'[d] = replaced[d]
      /\ replaced'[c] = IF x \in Milvus /\ client[c][x] = "open"
                         THEN replaced[c] + 1 ELSE replaced[c]
  BY <1>t, <1>1
<1>5. OnlyCaller(c)
  BY <1>t, <1>1, <1>2, <1>3, <1>4 DEF OnlyCaller, Becomes
<1>6. KnowsWhatItClosed(c)'
  <2>1. ASSUME NEW y \in Library, closed'[c][y]
        PROVE  /\ answer'[c][y] # "answer"
               /\ client'[c][y] = IF y \in Postgres THEN "dead" ELSE "none"
    <3>1. y \in Clients /\ y # x /\ closed[c][y]
      BY <1>3, <2>1 DEF Library, Clients, Postgres, Milvus
    <3>. QED
      BY <1>t, <1>1, <1>2, <3>1 DEF KnowsWhatItClosed, Becomes
  <2>2. \A y \in Clients \ Library : client'[c][y] = "none"
    BY <1>t, <1>2 DEF KnowsWhatItClosed, Becomes
  <2>3. orphans'[c] = replaced'[c]
    BY <1>t, <1>2, <1>4 DEF KnowsWhatItClosed
  <2>. QED
    BY <2>1, <2>2, <2>3 DEF KnowsWhatItClosed
<1>7. /\ \A y \in Milvus : client'[c][y] # "dead"
      /\ client'[c]["memory"] = "none"
  BY <1>t, <1>2 DEF Becomes, Milvus, Clients
<1>. QED
  BY <1>5, <1>6, <1>7, CallerStep

\* Only a connector that was not closed answers (Ask).
LEMMA AskInv ==
    ASSUME SessionInv, NEW c \in Callers, NEW x \in Library, Ask(c, x)
    PROVE  SessionInv'
<1>t. /\ c \in Users /\ ClientsTyped /\ orphans \in [Users -> Nat]
      /\ closed \in [Callers -> [Clients -> BOOLEAN]]
      /\ answer \in [Callers -> [Clients -> {"none", "answer", "error"}]]
      /\ replaced \in [Callers -> Nat]
      /\ KnowsWhatItClosed(c)
      /\ client[c]["memory"] = "none"
      /\ \A y \in Milvus : client[c][y] # "dead"
      /\ faults \in Nat
      /\ x \in Clients /\ x # "memory"
  BY CallerFacts DEF Library, Clients, Milvus, Postgres
<1>1. /\ CallSucceeds(c, x, "search")
      /\ answer' = [answer EXCEPT ![c][x] = "answer"]
      /\ closed' = closed /\ replaced' = replaced
      /\ UNCHANGED <<limit, faults, kind, input, section, at, status, faulted>>
  BY DEF Ask, processVars
<1>2. /\ Becomes(c, x, "open")
      /\ Accepts(c, x, "search")
      /\ orphans' \in [Users -> Nat]
      /\ \A v \in Users : v # c => orphans'[v] = orphans[v]
      /\ orphans'[c] = orphans[c]
  BY <1>t, <1>1, SuccessEffect
<1>3. /\ answer' \in [Callers -> [Clients -> {"none", "answer", "error"}]]
      /\ \A d \in Callers : d # c => answer'[d] = answer[d]
      /\ \A y \in Clients : answer'[c][y] = IF y = x THEN "answer" ELSE answer[c][y]
  BY <1>t, <1>1, PerClient
<1>4. OnlyCaller(c)
  BY <1>t, <1>1, <1>2, <1>3 DEF OnlyCaller, Becomes
<1>5. ~closed[c][x]
  <2>. SUFFICES ASSUME closed[c][x] PROVE FALSE
    OBVIOUS
  <2>1. client[c][x] = IF x \in Postgres THEN "dead" ELSE "none"
    BY <1>t DEF KnowsWhatItClosed
  <2>. QED
    BY <1>t, <1>2, <2>1 DEF Accepts, Milvus, Postgres
<1>6. KnowsWhatItClosed(c)'
  <2>1. ASSUME NEW y \in Library, closed'[c][y]
        PROVE  /\ answer'[c][y] # "answer"
               /\ client'[c][y] = IF y \in Postgres THEN "dead" ELSE "none"
    <3>1. y \in Clients /\ y # x /\ closed[c][y]
      BY <1>1, <1>5, <2>1 DEF Library, Clients, Postgres, Milvus
    <3>. QED
      BY <1>t, <1>2, <1>3, <3>1 DEF KnowsWhatItClosed, Becomes
  <2>2. \A y \in Clients \ Library : client'[c][y] = "none"
    BY <1>t, <1>2 DEF KnowsWhatItClosed, Becomes
  <2>3. orphans'[c] = replaced'[c]
    BY <1>t, <1>1, <1>2 DEF KnowsWhatItClosed
  <2>. QED
    BY <2>1, <2>2, <2>3 DEF KnowsWhatItClosed
<1>7. /\ \A y \in Milvus : client'[c][y] # "dead"
      /\ client'[c]["memory"] = "none"
  BY <1>t, <1>2 DEF Becomes, Milvus, Clients
<1>. QED
  BY <1>4, <1>6, <1>7, CallerStep

\* A call that fails leaves a closed connector closed (CallFails).
LEMMA CallFailsInv ==
    ASSUME SessionInv, NEW c \in Callers, NEW x \in Library, CallFails(c, x)
    PROVE  SessionInv'
<1>t. /\ c \in Users /\ ClientsTyped /\ orphans \in [Users -> Nat]
      /\ closed \in [Callers -> [Clients -> BOOLEAN]]
      /\ answer \in [Callers -> [Clients -> {"none", "answer", "error"}]]
      /\ replaced \in [Callers -> Nat]
      /\ KnowsWhatItClosed(c)
      /\ client[c]["memory"] = "none"
      /\ \A y \in Milvus : client[c][y] # "dead"
      /\ faults \in Nat
      /\ x \in Clients /\ x # "memory"
  BY CallerFacts DEF Library, Clients, Milvus, Postgres
<1>1. PICK call \in {"connect", "search"} :
        /\ \/ ~Accepts(c, x, call) /\ UNCHANGED <<client, orphans, faults>>
           \/ faults < MaxFaults /\ faults' = faults + 1 /\ CallErrs(c, x)
        /\ answer' = IF call = "search" THEN [answer EXCEPT ![c][x] = "error"] ELSE answer
        /\ closed' = closed /\ replaced' = replaced
        /\ UNCHANGED <<limit, kind, input, section, at, status, faulted>>
  BY DEF CallFails, processVars
<1>2. /\ client' \in [Users -> [Clients -> States]]
      /\ orphans' = orphans /\ faults' \in Nat
      /\ \A u \in Users : u # c => client'[u] = client[u]
      /\ \A y \in Clients : client'[c][y] # client[c][y] =>
            y = x /\ x \in Postgres /\ client[c][x] # "dead"
  <2>1. CASE UNCHANGED <<client, orphans, faults>>
    BY <1>t, <2>1 DEF ClientsTyped
  <2>2. CASE faults' = faults + 1 /\ CallErrs(c, x)
    <3>1. orphans' = orphans
      BY <1>t, <2>2, ErrorEffect
    <3>2. PICK left \in States :
            /\ Becomes(c, x, left)
            /\ left # client[c][x] => x \in Postgres /\ client[c][x] # "dead"
      BY <1>t, <2>2, ErrorEffect
    <3>3. faults' \in Nat
      BY <1>t, <2>2
    <3>. QED
      BY <3>1, <3>2, <3>3 DEF Becomes
  <2>. QED
    BY <1>1, <2>1, <2>2
<1>3. /\ answer' \in [Callers -> [Clients -> {"none", "answer", "error"}]]
      /\ \A d \in Callers : d # c => answer'[d] = answer[d]
      /\ \A y \in Clients : answer'[c][y] = answer[c][y] \/ answer'[c][y] = "error"
  <2>1. CASE call = "search"
    <3>1. answer' = [answer EXCEPT ![c][x] = "error"]
      BY <1>1, <2>1
    <3>2. /\ answer' \in [Callers -> [Clients -> {"none", "answer", "error"}]]
          /\ \A d \in Callers : d # c => answer'[d] = answer[d]
          /\ \A y \in Clients : answer'[c][y] = IF y = x THEN "error" ELSE answer[c][y]
      BY <1>t, <3>1, PerClient
    <3>. QED
      BY <3>2
  <2>2. CASE call # "search"
    BY <1>t, <1>1, <2>2
  <2>. QED
    BY <2>1, <2>2
<1>4. OnlyCaller(c)
  BY <1>t, <1>1, <1>2, <1>3 DEF OnlyCaller
<1>5. KnowsWhatItClosed(c)'
  <2>1. ASSUME NEW y \in Library, closed'[c][y]
        PROVE  /\ answer'[c][y] # "answer"
               /\ client'[c][y] = IF y \in Postgres THEN "dead" ELSE "none"
    <3>1. y \in Clients /\ closed[c][y]
      BY <1>1, <2>1 DEF Library, Clients, Postgres, Milvus
    <3>2. /\ answer[c][y] # "answer"
          /\ client[c][y] = IF y \in Postgres THEN "dead" ELSE "none"
      BY <1>t, <3>1 DEF KnowsWhatItClosed
    <3>. QED
      BY <1>2, <1>3, <3>1, <3>2
  <2>2. \A y \in Clients \ Library : client'[c][y] = "none"
    BY <1>t, <1>2 DEF KnowsWhatItClosed
  <2>3. orphans'[c] = replaced'[c]
    BY <1>t, <1>1, <1>2 DEF KnowsWhatItClosed
  <2>. QED
    BY <2>1, <2>2, <2>3 DEF KnowsWhatItClosed
<1>6. /\ \A y \in Milvus : client'[c][y] # "dead"
      /\ client'[c]["memory"] = "none"
  BY <1>t, <1>2 DEF Milvus, Postgres, Clients
<1>. QED
  BY <1>4, <1>5, <1>6, CallerStep

\* Close leaves nothing open (CallClose).
LEMMA CallCloseInv ==
    ASSUME SessionInv, NEW c \in Callers, NEW x \in Library, CallClose(c, x)
    PROVE  SessionInv'
<1>t. /\ c \in Users /\ ClientsTyped /\ orphans \in [Users -> Nat]
      /\ closed \in [Callers -> [Clients -> BOOLEAN]]
      /\ answer \in [Callers -> [Clients -> {"none", "answer", "error"}]]
      /\ replaced \in [Callers -> Nat]
      /\ KnowsWhatItClosed(c)
      /\ client[c]["memory"] = "none"
      /\ \A y \in Milvus : client[c][y] # "dead"
      /\ faults \in Nat
      /\ x \in Clients /\ x # "memory"
  BY CallerFacts DEF Library, Clients, Milvus, Postgres
<1>1. /\ CloseClient(c, x)
      /\ closed' = [closed EXCEPT ![c][x] = closed[c][x] \/ client[c][x] # "none"]
      /\ answer' = [answer EXCEPT ![c][x] = "none"]
      /\ replaced' = replaced
      /\ UNCHANGED <<limit, faults, kind, input, section, at, status, faulted>>
  BY DEF CallClose, processVars
<1>2. Becomes(c, x, AfterClose(c, x)) /\ orphans' = orphans
  BY <1>t, <1>1, CloseEffect
<1>3. /\ closed' \in [Callers -> [Clients -> BOOLEAN]]
      /\ \A d \in Callers : d # c => closed'[d] = closed[d]
      /\ \A y \in Clients : closed'[c][y] =
            IF y = x THEN closed[c][x] \/ client[c][x] # "none" ELSE closed[c][y]
  <2>1. (closed[c][x] \/ client[c][x] # "none") \in BOOLEAN
    OBVIOUS
  <2>. QED
    BY <1>t, <1>1, <2>1, PerClient
<1>4. /\ answer' \in [Callers -> [Clients -> {"none", "answer", "error"}]]
      /\ \A d \in Callers : d # c => answer'[d] = answer[d]
      /\ \A y \in Clients : answer'[c][y] = IF y = x THEN "none" ELSE answer[c][y]
  BY <1>t, <1>1, PerClient
<1>5. OnlyCaller(c)
  BY <1>t, <1>1, <1>2, <1>3, <1>4 DEF OnlyCaller, Becomes
<1>6. KnowsWhatItClosed(c)'
  <2>1. ASSUME NEW y \in Library, closed'[c][y], y # x
        PROVE  /\ answer'[c][y] # "answer"
               /\ client'[c][y] = IF y \in Postgres THEN "dead" ELSE "none"
    <3>1. y \in Clients /\ closed[c][y]
      BY <1>3, <2>1 DEF Library, Clients, Postgres, Milvus
    <3>. QED
      BY <1>t, <1>2, <1>4, <2>1, <3>1 DEF KnowsWhatItClosed, Becomes
  <2>2. ASSUME closed'[c][x]
        PROVE  /\ answer'[c][x] # "answer"
               /\ client'[c][x] = IF x \in Postgres THEN "dead" ELSE "none"
    <3>1. closed[c][x] \/ client[c][x] # "none"
      BY <1>t, <1>3, <2>2
    <3>2. x \in Postgres => client[c][x] # "none"
      BY <1>t, <3>1 DEF KnowsWhatItClosed
    <3>3. AfterClose(c, x) = IF x \in Postgres THEN "dead" ELSE "none"
      BY <3>2 DEF AfterClose
    <3>. QED
      BY <1>t, <1>2, <1>4, <3>3 DEF Becomes
  <2>3. \A y \in Clients \ Library : client'[c][y] = "none"
    BY <1>t, <1>2 DEF KnowsWhatItClosed, Becomes
  <2>4. orphans'[c] = replaced'[c]
    BY <1>t, <1>1, <1>2 DEF KnowsWhatItClosed
  <2>. QED
    BY <2>1, <2>2, <2>3, <2>4 DEF KnowsWhatItClosed
<1>7. /\ \A y \in Milvus : client'[c][y] # "dead"
      /\ client'[c]["memory"] = "none"
  BY <1>t, <1>2 DEF Becomes, Milvus, Postgres, Clients, AfterClose
<1>. QED
  BY <1>5, <1>6, <1>7, CallerStep

-----------------------------------------------------------------------------
\* Nothing that happens breaks the invariant (SessionNext).
LEMMA SessionStepInv == SessionInv /\ [SessionNext]_sessionVars => SessionInv'
<1>. SUFFICES ASSUME SessionInv, [SessionNext]_sessionVars PROVE SessionInv'
  OBVIOUS
<1>1. ASSUME NEW p \in Processes,
             \/ StartCommand(p) \/ TakeStep(p) \/ StepRefused(p) \/ StepFails(p)
             \/ LeaveSection(p) \/ Kill(p) \/ Exit(p)
      PROVE  SessionInv'
  BY <1>1, StartCommandInv, TakeStepInv, StepRefusedInv, StepFailsInv, LeaveSectionInv, EndInv
<1>2. ASSUME NEW c \in Callers, NEW x \in Library,
             CallConnect(c, x) \/ Ask(c, x) \/ CallFails(c, x) \/ CallClose(c, x)
      PROVE  SessionInv'
  BY <1>2, CallConnectInv, AskInv, CallFailsInv, CallCloseInv
<1>3. ASSUME UNCHANGED sessionVars PROVE SessionInv'
  <2>1. /\ UNCHANGED <<client, orphans, limit, faults, kind, input, section, at, status, faulted>>
        /\ UNCHANGED <<answer, closed, replaced>>
    BY <1>3 DEF sessionVars, processVars, callerVars
  <2>2. \A p \in Processes : HoldsItsOwn(p)' /\ HasChecked(p)'
    BY <2>1, ProcessKept DEF SessionInv
  <2>3. \A c \in Callers : KnowsWhatItClosed(c)'
    BY <2>1, CallerKept DEF SessionInv
  <2>4. SessionTypeOK' /\ \A u \in Users : client'[u]["memory"] = "none"
    BY <2>1 DEF SessionInv, SessionTypeOK, This
  <2>. QED
    BY <2>2, <2>3, <2>4 DEF SessionInv
<1>. QED
  BY <1>1, <1>2, <1>3 DEF SessionNext

\* The invariant of the sessions (SessionNext).
LEMMA SessionInvariant == SessionSpec => []SessionInv
BY SessionInitInv, SessionStepInv, PTL DEF SessionSpec

\* A Milvus client is never kept after it was closed, and every process is at
\* a step of its program (milvusSDKDB.Close, the run functions of vdbg).
THEOREM SessionsTypeCorrect == SessionSpec => []SessionTypeOK
<1>1. SessionInv => SessionTypeOK
  BY DEF SessionInv
<1>. QED
  BY <1>1, SessionInvariant, PTL

\* Whatever fails, a command that returns has closed what it opened, all but
\* the migration's writer (Connector.Close, deferred by every command).
THEOREM CommandsClose == SessionSpec => []CommandsCloseWhatTheyOpen
<1>1. SessionInv => CommandsCloseWhatTheyOpen
  <2>. SUFFICES ASSUME SessionInv, NEW p \in Processes, status[p] # "killed"
                PROVE  /\ orphans[p] = 0
                       /\ \A x \in Clients \ {"writer"} : client[p][x] = "open" =>
                            status[p] \notin Ended /\ x = This(p).on
    BY DEF CommandsCloseWhatTheyOpen
  <2>1. HoldsItsOwn(p)
    BY ThisSection
  <2>2. orphans[p] = 0
    BY <2>1 DEF HoldsItsOwn
  <2>3. ASSUME NEW x \in Clients \ {"writer"}, client[p][x] = "open"
        PROVE  status[p] \notin Ended /\ x = This(p).on
    <3>1. status[p] \in {"running", "failing"}
      BY <2>1, <2>3 DEF HoldsItsOwn, SessionInv, SessionTypeOK
    <3>. QED
      BY <2>3, <3>1, OpenIsDeferred DEF Ended
  <2>. QED
    BY <2>2, <2>3
<1>. QED
  BY <1>1, SessionInvariant, PTL

\* Bad input is found before a connection is opened (NewPGXPGVectorSeedDB: fail
\* "before any network side effects occur").
THEOREM BadInputIsFree == SessionSpec => []BadInputOpensNothing
<1>1. SessionInv => BadInputOpensNothing
  <2>. SUFFICES ASSUME SessionInv, NEW p \in Processes, status[p] # "idle",
                       NEW x \in Clients, client[p][x] # "none"
                PROVE  /\ ValidFlags(kind[p], input[p])
                       /\ kind[p] # "migrate-and-verify" => ValidFixture(kind[p], input[p])
                       /\ kind[p] \notin {"seed-milvus", "offline-verify"} => input[p].named
                       /\ kind[p] = "seed-pgvector" => input[p].wellFormed
    BY DEF BadInputOpensNothing
  <2>1. /\ HasChecked(p) /\ kind[p] \in Kinds
        /\ section[p] \in Nat \ {0} /\ at[p] \in Nat \ {0}
        /\ DOMAIN First(p).steps = 1..Len(First(p).steps) /\ Len(First(p).steps) \in Nat
    BY ThisSection
  <2>2. ChecksFirst(First(p), EarlyChecks(kind[p]))
    BY <2>1, Programs DEF First
  <2>3. ASSUME NEW check \in EarlyChecks(kind[p])
        PROVE  Passes(kind[p], input[p], check)
    <3>1. PICK n \in DOMAIN First(p).steps :
            /\ First(p).steps[n] = check
            /\ \A j \in DOMAIN First(p).steps : First(p).steps[j] \in Calls => n < j
      BY <2>2, <2>3 DEF ChecksFirst
    <3>2. n <= Taken(p)
      <4>1. CASE section[p] = 1
        <5>1. PICK j \in DOMAIN First(p).steps : j <= at[p] /\ First(p).steps[j] \in Calls
          BY <2>1, <4>1 DEF HasChecked
        <5>2. n < j
          BY <3>1, <5>1
        <5>3. Taken(p) = at[p] - 1
          BY <4>1 DEF Taken
        <5>. QED
          BY <2>1, <5>1, <5>2, <5>3
      <4>2. CASE section[p] # 1
        BY <2>1, <4>2 DEF Taken
      <4>. QED
        BY <4>1, <4>2
    <3>. QED
      BY <2>1, <3>1, <3>2 DEF HasChecked
  <2>4. ValidFlags(kind[p], input[p])
    BY <2>3 DEF EarlyChecks, Passes
  <2>5. kind[p] # "migrate-and-verify" => ValidFixture(kind[p], input[p])
    <3>1. CASE kind[p] \in {"migrate", "migrate-and-verify"}
      BY <3>1 DEF ValidFixture, Searches, Builds
    <3>2. CASE kind[p] \notin {"migrate", "migrate-and-verify"}
      BY <2>3, <3>2 DEF EarlyChecks, Passes
    <3>. QED
      BY <3>1, <3>2
  <2>6. kind[p] \notin {"seed-milvus", "offline-verify"} => input[p].named
    BY <2>3 DEF EarlyChecks, Passes
  <2>7. kind[p] = "seed-pgvector" => input[p].wellFormed
    BY <2>3 DEF EarlyChecks, Passes
  <2>. QED
    BY <2>4, <2>5, <2>6, <2>7
<1>. QED
  BY <1>1, SessionInvariant, PTL

\* A closed connector answers nothing (Close of both adapters).
THEOREM ClosedIsSilent == SessionSpec => []ClosedAnswersNothing
<1>1. SessionInv => ClosedAnswersNothing
  BY DEF SessionInv, KnowsWhatItClosed, ClosedAnswersNothing
<1>. QED
  BY <1>1, SessionInvariant, PTL

\* A caller that has closed its connectors has nothing open but the Milvus
\* clients it replaced (Connector.Close).
THEOREM CloseReleases == SessionSpec => []CloseReleasesAll
<1>1. SessionInv => CloseReleasesAll
  <2>. SUFFICES ASSUME SessionInv, NEW c \in Callers,
                       \A x \in Library : client[c][x] = "none" \/ closed[c][x]
                PROVE  orphans[c] = replaced[c] /\ \A x \in Clients : client[c][x] # "open"
    BY DEF CloseReleasesAll
  <2>1. KnowsWhatItClosed(c)
    BY DEF SessionInv
  <2>2. \A x \in Library : client[c][x] # "open"
    BY <2>1 DEF KnowsWhatItClosed
  <2>. QED
    BY <2>1, <2>2 DEF KnowsWhatItClosed
<1>. QED
  BY <1>1, SessionInvariant, PTL
-----------------------------------------------------------------------------
(* Room for everyone.  Whoever is at work has its client and those of later
   sections unspoilt, and nobody holds more than two PostgreSQL connections;
   hence a command that is refused one was started where there is not enough
   room.  *)

Ready(p) == status[p] = "running" =>
    /\ \A n \in (section[p] + 1)..Len(Program(kind[p])) :
        client[p][Program(kind[p])[n].on] = "none"
    /\ client[p][This(p).on] # "dead"
    /\ This(p).on \in Milvus => \A j \in DOMAIN This(p).steps :
        j < at[p] /\ This(p).steps[j] = "connect" => client[p][This(p).on] = "open"

HoldsTwo(p) ==
    \E y \in Postgres : \A x \in Postgres : client[p][x] = "open" => x \in {"writer", y}

\* UnfaultedCommandsSucceed, for one process.
FailsOverRoom(p) ==
    status[p] \in {"failing", "failed"} /\ ~faulted[p] /\ GoodInput(kind[p], input[p])
    => ~EnoughRoom

RoomInv ==
    /\ SessionInv
    /\ \A p \in Processes : Ready(p) /\ HoldsTwo(p) /\ FailsOverRoom(p)

\* Checks that a good input passed let no request through that a connector
\* refuses (validateSearchRequest in both connectors).
LEMMA GoodInputPasses ==
    ASSUME NEW k \in Kinds, NEW i \in Input, GoodInput(k, i),
           NEW n \in DOMAIN Program(k), NEW j \in DOMAIN Program(k)[n].steps
    PROVE  Passes(k, i, Program(k)[n].steps[j])
<1>. DEFINE step == Program(k)[n].steps[j]
<1>1. /\ i.topK \in Int /\ i.boundaryK \in Int /\ i.expandK \in Int
      /\ ValidFlags(k, i) /\ ValidFixture(k, i) /\ i.named /\ i.wellFormed
  BY DEF Input, GoodInput
<1>2. step = "search" => k \in Searches \union Builds \union {"offline-verify"}
  BY ProgramsConnect DEF AsksNothing
<1>3. k \in Searches => ValidRequest(i)
  BY <1>1 DEF ValidFlags, ValidSearchFlags, ValidRequest
<1>4. k \in Builds => ValidRequest(i)
  BY <1>1 DEF ValidFlags, ValidBuildFlags, ValidRequest
<1>5. k = "offline-verify" => ValidRequest(i)
  BY <1>1 DEF ValidFixture, ValidRequest
<1>6. step = "search" => ValidRequest(i)
  BY <1>2, <1>3, <1>4, <1>5
<1>. QED
  BY <1>1, <1>6 DEF Passes

\* A process that was not killed holds at most the writer and the client of
\* its section (the deferred Close of every section).
LEMMA TwoAtMost ==
    ASSUME SessionInv, NEW p \in Processes, status[p] # "killed"
    PROVE  HoldsTwo(p)
<1>1. HoldsItsOwn(p) /\ status[p] \in {"idle", "running", "failing"} \union Ended
  BY DEF SessionInv, SessionTypeOK
<1>2. Postgres \subseteq Clients /\ "pgvector" \in Postgres
  BY DEF Clients, Postgres
<1>3. CASE status[p] = "idle"
  <2>1. \A x \in Postgres : client[p][x] # "open"
    BY <1>1, <1>2, <1>3 DEF HoldsItsOwn
  <2>. QED
    BY <1>2, <2>1 DEF HoldsTwo
<1>4. CASE status[p] \in Ended
  <2>1. \A x \in Postgres : client[p][x] = "open" => x = "writer"
    BY <1>1, <1>2, <1>4 DEF HoldsItsOwn
  <2>. QED
    BY <1>2, <2>1 DEF HoldsTwo
<1>5. CASE status[p] \in {"running", "failing"}
  <2>1. \A x \in Postgres : client[p][x] = "open" => x = "writer" \/ x = This(p).on
    BY <1>1, <1>2, <1>5 DEF HoldsItsOwn
  <2>2. CASE This(p).on \in Postgres
    BY <2>1, <2>2 DEF HoldsTwo
  <2>3. CASE This(p).on \notin Postgres
    <3>1. \A x \in Postgres : client[p][x] = "open" => x \in {"writer", "pgvector"}
      BY <2>1, <2>3
    <3>. QED
      BY <1>2, <3>1 DEF HoldsTwo
  <2>. QED
    BY <2>2, <2>3
<1>. QED
  BY <1>1, <1>3, <1>4, <1>5

TwoEach == \A p \in Processes : status[p] # "killed" => HoldsTwo(p)

\* The same for every process, in every state (CommandsCloseWhatTheyOpen).
LEMMA TwoForEach == SessionInv => TwoEach
BY TwoAtMost DEF TwoEach

\* As long as each of the others keeps to its share, the server has room for
\* one that has not taken its own (Room).  The open connections are counted by
\* giving each its own of two places per process and one per caller.
LEMMA RoomForOneMore ==
    ASSUME SessionInv, \A q \in Processes : HoldsTwo(q), EnoughRoom,
           NEW p \in Processes, \A x \in Postgres : client[p][x] = "open" => x = "writer"
    PROVE  Room
<1>. DEFINE O == OpenConnections
            places == ((Processes \X {1, 2}) \union (Callers \X {2})) \ {<<p, 2>>}
            place == [h \in O |-> <<h[1], IF h[2] = "writer" THEN 1 ELSE 2>>]
<1>1. /\ IsFiniteSet(Processes) /\ Cardinality(Processes) \in Nat
      /\ IsFiniteSet(Callers) /\ Cardinality(Callers) \in Nat
  <2>1. Processes \in SUBSET Users /\ Callers \in SUBSET Users /\ IsFiniteSet(Users)
    BY SessionAssumption DEF Users
  <2>. QED
    BY <2>1, FS_Subset, FS_CardinalityType
<1>2. /\ IsFiniteSet(places)
      /\ Cardinality(places) = 2 * Cardinality(Processes) + Cardinality(Callers) - 1
  <2>1. /\ IsFiniteSet({1, 2}) /\ Cardinality({1, 2}) = 2
        /\ IsFiniteSet({2}) /\ Cardinality({2}) = 1
    <3>1. IsFiniteSet({2}) /\ Cardinality({2}) = 1
      BY FS_Singleton
    <3>2. {1, 2} = {2} \union {1} /\ 1 \notin {2}
      OBVIOUS
    <3>3. /\ IsFiniteSet({2} \union {1})
          /\ Cardinality({2} \union {1}) = Cardinality({2}) + 1
      BY <3>1, <3>2, FS_AddElement
    <3>. QED
      BY <3>1, <3>2, <3>3
  <2>2. /\ IsFiniteSet(Processes \X {1, 2})
        /\ Cardinality(Processes \X {1, 2}) = Cardinality(Processes) * 2
    BY <1>1, <2>1, FS_Product
  <2>3. /\ IsFiniteSet(Callers \X {2})
        /\ Cardinality(Callers \X {2}) = Cardinality(Callers) * 1
    BY <1>1, <2>1, FS_Product
  <2>4. (Processes \X {1, 2}) \intersect (Callers \X {2}) = {}
    BY SessionAssumption
  <2>5. /\ IsFiniteSet((Processes \X {1, 2}) \union (Callers \X {2}))
        /\ Cardinality((Processes \X {1, 2}) \union (Callers \X {2}))
             = Cardinality(Processes) * 2 + Cardinality(Callers) * 1 - 0
    BY <2>2, <2>3, <2>4, FS_Union, FS_EmptySet
  <2>6. <<p, 2>> \in (Processes \X {1, 2}) \union (Callers \X {2})
    OBVIOUS
  <2>7. /\ IsFiniteSet(places)
        /\ Cardinality(places)
             = Cardinality((Processes \X {1, 2}) \union (Callers \X {2})) - 1
    BY <2>5, <2>6, FS_RemoveElement
  <2>. QED
    BY <1>1, <2>5, <2>7
<1>3. \A h \in O : /\ h[1] \in Users /\ h[2] \in Postgres
                   /\ h = <<h[1], h[2]>> /\ client[h[1]][h[2]] = "open"
  BY DEF OpenConnections
<1>4. \A h \in O : h[1] \in Callers => h[2] = "pgvector"
  <2>. SUFFICES ASSUME NEW h \in O, h[1] \in Callers PROVE h[2] = "pgvector"
    OBVIOUS
  <2>1. KnowsWhatItClosed(h[1]) /\ h[2] \in Clients
    BY <1>3 DEF SessionInv, Clients
  <2>2. h[2] \in Library
    BY <1>3, <2>1 DEF KnowsWhatItClosed
  <2>. QED
    BY <1>3, <2>2 DEF Library, Postgres
<1>5. place \in [O -> places]
  <2>. SUFFICES ASSUME NEW h \in O
                PROVE  <<h[1], IF h[2] = "writer" THEN 1 ELSE 2>> \in places
    OBVIOUS
  <2>1. CASE h[1] \in Callers
    <3>1. h[1] # p
      BY <2>1, SessionAssumption
    <3>. QED
      BY <1>4, <2>1, <3>1
  <2>2. CASE h[1] \in Processes
    BY <1>3, <2>2
  <2>. QED
    BY <1>3, <2>1, <2>2 DEF Users
<1>6. ASSUME NEW g \in O, NEW h \in O, place[g] = place[h] PROVE g = h
  <2>1. g[1] = h[1] /\ (g[2] = "writer" <=> h[2] = "writer")
    BY <1>6
  <2>2. CASE h[1] \in Callers
    BY <1>3, <1>4, <2>1, <2>2
  <2>3. CASE h[1] \in Processes
    <3>1. PICK y \in Postgres : \A x \in Postgres : client[h[1]][x] = "open" => x \in {"writer", y}
      BY <2>3 DEF HoldsTwo
    <3>2. g[2] \in {"writer", y} /\ h[2] \in {"writer", y}
      BY <1>3, <2>1, <3>1
    <3>. QED
      BY <1>3, <2>1, <3>2
  <2>. QED
    BY <1>3, <2>2, <2>3 DEF Users
<1>7. Cardinality(O) \in Nat /\ Cardinality(O) <= Cardinality(places)
  <2>1. place \in Injection(O, places)
    BY <1>5, <1>6 DEF Injection, IsInjective
  <2>. QED
    BY <1>2, <2>1, FS_Injection, FS_CardinalityType
<1>8. limit \in Nat /\ limit >= 2 * Cardinality(Processes) + Cardinality(Callers)
  BY SessionAssumption DEF SessionInv, SessionTypeOK, EnoughRoom
<1>. QED
  BY <1>1, <1>2, <1>7, <1>8 DEF Room

\* A command with a good input is refused a call only for want of room
\* (StepRefused).
LEMMA RefusedOverRoom ==
    ASSUME RoomInv, NEW p \in Processes, StepRefused(p), GoodInput(kind[p], input[p])
    PROVE  ~EnoughRoom
<1>. DEFINE s == This(p)
            x == This(p).on
<1>t. /\ p \in Users /\ kind[p] \in Kinds /\ input[p] \in Input
      /\ section[p] \in DOMAIN Program(kind[p])
      /\ at[p] \in Nat \ {0} /\ x \in Clients /\ client[p][x] \in States
      /\ DOMAIN s.steps = 1..Len(s.steps) /\ Len(s.steps) \in Nat
      /\ HoldsItsOwn(p) /\ Ready(p)
  <2>1. SessionInv /\ Ready(p)
    BY DEF RoomInv
  <2>2. input[p] \in Input /\ section[p] \in DOMAIN Program(kind[p])
    BY <2>1, SessionAssumption DEF SessionInv, SessionTypeOK
  <2>. QED
    BY <2>1, <2>2, ThisSection DEF WellOrdered, ClientsTyped
<1>1. status[p] = "running" /\ at[p] \in DOMAIN s.steps
  <2>1. ~(at[p] > Len(s.steps))
    BY DEF StepRefused, AtStep, Done
  <2>. QED
    BY <1>t, <2>1 DEF StepRefused, AtStep
<1>2. Passes(kind[p], input[p], s.steps[at[p]])
  BY <1>t, <1>1, GoodInputPasses DEF This
<1>3. s.steps[at[p]] \in Calls /\ ~Accepts(p, x, s.steps[at[p]])
  BY <1>2 DEF StepRefused, Step
<1>4. CASE x \in Milvus
  <2>1. s.steps[at[p]] \in Calls \ {"connect"} /\ client[p][x] # "open"
    BY <1>3, <1>4 DEF Accepts
  <2>2. ConnectsFirst(s)
    BY <1>t, ProgramsConnect DEF This
  <2>3. PICK j \in DOMAIN s.steps : j < at[p] /\ s.steps[j] = "connect"
    BY <1>1, <1>4, <2>1, <2>2 DEF ConnectsFirst
  <2>. QED
    BY <1>t, <1>1, <1>4, <2>1, <2>3 DEF Ready
<1>5. CASE x \in Postgres
  <2>1. client[p][x] = "none" /\ ~Room
    BY <1>t, <1>1, <1>3, <1>5 DEF Accepts, Ready, States
  <2>2. \A y \in Postgres : client[p][y] = "open" => y = "writer"
    BY <1>t, <1>1, <2>1 DEF HoldsItsOwn, Clients
  <2>3. SessionInv /\ \A q \in Processes : HoldsTwo(q)
    BY DEF RoomInv
  <2>. QED
    BY <2>1, <2>2, <2>3, RoomForOneMore
<1>6. CASE x = "memory"
  BY <1>3, <1>6 DEF Accepts
<1>. QED
  BY <1>t, <1>4, <1>5, <1>6 DEF Clients

\* A command starts with fresh clients (StartCommand).
LEMMA StartIsReady ==
    ASSUME SessionInv, NEW p \in Processes, StartCommand(p)
    PROVE  Ready(p)' /\ FailsOverRoom(p)'
<1>1. /\ status[p] = "idle" /\ status' = [status EXCEPT ![p] = "running"]
      /\ \E k \in Kinds : kind' = [kind EXCEPT ![p] = k]
      /\ UNCHANGED <<client, section, at>>
  BY DEF StartCommand
<1>2. /\ status'[p] = "running" /\ kind'[p] \in Kinds
      /\ section[p] = 1 /\ at[p] = 1
      /\ \A x \in Clients : client[p][x] = "none"
  BY <1>1, ThisSection DEF HoldsItsOwn, SessionInv, SessionTypeOK
<1>3. /\ DOMAIN Program(kind'[p]) = 1..Len(Program(kind'[p]))
      /\ Len(Program(kind'[p])) \in Nat \ {0}
      /\ \A n \in DOMAIN Program(kind'[p]) :
            /\ Program(kind'[p])[n].on \in Clients
            /\ DOMAIN Program(kind'[p])[n].steps = 1..Len(Program(kind'[p])[n].steps)
  BY <1>2, Programs DEF WellOrdered
<1>4. This(p)' = Program(kind'[p])[1]
  BY <1>1, <1>2 DEF This
<1>5. Ready(p)'
  <2>1. \A n \in 2..Len(Program(kind'[p])) : client'[p][Program(kind'[p])[n].on] = "none"
    BY <1>1, <1>2, <1>3
  <2>2. client'[p][This(p)'.on] # "dead"
    BY <1>1, <1>2, <1>3, <1>4
  <2>3. \A j \in DOMAIN This(p)'.steps : ~(j < at'[p])
    BY <1>1, <1>2, <1>3, <1>4
  <2>. QED
    BY <1>1, <1>2, <2>1, <2>2, <2>3 DEF Ready
<1>6. FailsOverRoom(p)'
  BY <1>2 DEF FailsOverRoom
<1>. QED
  BY <1>5, <1>6

\* What a call opens is the client of its section (TakeStep).
LEMMA TakeStepIsReady ==
    ASSUME SessionInv, NEW p \in Processes, Ready(p), TakeStep(p)
    PROVE  Ready(p)' /\ FailsOverRoom(p)'
<1>. DEFINE s == This(p)
            x == This(p).on
<1>t. /\ p \in Users /\ ClientsTyped /\ orphans \in [Users -> Nat] /\ kind[p] \in Kinds
      /\ section[p] \in 1..Len(Program(kind[p])) /\ Len(Program(kind[p])) \in Nat
      /\ DOMAIN Program(kind[p]) = 1..Len(Program(kind[p]))
      /\ \A n \in DOMAIN Program(kind[p]) : Program(kind[p])[n].on \in Clients
      /\ at[p] \in Nat \ {0} /\ x \in Clients
      /\ DOMAIN s.steps = 1..Len(s.steps) /\ Len(s.steps) \in Nat
  BY ThisSection, Programs DEF WellOrdered
<1>1. /\ status[p] = "running" /\ at' = [at EXCEPT ![p] = @ + 1]
      /\ IF s.steps[at[p]] \in Calls THEN CallSucceeds(p, x, s.steps[at[p]])
         ELSE UNCHANGED <<client, orphans>>
      /\ UNCHANGED <<kind, input, section, status, faulted>>
  BY DEF TakeStep, AtStep, Step
<1>2. at'[p] = at[p] + 1
  BY <1>1 DEF SessionInv, SessionTypeOK
<1>3. /\ \A y \in Clients : y # x => client'[p][y] = client[p][y]
      /\ client'[p][x] \in {client[p][x], "open"}
      /\ s.steps[at[p]] \in Calls /\ x # "memory" => client'[p][x] = "open"
  <2>1. CASE s.steps[at[p]] \in Calls
    <3>1. /\ x = "memory" => client' = client
          /\ x # "memory" => Becomes(p, x, "open")
      BY <1>t, <1>1, <2>1, SuccessEffect
    <3>. QED
      BY <1>t, <3>1 DEF Becomes
  <2>2. CASE s.steps[at[p]] \notin Calls
    BY <1>1, <2>2
  <2>. QED
    BY <2>1, <2>2
<1>4. This(p)' = s
  BY <1>1 DEF This
<1>5. \A n \in (section[p] + 1)..Len(Program(kind[p])) :
        client'[p][Program(kind[p])[n].on] = "none"
  <2>. SUFFICES ASSUME NEW n \in (section[p] + 1)..Len(Program(kind[p]))
                PROVE  client'[p][Program(kind[p])[n].on] = "none"
    OBVIOUS
  <2>1. n \in DOMAIN Program(kind[p]) /\ section[p] \in DOMAIN Program(kind[p]) /\ n # section[p]
    BY <1>t
  <2>2. Program(kind[p])[n].on # x
    BY <1>t, <2>1, ProgramsConnect DEF This
  <2>. QED
    BY <1>t, <1>1, <1>3, <2>1, <2>2 DEF Ready
<1>6. client'[p][x] # "dead"
  BY <1>1, <1>3 DEF Ready
<1>7. ASSUME x \in Milvus, NEW j \in DOMAIN s.steps, j < at[p] + 1, s.steps[j] = "connect"
      PROVE  client'[p][x] = "open"
  <2>1. CASE j < at[p]
    BY <1>1, <1>3, <1>7, <2>1 DEF Ready
  <2>2. CASE j = at[p]
    BY <1>3, <1>7, <2>2 DEF Calls, Milvus
  <2>. QED
    BY <1>t, <1>7, <2>1, <2>2
<1>8. Ready(p)'
  BY <1>1, <1>2, <1>4, <1>5, <1>6, <1>7 DEF Ready
<1>9. FailsOverRoom(p)'
  BY <1>1 DEF FailsOverRoom
<1>. QED
  BY <1>8, <1>9

\* The next section finds its client as the process was given it
\* (LeaveSection).
LEMMA LeaveSectionIsReady ==
    ASSUME SessionInv, NEW p \in Processes, Ready(p), FailsOverRoom(p), LeaveSection(p)
    PROVE  Ready(p)' /\ FailsOverRoom(p)'
<1>. DEFINE x == This(p).on
            more == status[p] = "running" /\ section[p] < Len(Program(kind[p]))
<1>t. /\ p \in Users /\ ClientsTyped /\ kind[p] \in Kinds
      /\ section[p] \in 1..Len(Program(kind[p])) /\ Len(Program(kind[p])) \in Nat
      /\ DOMAIN Program(kind[p]) = 1..Len(Program(kind[p]))
      /\ \A n \in DOMAIN Program(kind[p]) :
            /\ Program(kind[p])[n].on \in Clients
            /\ DOMAIN Program(kind[p])[n].steps = 1..Len(Program(kind[p])[n].steps)
      /\ x \in Clients
  BY ThisSection, Programs DEF WellOrdered
<1>1. /\ status[p] \in {"running", "failing"}
      /\ UNCHANGED <<kind, input, limit, faulted>>
      /\ IF at[p] > This(p).before THEN CloseClient(p, x) ELSE UNCHANGED <<client, orphans>>
  BY DEF LeaveSection
<1>2. \A y \in Clients : y # x => client'[p][y] = client[p][y]
  <2>1. CASE at[p] > This(p).before
    <3>1. Becomes(p, x, AfterClose(p, x))
      BY <1>t, <1>1, <2>1, CloseEffect
    <3>. QED
      BY <3>1 DEF Becomes
  <2>2. CASE ~(at[p] > This(p).before)
    BY <1>1, <2>2
  <2>. QED
    BY <2>1, <2>2
<1>3. CASE more
  <2>1. /\ section'[p] = section[p] + 1 /\ at'[p] = 1 /\ status'[p] = "running"
        /\ section[p] + 1 \in DOMAIN Program(kind[p])
    BY <1>t, <1>3 DEF LeaveSection, SessionInv, SessionTypeOK
  <2>2. This(p)' = Program(kind[p])[section[p] + 1]
    BY <1>1, <2>1 DEF This
  <2>3. \A n \in (section[p] + 1)..Len(Program(kind[p])) :
          client'[p][Program(kind[p])[n].on] = "none"
    <3>. SUFFICES ASSUME NEW n \in (section[p] + 1)..Len(Program(kind[p]))
                  PROVE  client'[p][Program(kind[p])[n].on] = "none"
      OBVIOUS
    <3>1. n \in DOMAIN Program(kind[p]) /\ section[p] \in DOMAIN Program(kind[p]) /\ n # section[p]
      BY <1>t
    <3>2. Program(kind[p])[n].on # x
      BY <1>t, <3>1, ProgramsConnect DEF This
    <3>. QED
      BY <1>t, <1>2, <1>3, <3>1, <3>2 DEF Ready
  <2>4. \A n \in (section[p] + 2)..Len(Program(kind[p])) :
          client'[p][Program(kind[p])[n].on] = "none"
    BY <1>t, <2>3
  <2>5. client'[p][This(p)'.on] = "none"
    BY <1>t, <1>3, <2>2, <2>3
  <2>6. \A j \in DOMAIN This(p)'.steps : ~(j < at'[p])
    BY <1>t, <2>1, <2>2
  <2>7. section[p] + 1 + 1 = section[p] + 2
    BY <1>t
  <2>8. Ready(p)'
    BY <1>1, <2>1, <2>4, <2>5, <2>6, <2>7 DEF Ready
  <2>. QED
    BY <2>1, <2>8 DEF FailsOverRoom
<1>4. CASE ~more
  <2>1. status'[p] = IF status[p] = "failing" THEN "failed" ELSE "succeeded"
    BY <1>1, <1>4 DEF LeaveSection, SessionInv, SessionTypeOK
  <2>. QED
    BY <1>1, <2>1 DEF Ready, FailsOverRoom, EnoughRoom
<1>. QED
  BY <1>3, <1>4

\* Nothing about process q changes, nor how much room there is.
Unconcerned(q) ==
    /\ client'[q] = client[q] /\ kind'[q] = kind[q] /\ input'[q] = input[q]
    /\ section'[q] = section[q] /\ at'[q] = at[q]
    /\ status'[q] = status[q] /\ faulted'[q] = faulted[q]
    /\ limit' = limit

Acts(p) ==
    \/ StartCommand(p) \/ TakeStep(p) \/ StepRefused(p) \/ StepFails(p)
    \/ LeaveSection(p) \/ Kill(p) \/ Exit(p)

\* A call of one user leaves the clients of the others alone.
LEMMA CallsKeepOthers ==
    ASSUME SessionInv, NEW u \in Users, NEW x \in Clients, NEW call, NEW q \in Users, q # u,
           CallSucceeds(u, x, call) \/ CallErrs(u, x) \/ CloseClient(u, x)
    PROVE  client'[q] = client[q]
<1>1. ClientsTyped /\ orphans \in [Users -> Nat]
  BY DEF SessionInv, SessionTypeOK, ClientsTyped, States
<1>2. CASE CallSucceeds(u, x, call)
  BY <1>1, <1>2, SuccessEffect DEF Becomes
<1>3. CASE CallErrs(u, x)
  BY <1>1, <1>3, ErrorEffect DEF Becomes
<1>4. CASE CloseClient(u, x)
  BY <1>1, <1>4, CloseEffect DEF Becomes
<1>. QED
  BY <1>2, <1>3, <1>4

\* A process is the business of nobody else (the actions of a command).
LEMMA OtherProcessesKept ==
    ASSUME SessionInv, NEW p \in Processes, Acts(p), NEW q \in Processes, q # p
    PROVE  Unconcerned(q)
<1>t. /\ p \in Users /\ q \in Users /\ This(p).on \in Clients
      /\ client \in [Users -> [Clients -> States]]
  BY ThisSection DEF WellOrdered, ClientsTyped
<1>1. client'[q] = client[q]
  <2>1. CASE StartCommand(p) \/ StepRefused(p) \/ Kill(p)
    BY <2>1 DEF StartCommand, StepRefused, Kill
  <2>2. CASE TakeStep(p)
    BY <1>t, <2>2, CallsKeepOthers DEF TakeStep
  <2>3. CASE StepFails(p)
    BY <1>t, <2>3, CallsKeepOthers DEF StepFails
  <2>4. CASE LeaveSection(p)
    BY <1>t, <2>4, CallsKeepOthers DEF LeaveSection
  <2>5. CASE Exit(p)
    BY <1>t, <2>5 DEF Exit
  <2>. QED
    BY <2>1, <2>2, <2>3, <2>4, <2>5 DEF Acts
<1>2. limit' = limit /\ kind'[q] = kind[q] /\ input'[q] = input[q] /\ faulted'[q] = faulted[q]
  BY DEF Acts, StartCommand, TakeStep, StepRefused, StepFails, LeaveSection, Kill, Exit,
         SessionInv, SessionTypeOK
<1>3. section'[q] = section[q] /\ at'[q] = at[q] /\ status'[q] = status[q]
  BY DEF Acts, StartCommand, TakeStep, StepRefused, StepFails, LeaveSection, Kill, Exit,
         SessionInv, SessionTypeOK
<1>. QED
  BY <1>1, <1>2, <1>3 DEF Unconcerned

\* A process is no business of a caller either.
LEMMA CallersKeepProcesses ==
    ASSUME SessionInv, NEW c \in Callers, NEW x \in Library,
           CallConnect(c, x) \/ Ask(c, x) \/ CallFails(c, x) \/ CallClose(c, x),
           NEW q \in Processes
    PROVE  Unconcerned(q)
<1>1. c \in Users /\ q \in Users /\ q # c /\ x \in Clients
  BY SessionAssumption DEF Users, Library, Clients, Milvus, Postgres
<1>2. client'[q] = client[q]
  <2>1. CASE CallConnect(c, x) \/ Ask(c, x)
    BY <1>1, <2>1, CallsKeepOthers DEF CallConnect, Ask
  <2>2. CASE CallFails(c, x)
    BY <1>1, <2>2, CallsKeepOthers DEF CallFails
  <2>3. CASE CallClose(c, x)
    BY <1>1, <2>3, CallsKeepOthers DEF CallClose
  <2>. QED
    BY <2>1, <2>2, <2>3
<1>3. UNCHANGED <<limit, kind, input, section, at, status, faulted>>
  BY DEF CallConnect, Ask, CallFails, CallClose, processVars
<1>. QED
  BY <1>2, <1>3 DEF Unconcerned

\* What is said of a process stays true of one nothing happens to.
LEMMA RoomKept ==
    ASSUME NEW q \in Processes, Unconcerned(q), Ready(q), HoldsTwo(q), FailsOverRoom(q)
    PROVE  Ready(q)' /\ HoldsTwo(q)' /\ FailsOverRoom(q)'
<1>1. This(q)' = This(q)
  BY DEF This, Unconcerned
<1>2. Ready(q)'
  BY <1>1 DEF Ready, Unconcerned
<1>3. HoldsTwo(q)'
  BY DEF HoldsTwo, Unconcerned
<1>4. FailsOverRoom(q)'
  BY DEF FailsOverRoom, EnoughRoom, Unconcerned
<1>. QED
  BY <1>2, <1>3, <1>4

\* The step of a process keeps what is said of that process.
LEMMA ActsKeepsRoom ==
    ASSUME RoomInv, NEW p \in Processes, Acts(p), SessionInv'
    PROVE  Ready(p)' /\ HoldsTwo(p)' /\ FailsOverRoom(p)'
<1>t. /\ SessionInv /\ Ready(p) /\ HoldsTwo(p) /\ FailsOverRoom(p)
      /\ status \in [Processes -> {"idle", "running", "failing", "killed"} \union Ended]
      /\ faulted \in [Processes -> BOOLEAN]
  BY DEF RoomInv, SessionInv, SessionTypeOK
<1>1. Ready(p)' /\ FailsOverRoom(p)'
  <2>1. CASE StartCommand(p)
    BY <1>t, <2>1, StartIsReady
  <2>2. CASE TakeStep(p)
    BY <1>t, <2>2, TakeStepIsReady
  <2>3. CASE StepRefused(p)
    <3>1. /\ status'[p] = "failing"
          /\ UNCHANGED <<kind, input, limit, faulted>>
      BY <1>t, <2>3 DEF StepRefused
    <3>2. GoodInput(kind[p], input[p]) => ~EnoughRoom
      BY <2>3, RefusedOverRoom
    <3>. QED
      BY <3>1, <3>2 DEF Ready, FailsOverRoom, EnoughRoom
  <2>4. CASE StepFails(p) \/ Kill(p)
    <3>1. faulted'[p] = TRUE /\ status'[p] # "running"
      BY <1>t, <2>4 DEF StepFails, Kill
    <3>. QED
      BY <3>1 DEF Ready, FailsOverRoom
  <2>5. CASE LeaveSection(p)
    BY <1>t, <2>5, LeaveSectionIsReady
  <2>6. CASE Exit(p)
    <3>1. status'[p] = "idle"
      BY <1>t, <2>6 DEF Exit
    <3>. QED
      BY <3>1 DEF Ready, FailsOverRoom
  <2>. QED
    BY <2>1, <2>2, <2>3, <2>4, <2>5, <2>6 DEF Acts
<1>2. HoldsTwo(p)'
  <2>1. CASE Kill(p)
    BY <1>t, <2>1 DEF Kill, HoldsTwo
  <2>2. CASE ~Kill(p)
    <3>1. status'[p] # "killed"
      <4>1. \/ status'[p] \in {"running", "failing", "idle", "succeeded", "failed"}
            \/ status'[p] = status[p] /\ status[p] \in {"running", "failing"}
        BY <1>t, <2>2 DEF Acts, StartCommand, TakeStep, AtStep, StepRefused, StepFails,
                          LeaveSection, Exit
      <4>. QED
        BY <4>1
    <3>2. SessionInv' => TwoEach'
      BY TwoForEach, PTL
    <3>. QED
      BY <3>1, <3>2 DEF TwoEach
  <2>. QED
    BY <2>1, <2>2
<1>. QED
  BY <1>1, <1>2

\* The counting survives every step (SessionNext).
LEMMA RoomStep == RoomInv /\ [SessionNext]_sessionVars => RoomInv'
<1>. SUFFICES ASSUME RoomInv, [SessionNext]_sessionVars PROVE RoomInv'
  OBVIOUS
<1>1. SessionInv /\ SessionInv'
  BY SessionStepInv DEF RoomInv
<1>2. \A q \in Processes : Ready(q)' /\ HoldsTwo(q)' /\ FailsOverRoom(q)'
  <2>. SUFFICES ASSUME NEW q \in Processes
                PROVE  Ready(q)' /\ HoldsTwo(q)' /\ FailsOverRoom(q)'
    OBVIOUS
  <2>1. ASSUME NEW p \in Processes, Acts(p)
        PROVE  Ready(q)' /\ HoldsTwo(q)' /\ FailsOverRoom(q)'
    <3>1. CASE q = p
      BY <1>1, <2>1, <3>1, ActsKeepsRoom
    <3>2. CASE q # p
      <4>1. Unconcerned(q)
        BY <1>1, <2>1, <3>2, OtherProcessesKept
      <4>. QED
        BY <4>1, RoomKept DEF RoomInv
    <3>. QED
      BY <3>1, <3>2
  <2>2. ASSUME NEW c \in Callers, NEW x \in Library,
               CallConnect(c, x) \/ Ask(c, x) \/ CallFails(c, x) \/ CallClose(c, x)
        PROVE  Ready(q)' /\ HoldsTwo(q)' /\ FailsOverRoom(q)'
    <3>1. Unconcerned(q)
      BY <1>1, <2>2, CallersKeepProcesses
    <3>. QED
      BY <3>1, RoomKept DEF RoomInv
  <2>3. CASE UNCHANGED sessionVars
    <3>1. Unconcerned(q)
      BY <2>3 DEF sessionVars, processVars, Unconcerned
    <3>. QED
      BY <3>1, RoomKept DEF RoomInv
  <2>. QED
    BY <2>1, <2>2, <2>3 DEF SessionNext, Acts
<1>. QED
  BY <1>1, <1>2 DEF RoomInv

\* No client is opened, or in the way, before a command starts (SessionInit).
LEMMA RoomInit == SessionInit => RoomInv
<1>. SUFFICES ASSUME SessionInit PROVE RoomInv
  OBVIOUS
<1>1. SessionInv
  BY SessionInitInv
<1>2. ASSUME NEW p \in Processes PROVE Ready(p) /\ HoldsTwo(p) /\ FailsOverRoom(p)
  <2>1. status[p] = "idle"
    BY DEF SessionInit
  <2>2. HoldsTwo(p)
    BY <1>1, <2>1, TwoAtMost
  <2>. QED
    BY <2>1, <2>2 DEF Ready, FailsOverRoom
<1>. QED
  BY <1>1, <1>2 DEF RoomInv

\* A command with a good input that no fault hits is refused nothing where
\* PostgreSQL accepts two connections for each process and one for each caller
\* (the run functions of vdbg, validateSearchRequest).
THEOREM CommandsSucceed == SessionSpec => []UnfaultedCommandsSucceed
<1>1. RoomInv => UnfaultedCommandsSucceed
  BY DEF RoomInv, FailsOverRoom, UnfaultedCommandsSucceed
<1>. QED
  BY <1>1, RoomInit, RoomStep, PTL DEF SessionSpec

=============================================================================
