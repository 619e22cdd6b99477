------------------------- MODULE MemoryStoreProofs -------------------------
(***************************************************************************)
(* The memory store is type correct, nobody races on its map, its users    *)
(* never all wait, and it implements the atomic store, for any number of   *)
(* goroutines and paths.                                                   *)
(*                                                                         *)
(* The argument is one of ownership: a buffer that a goroutine may         *)
(* overwrite, mine[g], is never one the store or another operation refers  *)
(* to, so that no content changes while something depends on it.  That the *)
(* calls never all wait is counted: fewer buffers are referred to than     *)
(* there are as long as one call has nothing in hand.                      *)
(***************************************************************************)
EXTENDS MemoryStore, Integers, FiniteSetTheorems, TLAPS

Inside == {"access", "copy out", "unlock"}

\* Where an operation has got to, and what it has in hand there.
Phases ==
    \A g \in Goroutines :
        /\ pc[g] = "copy in" => op[g] = "put"
        /\ pc[g] = "copy out" => op[g] = "get" /\ found[g] # None
        /\ pc[g] \in {"idle", "copy in"} => copy[g] = None
        /\ op[g] = "put" /\ pc[g] # "copy in" => copy[g] # None
        /\ op[g] = "exists" => copy[g] = None
        /\ op[g] = "get" /\ pc[g] \in {"lock", "access", "copy out"} => copy[g] = None
        /\ op[g] = "get" /\ pc[g] \in {"unlock", "return"} =>
            (copy[g] = None <=> found[g] = None)

\* Who holds the lock, and in which mode.
LocksHeld ==
    /\ \A g \in writer : op[g] = "put"
    /\ \A g \in readers : op[g] # "put"
    /\ \A g \in writer : \A h \in readers \union writer : g = h

\* What a goroutine owns, or is about to own, is nobody else's.
OwnersDiffer == \A g, h \in Goroutines : mine[g] = mine[h] => g = h
OwnedByOne ==
    /\ \A g, h \in Goroutines : copy[g] # mine[h] /\ found[g] # mine[h]
    /\ \A k \in Paths, g \in Goroutines : data[k] # mine[g]
CopiesDiffer == \A g, h \in Goroutines : copy[g] # None /\ copy[g] = copy[h] => g = h
ResultsPrivate ==
    \A g \in Goroutines : op[g] = "get" /\ copy[g] # None =>
        /\ \A k \in Paths : data[k] # copy[g]
        /\ \A h \in Goroutines : found[h] # copy[g]
BuffersApart == OwnersDiffer /\ OwnedByOne /\ CopiesDiffer /\ ResultsPrivate

MemoryInv == StoreTypeOK /\ Phases /\ LocksHeld /\ BuffersApart

-----------------------------------------------------------------------------
\* The allocator gives a buffer nothing refers to (CopyIn, CopyOut).
LEMMA FreshIsFree ==
    ASSUME Free # {}
    PROVE  /\ Fresh \in Buffers
           /\ \A g \in Goroutines : Fresh # mine[g] /\ Fresh # copy[g] /\ Fresh # found[g]
           /\ \A k \in Paths : Fresh # data[k]
<1>1. Fresh \in Free
  BY DEF Fresh
<1>2. Fresh \in Buffers /\ Fresh \notin Referenced
  BY <1>1 DEF Free
<1>. QED
  BY <1>2 DEF Referenced

\* Goto moves one goroutine (Goto).
LEMMA GotoMoves ==
    ASSUME NEW g \in Goroutines, NEW label, pc \in [Goroutines -> Places], Goto(g, label)
    PROVE  /\ DOMAIN pc' = Goroutines
           /\ \A h \in Goroutines : pc'[h] = IF h = g THEN label ELSE pc[h]
           /\ label \in Places => pc' \in [Goroutines -> Places]
BY DEF Goto

\* A new store is empty and nobody is using it (NewMemoryStore).
LEMMA MemoryInitInv == MemoryInit => MemoryInv
<1>. SUFFICES ASSUME MemoryInit PROVE MemoryInv
  OBVIOUS
<1>1. StoreTypeOK
  BY StoreAssumption DEF MemoryInit, StoreTypeOK, Places, Ops
<1>2. Phases
  BY StoreAssumption DEF MemoryInit, Phases
<1>3. LocksHeld /\ BuffersApart
  BY StoreAssumption DEF MemoryInit, LocksHeld, BuffersApart, OwnersDiffer, OwnedByOne,
     CopiesDiffer, ResultsPrivate
<1>. QED
  BY <1>1, <1>2, <1>3 DEF MemoryInv

\* Every step of every goroutine keeps the invariant (Put, Get, Exists).
LEMMA MemoryStepInv == MemoryInv /\ [MemoryNext]_storeVars => MemoryInv'
<1>. SUFFICES ASSUME MemoryInv, [MemoryNext]_storeVars PROVE MemoryInv'
  OBVIOUS
<1>. USE StoreAssumption
<1>t. StoreTypeOK /\ Phases /\ LocksHeld /\ BuffersApart
  BY DEF MemoryInv
<1>u. pc \in [Goroutines -> Places]
  BY <1>t DEF StoreTypeOK
<1>1. ASSUME NEW g \in Goroutines, Overwrite(g) PROVE MemoryInv'
  <2>1. StoreTypeOK'
    <3>1. /\ content' \in [Buffers -> Values]
          /\ UNCHANGED <<data, pc, op, path, mine, copy, found, readers, writer>>
      <4>1. PICK v \in Values : content' = [content EXCEPT ![mine[g]] = v]
        BY <1>1 DEF Overwrite
      <4>2. content' \in [Buffers -> Values]
        BY <1>t, <4>1 DEF StoreTypeOK
      <4>. QED
        BY <1>1, <4>2 DEF Overwrite, opVars, lockVars
    <3>. QED
      BY <1>t, <3>1 DEF StoreTypeOK
  <2>2. Phases' /\ LocksHeld' /\ BuffersApart'
    BY <1>t, <1>1 DEF Overwrite, Phases, LocksHeld, opVars, lockVars, BuffersApart,
       OwnersDiffer, OwnedByOne, CopiesDiffer, ResultsPrivate
  <2>. QED
    BY <2>1, <2>2 DEF MemoryInv
<1>2. ASSUME NEW g \in Goroutines, Begin(g) PROVE MemoryInv'
  <2>1. PICK o \in Ops, k \in Paths :
            /\ op' = [op EXCEPT ![g] = o]
            /\ path' = [path EXCEPT ![g] = k]
            /\ Goto(g, IF o = "put" THEN "copy in" ELSE "lock")
    BY <1>2 DEF Begin
  <2>2. /\ pc[g] = "idle"
        /\ UNCHANGED <<content, data, mine, copy, found, readers, writer>>
    BY <1>2 DEF Begin, lockVars
  <2>3. /\ \A h \in Goroutines : op'[h] = IF h = g THEN o ELSE op[h]
        /\ op' \in [Goroutines -> Ops \union {None}]
        /\ path' \in [Goroutines -> Paths]
    BY <2>1, <1>t DEF StoreTypeOK
  <2>4. /\ \A h \in Goroutines : pc'[h] =
              IF h = g THEN (IF o = "put" THEN "copy in" ELSE "lock") ELSE pc[h]
        /\ pc' \in [Goroutines -> Places]
    BY <2>1, <1>u, GotoMoves DEF Places
  <2>5. StoreTypeOK'
    BY <1>t, <2>2, <2>3, <2>4 DEF StoreTypeOK, Ops
  <2>6. Phases'
    BY <1>t, <2>2, <2>3, <2>4 DEF Phases, Ops
  <2>7. LocksHeld'
    BY <1>t, <2>2, <2>3 DEF LocksHeld, StoreTypeOK
  <2>8. BuffersApart'
    BY <1>t, <2>2, <2>3 DEF Phases, BuffersApart, OwnersDiffer, OwnedByOne, CopiesDiffer,
       ResultsPrivate
  <2>. QED
    BY <2>5, <2>6, <2>7, <2>8 DEF MemoryInv
<1>3. ASSUME NEW g \in Goroutines, CopyIn(g) PROVE MemoryInv'
  <2>1. /\ pc[g] = "copy in"
        /\ Free # {}
        /\ UNCHANGED <<data, op, path, mine, found, readers, writer>>
        /\ Goto(g, "lock")
    BY <1>3 DEF CopyIn, opVars, lockVars
  <2>2. /\ \A h \in Goroutines : pc'[h] = IF h = g THEN "lock" ELSE pc[h]
        /\ pc' \in [Goroutines -> Places]
    BY <2>1, <1>u, GotoMoves DEF Places
  <2>3. /\ Fresh \in Buffers
        /\ \A h \in Goroutines : Fresh # mine[h] /\ Fresh # copy[h] /\ Fresh # found[h]
        /\ \A k \in Paths : Fresh # data[k]
    BY <2>1, FreshIsFree
  <2>4. /\ \A h \in Goroutines : copy'[h] = IF h = g THEN Fresh ELSE copy[h]
        /\ copy' \in [Goroutines -> Buffers \union {None}]
        /\ content' \in [Buffers -> Values]
    BY <1>3, <1>t, <2>3 DEF CopyIn, StoreTypeOK
  <2>5. StoreTypeOK'
    BY <1>t, <2>1, <2>2, <2>4 DEF StoreTypeOK
  <2>6. Phases'
    BY <1>t, <2>1, <2>2, <2>3, <2>4 DEF Phases
  <2>7. LocksHeld'
    BY <1>t, <2>1 DEF LocksHeld
  <2>8. BuffersApart'
    <3>1. OwnersDiffer'
      BY <1>t, <2>1, <2>3, <2>4 DEF BuffersApart, OwnersDiffer
    <3>2. OwnedByOne'
      BY <1>t, <2>1, <2>3, <2>4 DEF BuffersApart, OwnedByOne
    <3>3. CopiesDiffer'
      BY <1>t, <2>1, <2>3, <2>4 DEF BuffersApart, CopiesDiffer
    <3>4. ResultsPrivate'
      BY <1>t, <2>1, <2>3, <2>4 DEF BuffersApart, ResultsPrivate, Phases
    <3>. QED
      BY <3>1, <3>2, <3>3, <3>4 DEF BuffersApart
  <2>. QED
    BY <2>5, <2>6, <2>7, <2>8 DEF MemoryInv
<1>4. ASSUME NEW g \in Goroutines, Lock(g) PROVE MemoryInv'
  <2>1. /\ pc[g] = "lock"
        /\ writer = {}
        /\ UNCHANGED <<content, data, op, path, mine, copy, found>>
        /\ Goto(g, "access")
    BY <1>4 DEF Lock, opVars
  <2>2. /\ \A h \in Goroutines : pc'[h] = IF h = g THEN "access" ELSE pc[h]
        /\ pc' \in [Goroutines -> Places]
    BY <2>1, <1>u, GotoMoves DEF Places
  <2>3. \/ op[g] = "put" /\ readers = {} /\ writer' = {g} /\ readers' = readers
        \/ op[g] # "put" /\ readers' = readers \union {g} /\ writer' = writer
    BY <1>4 DEF Lock
  <2>4. StoreTypeOK'
    BY <1>t, <2>1, <2>2, <2>3 DEF StoreTypeOK
  <2>5. Phases'
    BY <1>t, <2>1, <2>2 DEF Phases
  <2>6. LocksHeld'
    BY <1>t, <2>1, <2>3 DEF LocksHeld
  <2>7. BuffersApart'
    BY <1>t, <2>1 DEF BuffersApart, OwnersDiffer, OwnedByOne, CopiesDiffer, ResultsPrivate
  <2>. QED
    BY <2>4, <2>5, <2>6, <2>7 DEF MemoryInv
<1>5. ASSUME NEW g \in Goroutines, Access(g) PROVE MemoryInv'
  <2>1. /\ pc[g] = "access"
        /\ UNCHANGED <<content, op, path, mine, copy, readers, writer>>
        /\ Goto(g, IF op[g] = "get" /\ data[path[g]] # None THEN "copy out" ELSE "unlock")
    BY <1>5 DEF Access, opVars, lockVars
  <2>2. /\ \A h \in Goroutines : pc'[h] =
              IF h = g THEN (IF op[g] = "get" /\ data[path[g]] # None
                             THEN "copy out" ELSE "unlock") ELSE pc[h]
        /\ pc' \in [Goroutines -> Places]
    BY <2>1, <1>u, GotoMoves DEF Places
  <2>3. op[g] \in Ops /\ path[g] \in Paths
    BY <1>t, <2>1 DEF StoreTypeOK
  <2>4. CASE op[g] = "put"
    <3>1. /\ \A k \in Paths : data'[k] = IF k = path[g] THEN copy[g] ELSE data[k]
          /\ data' \in [Paths -> Buffers \union {None}]
          /\ found' = found
      <4>1. /\ data \in [Paths -> Buffers \union {None}]
            /\ copy[g] \in Buffers \union {None}
        BY <1>t DEF StoreTypeOK
      <4>2. /\ data' = [data EXCEPT ![path[g]] = copy[g]]
            /\ found' = found
        BY <1>5, <2>4 DEF Access
      <4>. QED
        BY <2>3, <4>1, <4>2
    <3>2. StoreTypeOK'
      BY <1>t, <2>1, <2>2, <3>1 DEF StoreTypeOK
    <3>3. Phases'
      BY <1>t, <2>1, <2>2, <2>4, <3>1 DEF Phases
    <3>4. LocksHeld'
      BY <1>t, <2>1 DEF LocksHeld
    <3>5. BuffersApart'
      BY <1>t, <2>1, <2>4, <3>1 DEF BuffersApart, OwnersDiffer, OwnedByOne, CopiesDiffer,
         ResultsPrivate
    <3>. QED
      BY <3>2, <3>3, <3>4, <3>5 DEF MemoryInv
  <2>5. CASE op[g] # "put"
    <3>1. /\ \A h \in Goroutines : found'[h] = IF h = g THEN data[path[g]] ELSE found[h]
          /\ found' \in [Goroutines -> Buffers \union {None}]
          /\ data' = data
      <4>1. /\ data \in [Paths -> Buffers \union {None}]
            /\ found \in [Goroutines -> Buffers \union {None}]
        BY <1>t DEF StoreTypeOK
      <4>2. /\ found' = [found EXCEPT ![g] = data[path[g]]]
            /\ data' = data
        BY <1>5, <2>5 DEF Access
      <4>3. data[path[g]] \in Buffers \union {None}
        BY <2>3, <4>1
      <4>. QED
        BY <4>1, <4>2, <4>3
    <3>2. StoreTypeOK'
      BY <1>t, <2>1, <2>2, <3>1 DEF StoreTypeOK
    <3>3. Phases'
      BY <1>t, <2>1, <2>2, <2>3, <2>5, <3>1 DEF Phases, Ops
    <3>4. LocksHeld'
      BY <1>t, <2>1 DEF LocksHeld
    <3>5. BuffersApart'
      <4>1. OwnersDiffer'
        BY <1>t, <2>1, <2>3, <3>1 DEF BuffersApart, OwnersDiffer
      <4>2. OwnedByOne'
        BY <1>t, <2>1, <2>3, <3>1 DEF BuffersApart, OwnedByOne
      <4>3. CopiesDiffer'
        BY <1>t, <2>1, <2>3, <3>1 DEF BuffersApart, CopiesDiffer
      <4>4. ResultsPrivate'
        BY <1>t, <2>1, <2>3, <3>1 DEF BuffersApart, ResultsPrivate
      <4>. QED
        BY <4>1, <4>2, <4>3, <4>4 DEF BuffersApart
    <3>. QED
      BY <3>2, <3>3, <3>4, <3>5 DEF MemoryInv
  <2>. QED
    BY <2>4, <2>5
<1>6. ASSUME NEW g \in Goroutines, CopyOut(g) PROVE MemoryInv'
  <2>1. /\ pc[g] = "copy out"
        /\ Free # {}
        /\ UNCHANGED <<data, op, path, mine, found, readers, writer>>
        /\ Goto(g, "unlock")
    BY <1>6 DEF CopyOut, opVars, lockVars
  <2>2. /\ \A h \in Goroutines : pc'[h] = IF h = g THEN "unlock" ELSE pc[h]
        /\ pc' \in [Goroutines -> Places]
    BY <2>1, <1>u, GotoMoves DEF Places
  <2>3. /\ Fresh \in Buffers
        /\ \A h \in Goroutines : Fresh # mine[h] /\ Fresh # copy[h] /\ Fresh # found[h]
        /\ \A k \in Paths : Fresh # data[k]
    BY <2>1, FreshIsFree
  <2>4. /\ \A h \in Goroutines : copy'[h] = IF h = g THEN Fresh ELSE copy[h]
        /\ copy' \in [Goroutines -> Buffers \union {None}]
        /\ content' \in [Buffers -> Values]
    <3>1. found[g] \in Buffers
      BY <1>t, <2>1 DEF StoreTypeOK, Phases
    <3>. QED
      BY <1>6, <1>t, <2>3, <3>1 DEF CopyOut, StoreTypeOK
  <2>5. StoreTypeOK'
    BY <1>t, <2>1, <2>2, <2>4 DEF StoreTypeOK
  <2>6. Phases'
    BY <1>t, <2>1, <2>2, <2>3, <2>4 DEF Phases
  <2>7. LocksHeld'
    BY <1>t, <2>1 DEF LocksHeld
  <2>8. BuffersApart'
    <3>1. OwnersDiffer'
      BY <1>t, <2>1, <2>3, <2>4 DEF BuffersApart, OwnersDiffer
    <3>2. OwnedByOne'
      BY <1>t, <2>1, <2>3, <2>4 DEF BuffersApart, OwnedByOne
    <3>3. CopiesDiffer'
      BY <1>t, <2>1, <2>3, <2>4 DEF BuffersApart, CopiesDiffer
    <3>4. ResultsPrivate'
      BY <1>t, <2>1, <2>3, <2>4 DEF BuffersApart, ResultsPrivate
    <3>. QED
      BY <3>1, <3>2, <3>3, <3>4 DEF BuffersApart
  <2>. QED
    BY <2>5, <2>6, <2>7, <2>8 DEF MemoryInv
<1>7. ASSUME NEW g \in Goroutines, Unlock(g) PROVE MemoryInv'
  <2>1. /\ pc[g] = "unlock"
        /\ readers' = readers \ {g}
        /\ writer' = writer \ {g}
        /\ UNCHANGED <<content, data, op, path, mine, copy, found>>
        /\ Goto(g, "return")
    BY <1>7 DEF Unlock, opVars
  <2>2. /\ \A h \in Goroutines : pc'[h] = IF h = g THEN "return" ELSE pc[h]
        /\ pc' \in [Goroutines -> Places]
    BY <2>1, <1>u, GotoMoves DEF Places
  <2>3. StoreTypeOK'
    BY <1>t, <2>1, <2>2 DEF StoreTypeOK
  <2>4. Phases'
    BY <1>t, <2>1, <2>2 DEF Phases
  <2>5. LocksHeld' /\ BuffersApart'
    BY <1>t, <2>1 DEF LocksHeld, BuffersApart, OwnersDiffer, OwnedByOne, CopiesDiffer,
       ResultsPrivate
  <2>. QED
    BY <2>3, <2>4, <2>5 DEF MemoryInv
<1>8. ASSUME NEW g \in Goroutines, End(g) PROVE MemoryInv'
  <2>1. /\ pc[g] = "return"
        /\ UNCHANGED <<content, data, path, readers, writer>>
        /\ Goto(g, "idle")
    BY <1>8 DEF End, lockVars
  <2>2. /\ \A h \in Goroutines : pc'[h] = IF h = g THEN "idle" ELSE pc[h]
        /\ pc' \in [Goroutines -> Places]
    BY <2>1, <1>u, GotoMoves DEF Places
  <2>3. /\ \A h \in Goroutines : copy'[h] = IF h = g THEN None ELSE copy[h]
        /\ \A h \in Goroutines : found'[h] = IF h = g THEN None ELSE found[h]
        /\ \A h \in Goroutines : op'[h] = IF h = g THEN None ELSE op[h]
        /\ copy' \in [Goroutines -> Buffers \union {None}]
        /\ found' \in [Goroutines -> Buffers \union {None}]
        /\ op' \in [Goroutines -> Ops \union {None}]
    BY <1>8, <1>t DEF End, StoreTypeOK
  <2>4. /\ \A h \in Goroutines : mine'[h] =
              IF h = g /\ op[g] = "get" /\ copy[g] # None THEN copy[g] ELSE mine[h]
        /\ mine' \in [Goroutines -> Buffers]
    BY <1>8, <1>t DEF End, StoreTypeOK
  <2>5. g \notin readers \union writer
    BY <1>t, <2>1 DEF StoreTypeOK
  <2>6. StoreTypeOK'
    BY <1>t, <2>1, <2>2, <2>3, <2>4, <2>5 DEF StoreTypeOK
  <2>7. Phases'
    BY <1>t, <2>1, <2>2, <2>3 DEF Phases
  <2>8. LocksHeld'
    BY <1>t, <2>1, <2>3, <2>5 DEF LocksHeld, StoreTypeOK
  <2>9. BuffersApart'
    <3>1. OwnersDiffer'
      BY <1>t, <2>1, <2>3, <2>4 DEF BuffersApart, OwnersDiffer, OwnedByOne, CopiesDiffer, ResultsPrivate
    <3>2. OwnedByOne'
        <4>1. \A h \in Goroutines : mine'[h] # None
        BY <2>4
      <4>2. \A k \in Paths, h \in Goroutines : data'[k] # mine'[h]
        BY <1>t, <2>1, <2>4 DEF BuffersApart, OwnedByOne, ResultsPrivate
      <4>3. \A h, j \in Goroutines : copy'[h] # mine'[j]
        BY <1>t, <2>3, <2>4, <4>1 DEF BuffersApart, OwnedByOne, CopiesDiffer
      <4>4. \A h, j \in Goroutines : found'[h] # mine'[j]
        BY <1>t, <2>3, <2>4, <4>1 DEF BuffersApart, OwnedByOne, ResultsPrivate
      <4>. QED
        BY <4>2, <4>3, <4>4 DEF OwnedByOne
    <3>3. CopiesDiffer'
      BY <1>t, <2>1, <2>3, <2>4 DEF BuffersApart, CopiesDiffer
    <3>4. ResultsPrivate'
      BY <1>t, <2>1, <2>3, <2>4 DEF BuffersApart, ResultsPrivate
    <3>. QED
      BY <3>1, <3>2, <3>3, <3>4 DEF BuffersApart
  <2>. QED
    BY <2>6, <2>7, <2>8, <2>9 DEF MemoryInv
<1>9. ASSUME UNCHANGED storeVars PROVE MemoryInv'
  <2>1. UNCHANGED <<content, data, pc, op, path, mine, copy, found, readers, writer>>
    BY <1>9 DEF storeVars, opVars, lockVars
  <2>2. StoreTypeOK' /\ Phases' /\ LocksHeld'
    BY <1>t, <2>1 DEF StoreTypeOK, Phases, LocksHeld
  <2>3. BuffersApart'
    BY <1>t, <2>1 DEF BuffersApart, OwnersDiffer, OwnedByOne, CopiesDiffer, ResultsPrivate
  <2>. QED
    BY <2>2, <2>3 DEF MemoryInv
<1>. QED
  BY <1>1, <1>2, <1>3, <1>4, <1>5, <1>6, <1>7, <1>8, <1>9 DEF MemoryNext

\* The invariant of the memory store (MemoryStore).
LEMMA MemoryInvariant == MemorySpec => []MemoryInv
BY MemoryInitInv, MemoryStepInv, PTL DEF MemorySpec

\* Every operation is where the store's locks say it is (MemoryStore).
THEOREM StoreTypeCorrect == MemorySpec => []StoreTypeOK
<1>1. MemoryInv => StoreTypeOK
  BY DEF MemoryInv
<1>. QED
  BY <1>1, MemoryInvariant, PTL

\* Nobody is at the map while a Put is (MemoryStore: access is protected by a
\* read-write mutex).
THEOREM MapNotRaced == MemorySpec => []MapIsNotRaced
<1>1. MemoryInv => MapIsNotRaced
  <2>. SUFFICES ASSUME MemoryInv, NEW g \in Goroutines, NEW h \in Goroutines,
                       pc[g] = "access", op[g] = "put", g # h
                PROVE  pc[h] \notin Inside
    BY DEF MapIsNotRaced, Inside
  <2>1. g \in writer
    BY DEF MemoryInv, StoreTypeOK, LocksHeld
  <2>. QED
    BY <2>1 DEF MemoryInv, StoreTypeOK, LocksHeld, Inside
<1>. QED
  BY <1>1, MemoryInvariant, PTL

-----------------------------------------------------------------------------
(* No standstill.  A call waits for the lock only while another holds it, and
   whoever holds it waits at most for memory.  Were all to wait, one of them
   would be short of memory and have nothing in hand, and what a Get has found
   would still be the artifact at its path; so not all memory is taken.  *)

FoundIsStored ==
    \A g \in Goroutines :
        /\ pc[g] \notin {"copy out", "unlock", "return"} => found[g] = None
        /\ pc[g] = "copy out" => found[g] = data[path[g]]

\* What a Get has found stays where it is while the Get holds its lock (Get,
\* Put).
LEMMA FoundStep == MemoryInv /\ FoundIsStored /\ [MemoryNext]_storeVars => FoundIsStored'
<1>. SUFFICES ASSUME MemoryInv, FoundIsStored, [MemoryNext]_storeVars,
                     NEW h \in Goroutines
              PROVE  /\ pc'[h] \notin {"copy out", "unlock", "return"} => found'[h] = None
                     /\ pc'[h] = "copy out" => found'[h] = data'[path'[h]]
  BY DEF FoundIsStored
<1>t. /\ pc \in [Goroutines -> Places] /\ found \in [Goroutines -> Buffers \union {None}]
      /\ path \in [Goroutines -> Paths] /\ data \in [Paths -> Buffers \union {None}]
      /\ pc[h] \notin {"copy out", "unlock", "return"} => found[h] = None
      /\ pc[h] = "copy out" => found[h] = data[path[h]]
      /\ StoreTypeOK /\ LocksHeld
  BY DEF MemoryInv, StoreTypeOK, FoundIsStored
<1>1. ASSUME NEW g \in Goroutines, Overwrite(g) \/ Begin(g) \/ CopyIn(g) \/ Lock(g) \/ Unlock(g)
      PROVE  /\ pc'[h] \notin {"copy out", "unlock", "return"} => found'[h] = None
             /\ pc'[h] = "copy out" => found'[h] = data'[path'[h]]
  <2>1. found' = found /\ data' = data
    BY <1>1 DEF Overwrite, Begin, CopyIn, Lock, Unlock
  <2>2. \/ pc'[h] = pc[h] /\ (pc[h] = "copy out" => path'[h] = path[h])
        \/ pc[h] \in {"idle", "copy in", "lock"} /\ pc'[h] \in {"copy in", "lock", "access"}
        \/ pc[h] = "unlock" /\ pc'[h] = "return"
    <3>1. CASE Overwrite(g)
      BY <3>1 DEF Overwrite, opVars
    <3>2. CASE Begin(g)
      <4>1. PICK o \in Ops, k \in Paths :
                path' = [path EXCEPT ![g] = k] /\ Goto(g, IF o = "put" THEN "copy in" ELSE "lock")
        BY <3>2 DEF Begin
      <4>2. pc[g] = "idle"
        BY <3>2 DEF Begin
      <4>. QED
        BY <1>t, <4>1, <4>2, GotoMoves
    <3>3. CASE CopyIn(g) \/ Lock(g) \/ Unlock(g)
      BY <1>t, <3>3, GotoMoves DEF CopyIn, Lock, Unlock, opVars
    <3>. QED
      BY <1>1, <3>1, <3>2, <3>3
  <2>. QED
    BY <1>t, <2>1, <2>2
<1>2. ASSUME NEW g \in Goroutines, Access(g)
      PROVE  /\ pc'[h] \notin {"copy out", "unlock", "return"} => found'[h] = None
             /\ pc'[h] = "copy out" => found'[h] = data'[path'[h]]
  <2>1. /\ pc[g] = "access" /\ path' = path
        /\ Goto(g, IF op[g] = "get" /\ data[path[g]] # None THEN "copy out" ELSE "unlock")
    BY <1>2 DEF Access, opVars
  <2>2. /\ pc'[g] = IF op[g] = "get" /\ data[path[g]] # None THEN "copy out" ELSE "unlock"
        /\ h # g => pc'[h] = pc[h]
    BY <1>t, <2>1, GotoMoves
  <2>3. CASE op[g] = "put"
    <3>1. found' = found
      BY <1>2, <2>3 DEF Access
    <3>2. pc[h] # "copy out"
      <4>1. g \in readers \union writer /\ (pc[h] = "copy out" => h \in readers \union writer)
        BY <1>t, <2>1 DEF StoreTypeOK
      <4>2. g \in writer
        BY <1>t, <2>3, <4>1 DEF LocksHeld
      <4>3. pc[h] = "copy out" => g = h
        BY <1>t, <4>1, <4>2 DEF LocksHeld
      <4>. QED
        BY <2>1, <4>3
    <3>. QED
      BY <1>t, <2>2, <2>3, <3>1, <3>2
  <2>4. CASE op[g] # "put"
    <3>1. data' = data /\ found' = [found EXCEPT ![g] = data[path[g]]]
      BY <1>2, <2>4 DEF Access
    <3>. QED
      BY <1>t, <2>1, <2>2, <3>1
  <2>. QED
    BY <2>3, <2>4
<1>3. ASSUME NEW g \in Goroutines, CopyOut(g)
      PROVE  /\ pc'[h] \notin {"copy out", "unlock", "return"} => found'[h] = None
             /\ pc'[h] = "copy out" => found'[h] = data'[path'[h]]
  BY <1>t, <1>3, GotoMoves DEF CopyOut, opVars
<1>4. ASSUME NEW g \in Goroutines, End(g)
      PROVE  /\ pc'[h] \notin {"copy out", "unlock", "return"} => found'[h] = None
             /\ pc'[h] = "copy out" => found'[h] = data'[path'[h]]
  <2>1. /\ found' = [found EXCEPT ![g] = None] /\ data' = data /\ path' = path
        /\ Goto(g, "idle")
    BY <1>4 DEF End
  <2>2. pc'[g] = "idle" /\ (h # g => pc'[h] = pc[h])
    BY <1>t, <2>1, GotoMoves
  <2>. QED
    BY <1>t, <2>1, <2>2
<1>5. CASE UNCHANGED storeVars
  BY <1>t, <1>5 DEF storeVars, opVars
<1>. QED
  BY <1>1, <1>2, <1>3, <1>4, <1>5 DEF MemoryNext

\* The values of a function on a finite set (Referenced).
LEMMA ValuesOf ==
    ASSUME NEW S, IsFiniteSet(S), NEW f
    PROVE  /\ IsFiniteSet({f[e] : e \in S})
           /\ Cardinality({f[e] : e \in S}) \in Nat
           /\ Cardinality({f[e] : e \in S}) <= Cardinality(S)
<1>. DEFINE g == [e \in S |-> f[e]]
            T == {f[e] : e \in S}
<1>1. g \in Surjection(S, T)
  BY DEF Surjection
<1>. QED
  BY <1>1, FS_Surjection, FS_CardinalityType

\* The size of a union (Referenced).
LEMMA UnionBound ==
    ASSUME NEW S, NEW T, IsFiniteSet(S), IsFiniteSet(T)
    PROVE  /\ IsFiniteSet(S \union T)
           /\ Cardinality(S \union T) \in Nat
           /\ Cardinality(S \union T) <= Cardinality(S) + Cardinality(T)
<1>1. IsFiniteSet(S \intersect T) /\ IsFiniteSet(S \union T)
  BY FS_Intersection, FS_Union
<1>2. Cardinality(S \union T) = Cardinality(S) + Cardinality(T) - Cardinality(S \intersect T)
  BY FS_Union
<1>3. /\ Cardinality(S \intersect T) \in Nat /\ Cardinality(S \union T) \in Nat
      /\ Cardinality(S) \in Nat /\ Cardinality(T) \in Nat
  BY <1>1, FS_CardinalityType
<1>4. \A a, b, c \in Nat : a + b - c <= a + b
  OBVIOUS
<1>. QED
  BY <1>1, <1>2, <1>3, <1>4

\* Sets of so many buffers do not use up memory (EnoughMemory).
LEMMA TooFew ==
    ASSUME NEW M, NEW C, NEW D, IsFiniteSet(M), IsFiniteSet(C), IsFiniteSet(D),
           NEW n \in Nat, NEW k \in Nat,
           Cardinality(M) <= n, Cardinality(C) <= n - 1, Cardinality(D) <= k,
           NEW S, S \subseteq (M \union C) \union D
    PROVE  ~(Cardinality(S) >= 2 * n + k)
<1>1. /\ IsFiniteSet(M \union C)
      /\ Cardinality(M \union C) \in Nat
      /\ Cardinality(M \union C) <= Cardinality(M) + Cardinality(C)
  BY UnionBound
<1>2. /\ IsFiniteSet((M \union C) \union D)
      /\ Cardinality((M \union C) \union D) \in Nat
      /\ Cardinality((M \union C) \union D) <= Cardinality(M \union C) + Cardinality(D)
  BY <1>1, UnionBound
<1>3. /\ Cardinality(S) \in Nat
      /\ Cardinality(S) <= Cardinality((M \union C) \union D)
  BY <1>2, FS_Subset, FS_CardinalityType
<1>4. Cardinality(M) \in Nat /\ Cardinality(C) \in Nat /\ Cardinality(D) \in Nat
  BY FS_CardinalityType
<1>. QED
  BY <1>1, <1>2, <1>3, <1>4

\* While everyone who is not short of memory waits for the lock, memory is
\* left for one that has nothing in hand (CopyIn, CopyOut).
LEMMA MemoryIsLeft ==
    ASSUME MemoryInv, FoundIsStored, EnoughMemory,
           NEW g \in Goroutines, pc[g] \in {"copy in", "copy out"},
           \A h \in Goroutines : pc[h] \in {"idle", "copy in", "lock", "copy out"}
    PROVE  Free # {}
<1>. SUFFICES ASSUME Free = {} PROVE FALSE
  OBVIOUS
<1>. DEFINE M == {mine[h] : h \in Goroutines}
            others == Goroutines \ {g}
            C == {copy[h] : h \in others}
            D == {data[k] : k \in Paths}
<1>1. /\ IsFiniteSet(Goroutines) /\ IsFiniteSet(Paths)
      /\ Cardinality(Goroutines) \in Nat /\ Cardinality(Paths) \in Nat
      /\ Cardinality(Buffers) >= 2 * Cardinality(Goroutines) + Cardinality(Paths)
  BY FS_CardinalityType DEF EnoughMemory
<1>2. IsFiniteSet(others) /\ Cardinality(others) = Cardinality(Goroutines) - 1
  BY <1>1, FS_RemoveElement
<1>3. copy[g] = None
  BY DEF MemoryInv, StoreTypeOK, Phases, Ops
<1>4. \A h \in Goroutines : found[h] = None \/ found[h] \in D
  <2>. SUFFICES ASSUME NEW h \in Goroutines, pc[h] = "copy out" PROVE found[h] \in D
    BY DEF FoundIsStored
  <2>. QED
    BY DEF FoundIsStored, MemoryInv, StoreTypeOK
<1>5. Buffers \subseteq (M \union C) \union D
  <2>. SUFFICES ASSUME NEW b \in Buffers PROVE b \in (M \union C) \union D
    OBVIOUS
  <2>1. b # None /\ b \in Referenced
    BY StoreAssumption DEF Free
  <2>2. CASE \E h \in Goroutines : b = copy[h]
    BY <1>3, <2>1, <2>2
  <2>3. CASE \E h \in Goroutines : b = found[h]
    BY <1>4, <2>1, <2>3
  <2>4. CASE b \in M \/ b \in D
    BY <2>4
  <2>. QED
    BY <2>1, <2>2, <2>3, <2>4 DEF Referenced
<1>. HIDE DEF others
<1>6. /\ IsFiniteSet(M) /\ Cardinality(M) \in Nat /\ Cardinality(M) <= Cardinality(Goroutines)
      /\ IsFiniteSet(C) /\ Cardinality(C) \in Nat /\ Cardinality(C) <= Cardinality(others)
      /\ IsFiniteSet(D) /\ Cardinality(D) \in Nat /\ Cardinality(D) <= Cardinality(Paths)
  BY <1>1, <1>2, ValuesOf
<1>. HIDE DEF M, C, D
<1>7. Cardinality(C) <= Cardinality(Goroutines) - 1
  BY <1>2, <1>6
<1>8. ~(Cardinality(Buffers) >= 2 * Cardinality(Goroutines) + Cardinality(Paths))
  BY <1>1, <1>5, <1>6, <1>7, TooFew
<1>. QED
  BY <1>1, <1>8

\* The calls under way never all wait, for the lock or for memory (MemoryStore:
\* "safe for concurrent use").
THEOREM NobodyStandsStill == MemorySpec => []NoStandstill
<1>1. MemoryInit => FoundIsStored
  BY DEF MemoryInit, FoundIsStored
<1>2. MemoryInv /\ FoundIsStored => NoStandstill
  <2>. SUFFICES ASSUME MemoryInv, FoundIsStored, EnoughMemory,
                       NEW g \in Goroutines, pc[g] # "idle",
                       \A h \in Goroutines : pc[h] # "idle" => Waits(h)
                PROVE  FALSE
    BY DEF NoStandstill
  <2>1. \A h \in Goroutines : pc[h] \in {"idle", "copy in", "lock", "copy out"}
    BY DEF Waits
  <2>2. PICK h \in Goroutines : pc[h] \in {"copy in", "copy out"}
    <3>1. CASE pc[g] = "lock"
      <4>1. PICK h \in readers \union writer : TRUE
        BY <3>1 DEF Waits
      <4>2. h \in Goroutines /\ pc[h] \in Inside
        BY <4>1 DEF MemoryInv, StoreTypeOK, Inside
      <4>. QED
        BY <2>1, <4>2 DEF Inside
    <3>. QED
      BY <2>1, <3>1
  <2>3. Free = {}
    BY <2>2 DEF Waits
  <2>. QED
    BY <2>1, <2>2, <2>3, MemoryIsLeft
<1>. QED
  BY <1>1, <1>2, FoundStep, MemoryInvariant, PTL DEF MemorySpec

-----------------------------------------------------------------------------
(* The refinement: a goroutine's step is a call, an effect or a return of its
   own in the atomic store, or nothing there.  *)

\* A goroutine's request and reply do not change with what others do, nor as
\* it takes or gives back the lock, while the buffers it depends on keep their
\* content (MemoryStore).
LEMMA RequestKept ==
    ASSUME MemoryInv, NEW h \in Goroutines,
           \/ pc'[h] = pc[h]
           \/ pc[h] = "lock" /\ pc'[h] = "access"
           \/ pc[h] = "unlock" /\ pc'[h] = "return",
           op'[h] = op[h], path'[h] = path[h],
           mine'[h] = mine[h], copy'[h] = copy[h], found'[h] = found[h],
           pc[h] # "idle" => content'[mine[h]] = content[mine[h]],
           copy[h] # None => content'[copy[h]] = content[copy[h]],
           found[h] # None => content'[found[h]] = content[found[h]]
    PROVE  RequestOf(h)' = RequestOf(h) /\ ReplyOf(h)' = ReplyOf(h)
<1>1. RequestOf(h)' = RequestOf(h)
  BY StoreAssumption DEF RequestOf, MemoryInv, Phases
<1>2. ReplyOf(h)' = ReplyOf(h)
  <2>1. CASE pc[h] \notin {"copy out", "unlock", "return"}
    BY <2>1 DEF ReplyOf
  <2>2. CASE pc[h] \in {"copy out", "unlock", "return"} /\ op[h] = "put"
    BY <2>2 DEF ReplyOf
  <2>3. CASE pc[h] \in {"copy out", "unlock", "return"} /\ op[h] = "exists"
    <3>1. ReplyOf(h) = (found[h] # None)
      BY <2>3 DEF ReplyOf
    <3>2. ReplyOf(h)' = (found[h] # None)
      BY <2>3 DEF ReplyOf
    <3>. QED
      BY <3>1, <3>2
  <2>4. CASE pc[h] \in {"copy out", "unlock", "return"} /\ op[h] = "get"
    <3>1. ReplyOf(h) = IF found[h] = None THEN Missing
                       ELSE IF pc[h] = "copy out" THEN content[found[h]] ELSE content[copy[h]]
      BY <2>4 DEF ReplyOf
    <3>2. ReplyOf(h)' = IF found[h] = None THEN Missing
                        ELSE IF pc[h] = "copy out" THEN content'[found[h]] ELSE content'[copy[h]]
      BY <2>4 DEF ReplyOf
    <3>3. pc[h] # "copy out" => (copy[h] = None <=> found[h] = None)
      BY <2>4 DEF MemoryInv, Phases
    <3>4. CASE found[h] = None
      BY <3>1, <3>2, <3>4
    <3>5. CASE found[h] # None /\ pc[h] = "copy out"
      BY <3>1, <3>2, <3>5
    <3>6. CASE found[h] # None /\ pc[h] # "copy out"
      BY <3>1, <3>2, <3>3, <3>6
    <3>. QED
      BY <3>4, <3>5, <3>6
  <2>5. pc[h] \notin {"idle"} => op[h] \in {"put", "get", "exists"}
    BY StoreAssumption DEF MemoryInv, StoreTypeOK, Ops
  <2>. QED
    BY <2>1, <2>2, <2>3, <2>4, <2>5
<1>. QED
  BY <1>1, <1>2

\* The contents of the store do not change when its map and its buffers do
\* not (MemoryStore).
LEMMA StoreKeeps ==
    ASSUME data' = data,
           \A k \in Paths : data[k] # None => content'[data[k]] = content[data[k]]
    PROVE  storeBar' = storeBar
BY DEF storeBar

\* A step of the store is a step of the atomic one or none (Put, Get, Exists).
LEMMA StepRefines ==
    MemoryInv /\ MemoryInv' /\ [MemoryNext]_storeVars
    => [Atomic!StoreNext]_<<storeBar, requestBar, replyBar>>
<1>. SUFFICES ASSUME MemoryInv, MemoryInv', [MemoryNext]_storeVars
              PROVE  [Atomic!StoreNext]_<<storeBar, requestBar, replyBar>>
  OBVIOUS
<1>. USE StoreAssumption
<1>t. StoreTypeOK /\ Phases /\ BuffersApart
  BY DEF MemoryInv
<1>u. pc \in [Goroutines -> Places]
  BY <1>t DEF StoreTypeOK
<1>b. /\ \A k \in Paths : data[k] # None => data[k] \in Buffers
      /\ \A h \in Goroutines : copy[h] # None => copy[h] \in Buffers
      /\ \A h \in Goroutines : found[h] # None => found[h] \in Buffers
      /\ \A h \in Goroutines : mine[h] \in Buffers /\ content[mine[h]] \in Values
  BY <1>t DEF StoreTypeOK
<1>s. ASSUME storeBar' = storeBar,
             \A h \in Goroutines : RequestOf(h)' = RequestOf(h) /\ ReplyOf(h)' = ReplyOf(h)
      PROVE  [Atomic!StoreNext]_<<storeBar, requestBar, replyBar>>
  BY <1>s DEF requestBar, replyBar
<1>1. ASSUME NEW g \in Goroutines, Overwrite(g)
      PROVE  [Atomic!StoreNext]_<<storeBar, requestBar, replyBar>>
  <2>1. PICK v \in Values : content' = [content EXCEPT ![mine[g]] = v]
    BY <1>1 DEF Overwrite
  <2>2. pc[g] = "idle" /\ UNCHANGED <<data, pc, op, path, mine, copy, found>>
    BY <1>1 DEF Overwrite, opVars
  <2>3. \A b \in Buffers : b # mine[g] => content'[b] = content[b]
    BY <1>t, <2>1 DEF StoreTypeOK
  <2>4. storeBar' = storeBar
    <3>1. \A k \in Paths : data[k] # None => content'[data[k]] = content[data[k]]
      BY <1>b, <1>t, <2>3 DEF BuffersApart, OwnedByOne
    <3>. QED
      BY <2>2, <3>1, StoreKeeps
  <2>5. ASSUME NEW h \in Goroutines
        PROVE  RequestOf(h)' = RequestOf(h) /\ ReplyOf(h)' = ReplyOf(h)
    <3>1. pc[h] # "idle" => content'[mine[h]] = content[mine[h]]
      BY <1>t, <2>2, <2>3 DEF StoreTypeOK, BuffersApart, OwnersDiffer
    <3>2. /\ copy[h] # None => content'[copy[h]] = content[copy[h]]
          /\ found[h] # None => content'[found[h]] = content[found[h]]
      BY <1>b, <1>t, <2>3 DEF BuffersApart, OwnedByOne
    <3>. QED
      BY <2>2, <3>1, <3>2, RequestKept
  <2>. QED
    BY <1>s, <2>4, <2>5
<1>2. ASSUME NEW g \in Goroutines, Begin(g)
      PROVE  [Atomic!StoreNext]_<<storeBar, requestBar, replyBar>>
  <2>1. PICK o \in Ops, k \in Paths :
            /\ op' = [op EXCEPT ![g] = o]
            /\ path' = [path EXCEPT ![g] = k]
            /\ Goto(g, IF o = "put" THEN "copy in" ELSE "lock")
    BY <1>2 DEF Begin
  <2>2. pc[g] = "idle" /\ UNCHANGED <<content, data, mine, copy, found>>
    BY <1>2 DEF Begin
  <2>3. /\ \A h \in Goroutines : op'[h] = IF h = g THEN o ELSE op[h]
        /\ \A h \in Goroutines : path'[h] = IF h = g THEN k ELSE path[h]
        /\ \A h \in Goroutines : pc'[h] =
              IF h = g THEN (IF o = "put" THEN "copy in" ELSE "lock") ELSE pc[h]
    <3>1. op \in [Goroutines -> Ops \union {None}] /\ path \in [Goroutines -> Paths]
      BY <1>t DEF StoreTypeOK
    <3>. QED
      BY <2>1, <1>u, <3>1, GotoMoves
  <2>4. \A h \in Goroutines \ {g} : RequestOf(h)' = RequestOf(h) /\ ReplyOf(h)' = ReplyOf(h)
    BY <2>2, <2>3, RequestKept
  <2>5. RequestOf(g) = None /\ ReplyOf(g)' = ReplyOf(g)
    BY <2>2, <2>3 DEF RequestOf, ReplyOf
  <2>6. RequestOf(g)' \in Atomic!Operations
    BY <1>t, <2>2, <2>3 DEF RequestOf, Atomic!Operations, StoreTypeOK, Ops
  <2>7. storeBar' = storeBar
    BY <2>2, StoreKeeps
  <2>8. Atomic!Call(g)
    <3>1. requestBar' = [requestBar EXCEPT ![g] = RequestOf(g)']
      BY <2>4 DEF requestBar
    <3>2. replyBar' = replyBar
      BY <2>4, <2>5 DEF replyBar
    <3>3. requestBar[g] = None
      BY <2>5 DEF requestBar
    <3>. QED
      BY <2>6, <2>7, <3>1, <3>2, <3>3 DEF Atomic!Call
  <2>. QED
    BY <2>8 DEF Atomic!StoreNext
<1>3. ASSUME NEW g \in Goroutines, CopyIn(g)
      PROVE  [Atomic!StoreNext]_<<storeBar, requestBar, replyBar>>
  <2>1. /\ pc[g] = "copy in"
        /\ Free # {}
        /\ content' = [content EXCEPT ![Fresh] = content[mine[g]]]
        /\ copy' = [copy EXCEPT ![g] = Fresh]
        /\ UNCHANGED <<data, op, path, mine, found>>
        /\ Goto(g, "lock")
    BY <1>3 DEF CopyIn, opVars
  <2>2. \A h \in Goroutines : pc'[h] = IF h = g THEN "lock" ELSE pc[h]
    BY <2>1, <1>u, GotoMoves
  <2>3. /\ Fresh \in Buffers
        /\ \A h \in Goroutines : Fresh # mine[h] /\ Fresh # copy[h] /\ Fresh # found[h]
        /\ \A k \in Paths : Fresh # data[k]
    BY <2>1, FreshIsFree
  <2>4. /\ \A b \in Buffers : content'[b] = IF b = Fresh THEN content[mine[g]] ELSE content[b]
        /\ \A h \in Goroutines : copy'[h] = IF h = g THEN Fresh ELSE copy[h]
    BY <1>t, <2>1 DEF StoreTypeOK
  <2>5. storeBar' = storeBar
    <3>1. \A k \in Paths : data[k] # None => content'[data[k]] = content[data[k]]
      BY <1>b, <2>3, <2>4
    <3>. QED
      BY <2>1, <3>1, StoreKeeps
  <2>6. ASSUME NEW h \in Goroutines, h # g
        PROVE  RequestOf(h)' = RequestOf(h) /\ ReplyOf(h)' = ReplyOf(h)
    <3>1. /\ content'[mine[h]] = content[mine[h]]
          /\ copy[h] # None => content'[copy[h]] = content[copy[h]]
          /\ found[h] # None => content'[found[h]] = content[found[h]]
      BY <1>b, <2>3, <2>4
    <3>. QED
      BY <2>1, <2>2, <2>4, <2>6, <3>1, RequestKept
  <2>7. RequestOf(g)' = RequestOf(g) /\ ReplyOf(g)' = ReplyOf(g)
    <3>1. op[g] = "put" /\ copy'[g] = Fresh /\ content'[Fresh] = content[mine[g]]
      BY <1>t, <2>1, <2>3, <2>4 DEF Phases
    <3>. QED
      BY <2>1, <2>2, <3>1 DEF RequestOf, ReplyOf
  <2>. QED
    BY <1>s, <2>5, <2>6, <2>7
<1>4. ASSUME NEW g \in Goroutines, Lock(g)
      PROVE  [Atomic!StoreNext]_<<storeBar, requestBar, replyBar>>
  <2>1. /\ pc[g] = "lock"
        /\ UNCHANGED <<content, data, op, path, mine, copy, found>>
        /\ Goto(g, "access")
    BY <1>4 DEF Lock, opVars
  <2>2. \A h \in Goroutines : pc'[h] = IF h = g THEN "access" ELSE pc[h]
    BY <2>1, <1>u, GotoMoves
  <2>3. storeBar' = storeBar
    BY <2>1, StoreKeeps
  <2>4. \A h \in Goroutines : RequestOf(h)' = RequestOf(h) /\ ReplyOf(h)' = ReplyOf(h)
    BY <2>1, <2>2, RequestKept
  <2>. QED
    BY <1>s, <2>3, <2>4
<1>5. ASSUME NEW g \in Goroutines, Access(g)
      PROVE  [Atomic!StoreNext]_<<storeBar, requestBar, replyBar>>
  <2>1. /\ pc[g] = "access"
        /\ UNCHANGED <<content, op, path, mine, copy>>
        /\ Goto(g, IF op[g] = "get" /\ data[path[g]] # None THEN "copy out" ELSE "unlock")
    BY <1>5 DEF Access, opVars
  <2>2. \A h \in Goroutines : pc'[h] =
            IF h = g THEN (IF op[g] = "get" /\ data[path[g]] # None
                           THEN "copy out" ELSE "unlock") ELSE pc[h]
    BY <2>1, <1>u, GotoMoves
  <2>3. op[g] \in Ops /\ path[g] \in Paths
    BY <1>t, <2>1 DEF StoreTypeOK
  <2>4. \A h \in Goroutines : h # g => found'[h] = found[h]
    BY <1>5, <1>t DEF Access, StoreTypeOK
  <2>5. \A h \in Goroutines : h # g => RequestOf(h)' = RequestOf(h) /\ ReplyOf(h)' = ReplyOf(h)
    BY <2>1, <2>2, <2>4, RequestKept
  <2>6. RequestOf(g)' = RequestOf(g)
    BY <2>1, <2>2 DEF RequestOf
  <2>7. requestBar' = requestBar
    BY <2>5, <2>6 DEF requestBar
  <2>8. /\ requestBar[g] = RequestOf(g)
        /\ requestBar[g] # None
        /\ requestBar[g].op = op[g]
        /\ requestBar[g].path = path[g]
        /\ op[g] = "put" => requestBar[g].value = content[copy[g]]
    <3>1. RequestOf(g) \in [op: {"put", "get", "exists"}, path: Paths,
                            value: Values \union {Missing}]
      BY <1>b, <1>t, <2>1, <2>3 DEF RequestOf, Ops, Phases, StoreTypeOK
    <3>. QED
      BY <2>1, <3>1 DEF requestBar, RequestOf
  <2>9. replyBar[g] = None
    BY <2>1 DEF replyBar, ReplyOf
  <2>10. replyBar' = [replyBar EXCEPT ![g] = ReplyOf(g)']
    BY <2>5 DEF replyBar
  <2>11. CASE op[g] = "put"
    <3>1. \A k \in Paths : data'[k] = IF k = path[g] THEN copy[g] ELSE data[k]
      BY <1>5, <1>t, <2>11 DEF Access, StoreTypeOK
    <3>2. copy[g] # None
      BY <1>t, <2>1, <2>11 DEF Phases
    <3>3. storeBar' = [storeBar EXCEPT ![path[g]] = content[copy[g]]]
      BY <2>1, <3>1, <3>2 DEF storeBar
    <3>4. ReplyOf(g)' = TRUE
      BY <2>1, <2>2, <2>11 DEF ReplyOf
    <3>5. Atomic!TakeEffect(g)
      BY <2>7, <2>8, <2>9, <2>10, <2>11, <3>3, <3>4 DEF Atomic!TakeEffect
    <3>. QED
      BY <3>5 DEF Atomic!StoreNext
  <2>12. CASE op[g] # "put"
    <3>1. found'[g] = data[path[g]] /\ data' = data
      BY <1>5, <1>t, <2>12 DEF Access, StoreTypeOK
    <3>2. storeBar' = storeBar
      BY <2>1, <3>1, StoreKeeps
    <3>3. storeBar[path[g]] =
            IF data[path[g]] = None THEN Missing ELSE content[data[path[g]]]
      BY <2>3 DEF storeBar
    <3>4. CASE op[g] = "get"
      <4>1. ReplyOf(g)' = storeBar[path[g]]
        BY <2>1, <2>2, <3>1, <3>3, <3>4 DEF ReplyOf
      <4>2. Atomic!TakeEffect(g)
        BY <2>7, <2>8, <2>9, <2>10, <3>2, <3>4, <4>1 DEF Atomic!TakeEffect
      <4>. QED
        BY <4>2 DEF Atomic!StoreNext
    <3>5. CASE op[g] = "exists"
      <4>1. ReplyOf(g)' = (data[path[g]] # None)
        BY <2>1, <2>2, <3>1, <3>5 DEF ReplyOf
      <4>2. data[path[g]] # None <=> storeBar[path[g]] # Missing
        <5>1. data[path[g]] # None => content[data[path[g]]] \in Values
          BY <1>b, <1>t, <2>3 DEF StoreTypeOK
        <5>2. storeBar[path[g]] # Missing => data[path[g]] # None
          BY <3>3
        <5>3. data[path[g]] # None => storeBar[path[g]] # Missing
          BY <3>3, <5>1
        <5>. QED
          BY <5>2, <5>3
      <4>3. ReplyOf(g)' = (storeBar[path[g]] # Missing)
        BY <4>1, <4>2
      <4>4. Atomic!TakeEffect(g)
        BY <2>7, <2>8, <2>9, <2>10, <3>2, <3>5, <4>3 DEF Atomic!TakeEffect
      <4>. QED
        BY <4>4 DEF Atomic!StoreNext
    <3>. QED
      BY <2>3, <2>12, <3>4, <3>5 DEF Ops
  <2>. QED
    BY <2>11, <2>12
<1>6. ASSUME NEW g \in Goroutines, CopyOut(g)
      PROVE  [Atomic!StoreNext]_<<storeBar, requestBar, replyBar>>
  <2>1. /\ pc[g] = "copy out"
        /\ Free # {}
        /\ content' = [content EXCEPT ![Fresh] = content[found[g]]]
        /\ copy' = [copy EXCEPT ![g] = Fresh]
        /\ UNCHANGED <<data, op, path, mine, found>>
        /\ Goto(g, "unlock")
    BY <1>6 DEF CopyOut, opVars
  <2>2. \A h \in Goroutines : pc'[h] = IF h = g THEN "unlock" ELSE pc[h]
    BY <2>1, <1>u, GotoMoves
  <2>3. /\ Fresh \in Buffers
        /\ \A h \in Goroutines : Fresh # mine[h] /\ Fresh # copy[h] /\ Fresh # found[h]
        /\ \A k \in Paths : Fresh # data[k]
    BY <2>1, FreshIsFree
  <2>4. /\ \A b \in Buffers : content'[b] = IF b = Fresh THEN content[found[g]] ELSE content[b]
        /\ \A h \in Goroutines : copy'[h] = IF h = g THEN Fresh ELSE copy[h]
    BY <1>t, <2>1 DEF StoreTypeOK
  <2>5. storeBar' = storeBar
    <3>1. \A k \in Paths : data[k] # None => content'[data[k]] = content[data[k]]
      BY <1>b, <2>3, <2>4
    <3>. QED
      BY <2>1, <3>1, StoreKeeps
  <2>6. ASSUME NEW h \in Goroutines, h # g
        PROVE  RequestOf(h)' = RequestOf(h) /\ ReplyOf(h)' = ReplyOf(h)
    <3>1. /\ content'[mine[h]] = content[mine[h]]
          /\ copy[h] # None => content'[copy[h]] = content[copy[h]]
          /\ found[h] # None => content'[found[h]] = content[found[h]]
      BY <1>b, <2>3, <2>4
    <3>. QED
      BY <2>1, <2>2, <2>4, <2>6, <3>1, RequestKept
  <2>7. RequestOf(g)' = RequestOf(g) /\ ReplyOf(g)' = ReplyOf(g)
    <3>1. /\ op[g] = "get" /\ found[g] # None
          /\ copy'[g] = Fresh /\ content'[Fresh] = content[found[g]]
      BY <1>t, <2>1, <2>3, <2>4 DEF Phases
    <3>2. RequestOf(g)' = RequestOf(g)
      BY <2>1, <2>2, <3>1 DEF RequestOf
    <3>3. ReplyOf(g) = content[found[g]]
      BY <2>1, <3>1 DEF ReplyOf
    <3>4. ReplyOf(g)' = content'[Fresh]
      BY <2>1, <2>2, <3>1 DEF ReplyOf
    <3>. QED
      BY <3>1, <3>2, <3>3, <3>4
  <2>. QED
    BY <1>s, <2>5, <2>6, <2>7
<1>7. ASSUME NEW g \in Goroutines, Unlock(g)
      PROVE  [Atomic!StoreNext]_<<storeBar, requestBar, replyBar>>
  <2>1. /\ pc[g] = "unlock"
        /\ UNCHANGED <<content, data, op, path, mine, copy, found>>
        /\ Goto(g, "return")
    BY <1>7 DEF Unlock, opVars
  <2>2. \A h \in Goroutines : pc'[h] = IF h = g THEN "return" ELSE pc[h]
    BY <2>1, <1>u, GotoMoves
  <2>3. storeBar' = storeBar
    BY <2>1, StoreKeeps
  <2>4. \A h \in Goroutines : RequestOf(h)' = RequestOf(h) /\ ReplyOf(h)' = ReplyOf(h)
    BY <2>1, <2>2, RequestKept
  <2>. QED
    BY <1>s, <2>3, <2>4
<1>8. ASSUME NEW g \in Goroutines, End(g)
      PROVE  [Atomic!StoreNext]_<<storeBar, requestBar, replyBar>>
  <2>1. /\ pc[g] = "return"
        /\ UNCHANGED <<content, data, path>>
        /\ Goto(g, "idle")
    BY <1>8 DEF End
  <2>2. \A h \in Goroutines : pc'[h] = IF h = g THEN "idle" ELSE pc[h]
    BY <2>1, <1>u, GotoMoves
  <2>3. \A h \in Goroutines : h # g =>
            copy'[h] = copy[h] /\ found'[h] = found[h] /\ op'[h] = op[h] /\ mine'[h] = mine[h]
    BY <1>8, <1>t DEF End, StoreTypeOK
  <2>4. storeBar' = storeBar
    BY <2>1, StoreKeeps
  <2>5. \A h \in Goroutines : h # g => RequestOf(h)' = RequestOf(h) /\ ReplyOf(h)' = ReplyOf(h)
    BY <2>1, <2>2, <2>3, RequestKept
  <2>6. RequestOf(g)' = None /\ ReplyOf(g)' = None
    BY <2>2 DEF RequestOf, ReplyOf
  <2>7. replyBar[g] # None
    <3>1. op[g] \in {"put", "get", "exists"}
      BY <1>t, <2>1 DEF StoreTypeOK, Ops
    <3>2. op[g] = "put" => ReplyOf(g) = TRUE
      BY <2>1 DEF ReplyOf
    <3>3. op[g] = "exists" => ReplyOf(g) = (found[g] # None)
      BY <2>1 DEF ReplyOf
    <3>4. op[g] = "get" => ReplyOf(g) \in Values \union {Missing}
      <4>1. SUFFICES ASSUME op[g] = "get" PROVE ReplyOf(g) \in Values \union {Missing}
        OBVIOUS
      <4>2. ReplyOf(g) = IF found[g] = None THEN Missing ELSE content[copy[g]]
        BY <2>1, <4>1 DEF ReplyOf
      <4>3. found[g] # None => content[copy[g]] \in Values
        BY <1>b, <1>t, <2>1, <4>1 DEF Phases, StoreTypeOK
      <4>. QED
        BY <4>2, <4>3
    <3>5. (found[g] # None) \in BOOLEAN /\ TRUE \in BOOLEAN
      OBVIOUS
    <3>6. ReplyOf(g) \in BOOLEAN \union Values \union {Missing}
      BY <3>1, <3>2, <3>3, <3>4, <3>5
    <3>. QED
      BY <3>6 DEF replyBar
  <2>8. Atomic!Return(g)
    <3>1. requestBar' = [requestBar EXCEPT ![g] = None]
      BY <2>5, <2>6 DEF requestBar
    <3>2. replyBar' = [replyBar EXCEPT ![g] = None]
      BY <2>5, <2>6 DEF replyBar
    <3>. QED
      BY <2>4, <2>7, <3>1, <3>2 DEF Atomic!Return
  <2>. QED
    BY <2>8 DEF Atomic!StoreNext
<1>9. ASSUME UNCHANGED storeVars
      PROVE  [Atomic!StoreNext]_<<storeBar, requestBar, replyBar>>
  <2>1. UNCHANGED <<content, data, pc, op, path, mine, copy, found>>
    BY <1>9 DEF storeVars, opVars
  <2>2. storeBar' = storeBar
    BY <2>1, StoreKeeps
  <2>3. \A h \in Goroutines : RequestOf(h)' = RequestOf(h) /\ ReplyOf(h)' = ReplyOf(h)
    BY <2>1, RequestKept
  <2>. QED
    BY <1>s, <2>2, <2>3
<1>. QED
  BY <1>1, <1>2, <1>3, <1>4, <1>5, <1>6, <1>7, <1>8, <1>9 DEF MemoryNext

\* The memory store implements the atomic one: each Put, Get and Exists takes
\* effect at one moment and on the bytes it was called with (MemoryStore: safe
\* for concurrent use, and callers cannot mutate internal state).
THEOREM StoreIsAtomic == MemorySpec => ImplementsAtomicStore
<1>1. MemoryInit => Atomic!StoreInit
  <2>. SUFFICES ASSUME MemoryInit PROVE Atomic!StoreInit
    OBVIOUS
  <2>1. storeBar = [k \in Paths |-> Missing]
    BY DEF MemoryInit, storeBar
  <2>2. requestBar = [g \in Goroutines |-> None] /\ replyBar = [g \in Goroutines |-> None]
    BY DEF MemoryInit, requestBar, replyBar, RequestOf, ReplyOf
  <2>. QED
    BY <2>1, <2>2 DEF Atomic!StoreInit
<1>. QED
  BY <1>1, StepRefines, MemoryInvariant, PTL
  DEF ImplementsAtomicStore, Atomic!StoreSpec, MemorySpec
=============================================================================
