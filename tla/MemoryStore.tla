---------------------------- MODULE MemoryStore ----------------------------
(***************************************************************************)
(* artifacts.MemoryStore: a map from paths to byte slices behind a         *)
(* read-write mutex, used by several goroutines.                           *)
(*                                                                         *)
(* A byte slice is a reference to a buffer.  A goroutine owns the buffer   *)
(* it passes to Put and the one Get gives it, and may overwrite either at  *)
(* any moment between two calls; the store must not notice.                *)
(***************************************************************************)
EXTENDS Naturals, FiniteSets

CONSTANTS
    Goroutines,  \* users of the store
    Paths,       \* artifact paths; the empty path is refused
    Values,      \* contents
    Buffers,     \* memory the store and its users allocate from
    Missing,     \* no artifact at a path
    None         \* no buffer, no operation

ASSUME StoreAssumption ==
    /\ Missing \notin Values
    /\ None \notin Buffers
    /\ None \notin Values \union {Missing}
    /\ None \notin BOOLEAN
    /\ None \notin {"put", "get", "exists"}
    /\ None \notin [op: {"put", "get", "exists"}, path: Paths, value: Values \union {Missing}]

VARIABLES
    content,   \* buffer -> value
    data,      \* path -> buffer of the store, or None
    pc,        \* per goroutine: where in an operation it is
    op,        \* per goroutine: the operation it is in, or None
    path,      \* per goroutine: the path it named
    mine,      \* per goroutine: the buffer it owns
    copy,      \* per goroutine: the buffer its operation allocated, or None
    found,     \* per goroutine: what the map held for its path
    readers,   \* goroutines that hold the read lock
    writer     \* goroutines that hold the write lock

opVars == <<op, path>>
lockVars == <<readers, writer>>
storeVars == <<content, data, pc, opVars, mine, copy, found, lockVars>>

Ops == {"put", "get", "exists"}

Referenced ==
    {mine[g] : g \in Goroutines} \union {copy[g] : g \in Goroutines} \union
    {found[g] : g \in Goroutines} \union {data[k] : k \in Paths}

Free == Buffers \ Referenced

\* The allocator's choice.
Fresh == CHOOSE b \in Free : TRUE

MemoryInit ==
    /\ content \in [Buffers -> Values]
    /\ data = [k \in Paths |-> None]
    /\ pc = [g \in Goroutines |-> "idle"]
    /\ op = [g \in Goroutines |-> None]
    /\ path \in [Goroutines -> Paths]
    /\ mine \in [Goroutines -> Buffers]
    /\ \A g, h \in Goroutines : mine[g] = mine[h] => g = h
    /\ copy = [g \in Goroutines |-> None]
    /\ found = [g \in Goroutines |-> None]
    /\ readers = {}
    /\ writer = {}

Goto(g, label) == pc' = [pc EXCEPT ![g] = label]

\* A goroutine between two calls does with its buffer what it likes.
Overwrite(g) ==
    /\ pc[g] = "idle"
    /\ \E v \in Values : content' = [content EXCEPT ![mine[g]] = v]
    /\ UNCHANGED <<data, pc, opVars, mine, copy, found, lockVars>>

\* A call that is not refused: the context is live and the path not empty.
Begin(g) ==
    /\ pc[g] = "idle"
    /\ \E o \in Ops, k \in Paths :
        /\ op' = [op EXCEPT ![g] = o]
        /\ path' = [path EXCEPT ![g] = k]
        /\ Goto(g, IF o = "put" THEN "copy in" ELSE "lock")
    /\ UNCHANGED <<content, data, mine, copy, found, lockVars>>

\* Faulty variant: the store keeps the slice it was given.
CopyIn_Shares(g) ==
    /\ pc[g] = "copy in"
    /\ copy' = [copy EXCEPT ![g] = mine[g]]
    /\ Goto(g, "lock")
    /\ UNCHANGED <<content, data, opVars, mine, found, lockVars>>

\* Put copies before it locks.
CopyIn(g) ==
    /\ pc[g] = "copy in"
    /\ Free # {}
    /\ content' = [content EXCEPT ![Fresh] = content[mine[g]]]
    /\ copy' = [copy EXCEPT ![g] = Fresh]
    /\ Goto(g, "lock")
    /\ UNCHANGED <<data, opVars, mine, found, lockVars>>

\* Faulty variant: Put takes the read lock.
Lock_AlwaysRead(g) ==
    /\ pc[g] = "lock"
    /\ writer = {}
    /\ readers' = readers \union {g}
    /\ Goto(g, "access")
    /\ UNCHANGED <<content, data, opVars, mine, copy, found, writer>>

\* Lock for Put, RLock for Get and Exists.
Lock(g) ==
    /\ pc[g] = "lock"
    /\ writer = {}
    /\ IF op[g] = "put"
       THEN readers = {} /\ writer' = {g} /\ UNCHANGED readers
       ELSE readers' = readers \union {g} /\ UNCHANGED writer
    /\ Goto(g, "access")
    /\ UNCHANGED <<content, data, opVars, mine, copy, found>>

\* Faulty variant: a Get waits, holding its lock, until its artifact is there.
Access_AwaitsPut(g) ==
    /\ pc[g] = "access"
    /\ IF op[g] = "put"
       THEN data' = [data EXCEPT ![path[g]] = copy[g]] /\ UNCHANGED found
       ELSE found' = [found EXCEPT ![g] = data[path[g]]] /\ UNCHANGED data
    /\ Goto(g, CASE op[g] # "get" -> "unlock"
                 [] data[path[g]] # None -> "copy out"
                 [] OTHER -> "access")
    /\ UNCHANGED <<content, opVars, mine, copy, lockVars>>

\* Faulty variant: a Get of a path nobody has written returns early, and its
\* lock is not released by a deferred call.
Access_ReturnsLocked(g) ==
    /\ pc[g] = "access"
    /\ IF op[g] = "put"
       THEN data' = [data EXCEPT ![path[g]] = copy[g]] /\ UNCHANGED found
       ELSE found' = [found EXCEPT ![g] = data[path[g]]] /\ UNCHANGED data
    /\ Goto(g, CASE op[g] # "get" -> "unlock"
                 [] data[path[g]] # None -> "copy out"
                 [] OTHER -> "return")
    /\ UNCHANGED <<content, opVars, mine, copy, lockVars>>

\* The access to the map begins, and ends with Access.
Access(g) ==
    /\ pc[g] = "access"
    /\ IF op[g] = "put"
       THEN data' = [data EXCEPT ![path[g]] = copy[g]] /\ UNCHANGED found
       ELSE found' = [found EXCEPT ![g] = data[path[g]]] /\ UNCHANGED data
    /\ Goto(g, IF op[g] = "get" /\ data[path[g]] # None THEN "copy out" ELSE "unlock")
    /\ UNCHANGED <<content, opVars, mine, copy, lockVars>>

\* Get copies while it holds the read lock.
CopyOut(g) ==
    /\ pc[g] = "copy out"
    /\ Free # {}
    /\ content' = [content EXCEPT ![Fresh] = content[found[g]]]
    /\ copy' = [copy EXCEPT ![g] = Fresh]
    /\ Goto(g, "unlock")
    /\ UNCHANGED <<data, opVars, mine, found, lockVars>>

\* Faulty variant: every operation releases the read lock.
Unlock_AlwaysRead(g) ==
    /\ pc[g] = "unlock"
    /\ readers' = readers \ {g}
    /\ Goto(g, "return")
    /\ UNCHANGED <<content, data, opVars, mine, copy, found, writer>>

\* Deferred, so on every way out.
Unlock(g) ==
    /\ pc[g] = "unlock"
    /\ readers' = readers \ {g}
    /\ writer' = writer \ {g}
    /\ Goto(g, "return")
    /\ UNCHANGED <<content, data, opVars, mine, copy, found>>

\* The caller owns what Get gave it, and nothing of what Put made.
End(g) ==
    /\ pc[g] = "return"
    /\ mine' = IF op[g] = "get" /\ copy[g] # None
               THEN [mine EXCEPT ![g] = copy[g]] ELSE mine
    /\ copy' = [copy EXCEPT ![g] = None]
    /\ found' = [found EXCEPT ![g] = None]
    /\ op' = [op EXCEPT ![g] = None]
    /\ Goto(g, "idle")
    /\ UNCHANGED <<content, data, path, lockVars>>

MemoryNext ==
    \E g \in Goroutines :
        \/ Overwrite(g) \/ Begin(g) \/ CopyIn(g) \/ Lock(g) \/ Access(g)
        \/ CopyOut(g) \/ Unlock(g) \/ End(g)

MemorySpec == MemoryInit /\ [][MemoryNext]_storeVars

Proceed(g) == CopyIn(g) \/ Access(g) \/ CopyOut(g) \/ Unlock(g) \/ End(g)

\* A goroutine inside a call is scheduled, and sync.RWMutex lets no waiter
\* starve: a waiting Lock holds new readers back, and Unlock wakes all readers.
MemoryFairness ==
    \A g \in Goroutines : WF_storeVars(Proceed(g)) /\ SF_storeVars(Lock(g))

-----------------------------------------------------------------------------
(* Properties.  *)

Places == {"idle", "copy in", "lock", "access", "copy out", "unlock", "return"}

StoreTypeOK ==
    /\ content \in [Buffers -> Values]
    /\ data \in [Paths -> Buffers \union {None}]
    /\ pc \in [Goroutines -> Places]
    /\ op \in [Goroutines -> Ops \union {None}]
    /\ \A g \in Goroutines : op[g] = None <=> pc[g] = "idle"
    /\ path \in [Goroutines -> Paths]
    /\ mine \in [Goroutines -> Buffers]
    /\ copy \in [Goroutines -> Buffers \union {None}]
    /\ found \in [Goroutines -> Buffers \union {None}]
    /\ readers \subseteq Goroutines
    /\ writer \subseteq Goroutines
    /\ \A g \in Goroutines : pc[g] \in {"access", "copy out", "unlock"} <=> g \in readers \union writer

\* "all access is protected by a read-write mutex" (NewMemoryStore): nobody
\* touches the map while a Put is at it.
MapIsNotRaced ==
    \A g, h \in Goroutines :
        pc[g] = "access" /\ op[g] = "put" /\ g # h =>
            pc[h] \notin {"access", "copy out", "unlock"}

\* What each goroutine owns, what its operation has in hand, and an artifact
\* for each path.
EnoughMemory ==
    /\ IsFiniteSet(Goroutines) /\ IsFiniteSet(Paths)
    /\ Cardinality(Buffers) >= 2 * Cardinality(Goroutines) + Cardinality(Paths)

Waits(g) ==
    \/ pc[g] = "lock" /\ (writer # {} \/ (op[g] = "put" /\ readers # {}))
    \/ pc[g] \in {"copy in", "copy out"} /\ Free = {}

\* "safe for concurrent use" (NewMemoryStore): the calls under way never all
\* wait, for the lock or for memory.  No operation waits for the lock while it
\* holds it, each lets go of what it locked, and none keeps a buffer: neither
\* the artifact a Put replaced nor the copy a Get handed out.
NoStandstill ==
    EnoughMemory /\ (\E g \in Goroutines : pc[g] # "idle") =>
        \E g \in Goroutines : pc[g] # "idle" /\ ~Waits(g)

\* "safe for concurrent use" (NewMemoryStore): no call waits for ever, whatever
\* the others ask for and whatever they find; a Get of a path that nobody has
\* written lets go of its lock as well.
EveryCallReturns == \A g \in Goroutines : pc[g] # "idle" ~> pc[g] = "idle"

-----------------------------------------------------------------------------
(* The store implements the atomic one.  An operation takes effect when it
   accesses the map; what a Get will return is what its copy holds.  *)

storeBar == [k \in Paths |-> IF data[k] = None THEN Missing ELSE content[data[k]]]

RequestOf(g) ==
    IF pc[g] = "idle" THEN None
    ELSE [op |-> op[g], path |-> path[g],
          value |-> IF op[g] # "put" THEN Missing
                    ELSE IF pc[g] = "copy in" THEN content[mine[g]] ELSE content[copy[g]]]

ReplyOf(g) ==
    IF pc[g] \notin {"copy out", "unlock", "return"} THEN None
    ELSE CASE op[g] = "put" -> TRUE
           [] op[g] = "exists" -> found[g] # None
           [] op[g] = "get" ->
                IF found[g] = None THEN Missing
                ELSE IF pc[g] = "copy out" THEN content[found[g]] ELSE content[copy[g]]

requestBar == [g \in Goroutines |-> RequestOf(g)]
replyBar == [g \in Goroutines |-> ReplyOf(g)]

Atomic == INSTANCE AtomicStore WITH
    store <- storeBar, request <- requestBar, reply <- replyBar

\* "It copies data on write and read so callers cannot mutate internal state
\* through shared byte slices", and the store "is safe for concurrent use"
\* (MemoryStore): every Put, Get and Exists takes effect at one moment, on the
\* bytes it was called with.
ImplementsAtomicStore == Atomic!StoreSpec
=============================================================================
