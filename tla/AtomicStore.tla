---------------------------- MODULE AtomicStore ----------------------------
(***************************************************************************)
(* What artifacts.Store promises: Put, Get and Exists on paths, each of    *)
(* which takes effect at one moment between its call and its return,       *)
(* whatever other goroutines do and whatever the caller does with the      *)
(* bytes it passed in or got back.                                         *)
(***************************************************************************)
CONSTANTS Goroutines, Paths, Values, Missing, None

VARIABLES
    store,    \* path -> value or Missing
    request,  \* per goroutine: the operation it is in, or None
    reply     \* per goroutine: what that operation will return, once it has
              \* taken effect

Operations ==
    [op: {"put"}, path: Paths, value: Values] \union
    [op: {"get", "exists"}, path: Paths, value: {Missing}]

StoreInit ==
    /\ store = [path \in Paths |-> Missing]
    /\ request = [g \in Goroutines |-> None]
    /\ reply = [g \in Goroutines |-> None]

Call(g) ==
    /\ request[g] = None
    /\ \E o \in Operations : request' = [request EXCEPT ![g] = o]
    /\ UNCHANGED <<store, reply>>

TakeEffect(g) ==
    /\ request[g] # None
    /\ reply[g] = None
    /\ LET o == request[g] IN
        /\ store' = IF o.op = "put" THEN [store EXCEPT ![o.path] = o.value] ELSE store
        /\ reply' = [reply EXCEPT ![g] =
             CASE o.op = "put" -> TRUE
               [] o.op = "get" -> store[o.path]
               [] o.op = "exists" -> store[o.path] # Missing]
    /\ UNCHANGED request

Return(g) ==
    /\ reply[g] # None
    /\ request' = [request EXCEPT ![g] = None]
    /\ reply' = [reply EXCEPT ![g] = None]
    /\ UNCHANGED store

StoreNext == \E g \in Goroutines : Call(g) \/ TakeEffect(g) \/ Return(g)

StoreSpec == StoreInit /\ [][StoreNext]_<<store, request, reply>>
=============================================================================
