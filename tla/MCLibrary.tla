----------------------------- MODULE MCLibrary -----------------------------
(* Small instances of ConnectorSessions and MemoryStore for TLC.  The two
   share nothing: a behaviour is one of either, and the other rests. *)
EXTENDS ConnectorSessions, MemoryStore, Functions

CONSTANTS p, c

VARIABLE part    \* the connector the caller uses, or "store"

Good == [given |-> TRUE, topK |-> 2, boundaryK |-> 1, expandK |-> 3, query |-> 0,
         queries |-> 1, named |-> TRUE, wellFormed |-> TRUE]

\* A good call, and one with each thing that can be wrong with it.
MCInputs ==
    {Good, [Good EXCEPT !.given = FALSE], [Good EXCEPT !.topK = 0],
     [Good EXCEPT !.boundaryK = 0], [Good EXCEPT !.expandK = 2],
     [Good EXCEPT !.expandK = 1], [Good EXCEPT !.query = -1],
     [Good EXCEPT !.query = 1], [Good EXCEPT !.queries = 0],
     [Good EXCEPT !.named = FALSE], [Good EXCEPT !.wellFormed = FALSE]}

LibraryInit ==
    /\ part \in Library \union {"store"}
    /\ SessionInit
    /\ MemoryInit
    /\ content = [b \in Buffers |-> CHOOSE v \in Values : TRUE]
    /\ mine = CHOOSE m \in [Goroutines -> Buffers] : IsInjective(m)
    /\ path = [g \in Goroutines |-> CHOOSE k \in Paths : TRUE]
    /\ part = "store" => limit = 1 /\ \A q \in Processes : input[q] = Good

\* A caller's connectors share nothing but the server, so one at a time will do.
OneConnector ==
    \A d \in Callers, x \in Library \ {part} :
        client[d][x] = "none" /\ answer[d][x] = "none" /\ ~closed[d][x]

LibraryNext ==
    /\ UNCHANGED part
    /\ \/ part # "store" /\ SessionNext /\ OneConnector' /\ UNCHANGED storeVars
       \/ part = "store" /\ MemoryNext /\ UNCHANGED sessionVars

LibrarySpec == LibraryInit /\ [][LibraryNext]_<<part, sessionVars, storeVars>> /\ MemoryFairness
=============================================================================
