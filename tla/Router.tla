-------------------------------- MODULE Router --------------------------------
(***************************************************************************)
(* QueryRouter.Execute on one node and the RPC servers of the others: a    *)
(* call fans out to the owners of the partition map, waits for all shards, *)
(* each of them bounded by a deadline, and merges the answers.  Calls are  *)
(* concurrent, servers close or crash, and a server that was asked may     *)
(* execute the query after the caller has given up.                        *)
(*                                                                         *)
(* A row is [of, no], the node and number it comes from; that the values of *)
(* a remote row went through JSON is left out.  The size of an answer is   *)
(* its number of rows.                                                     *)
(***************************************************************************)
EXTENDS Integers, Sequences, FiniteSets, SequencesExt

CONSTANTS
    Call,       \* calls of Execute
    Node,       \* cluster nodes
    Me,         \* the node of the router (r.self)
    Views,      \* call -> the lists UniqueOwners may answer to it, sorted by name
    Size,       \* node -> number of rows of its answer
    MaxSize,    \* the reader's limit on an RPC message (10 MB)
    MaxStops    \* bound on how often a server closes or crashes

ASSUME RouterAssumption ==
    /\ Me \in Node /\ Size \in [Node -> Nat] /\ MaxSize \in Nat /\ MaxStops \in Nat
    /\ \A c \in Call : \A v \in Views[c] : v \in Seq(Node) /\ IsInjective(v)

VARIABLES
    call,       \* call -> [ph, owners, answer]
    shard,      \* call -> node -> the result of the goroutine of that shard
    conn,       \* call -> node -> the server's goroutine for the connection
    ran,        \* call -> node -> how often the node executed the query
    server,     \* node -> "up", "closing" or "down"
    stops       \* closed or crashed servers so far

vars == <<call, shard, conn, ran, server, stops>>

Remote == Node \ {Me}
RowsOf(n) == [i \in 1..Size[n] |-> [of |-> n, no |-> i]]
Result(st, n, rows) == [st |-> st, of |-> n, rows |-> rows]
Rows(n, rows) == Result("ok", n, rows)
Error(n) == Result("error", n, <<>>)
Pending == Result("pending", Me, <<>>)
Idle == [ph |-> "idle", owners |-> <<>>, answer |-> Pending]

Init ==
    /\ call = [c \in Call |-> Idle]
    /\ shard = [c \in Call |-> [n \in Node |-> Pending]]
    /\ conn = [c \in Call |-> [n \in Node |-> "none"]]
    /\ ran = [c \in Call |-> [n \in Node |-> 0]]
    /\ server = [n \in Remote |-> "up"] /\ stops = 0
-----------------------------------------------------------------------------
(* The caller.                                                               *)

\* UniqueOwners is read once; the map may be rebuilt between and during calls
\* (module Membership).  With one owner or none the query stays local.
Execute(c) ==
    /\ call[c].ph = "idle"
    /\ \E owners \in Views[c] :
          call' = [call EXCEPT ![c] = [ph |-> "wait", owners |-> IF Len(owners) <= 1 THEN <<Me>> ELSE owners, answer |-> Pending]]
    /\ UNCHANGED <<shard, conn, ran, server, stops>>

Asks(c, n) == call[c].ph = "wait" /\ n \in ToSet(call[c].owners) /\ shard[c][n] = Pending

LocalExec(c) ==
    /\ Asks(c, Me)
    /\ \E r \in {Rows(Me, RowsOf(Me)), Error(Me)} : shard' = [shard EXCEPT ![c][Me] = r]
    /\ ran' = [ran EXCEPT ![c][Me] = @ + 1]
    /\ UNCHANGED <<call, conn, server, stops>>

\* Query up to the write of the request.
Dial(c, n) ==
    /\ n \in Remote /\ Asks(c, n) /\ conn[c][n] = "none" /\ server[n] = "up"
    /\ conn' = [conn EXCEPT ![c][n] = "asked"]
    /\ UNCHANGED <<call, shard, ran, server, stops>>

\* Faulty variant: the reader stops at the limit and takes what it has.
readRPCMessageTruncated(n, rows) == Rows(n, SubSeq(rows, 1, IF Len(rows) > MaxSize THEN MaxSize ELSE Len(rows)))

\* readRPCMessage refuses what is longer than the limit.
readRPCMessage(n, rows) == IF Len(rows) > MaxSize THEN Error(n) ELSE Rows(n, rows)

\* The rest of Query: the response is read, an error response is an error, and
\* the connection is closed.
ReadResponse(c, n) ==
    /\ n \in Remote /\ Asks(c, n) /\ conn[c][n] \in {"rows", "error"}
    /\ shard' = [shard EXCEPT ![c][n] = IF conn[c][n] = "rows" THEN readRPCMessage(n, RowsOf(n)) ELSE Error(n)]
    /\ UNCHANGED <<call, conn, ran, server, stops>>

\* Faulty variant: no deadline on the connection.
FailDial(c, n) ==
    /\ n \in Remote /\ Asks(c, n) /\ conn[c][n] = "none"
    /\ shard' = [shard EXCEPT ![c][n] = Error(n)]
    /\ UNCHANGED <<call, conn, ran, server, stops>>

\* The dial fails, the connection breaks or the deadline passes.
Fail(c, n) ==
    /\ n \in Remote /\ Asks(c, n)
    /\ shard' = [shard EXCEPT ![c][n] = Error(n)]
    /\ UNCHANGED <<call, conn, ran, server, stops>>

\* The rows of the results that are valid, in their order.
Appended(results, valid) ==
    FlattenSeq([i \in DOMAIN results |-> IF i \in valid THEN results[i].rows ELSE <<>>])

\* Faulty variant: the first error is returned although other shards answered.
mergeResultsStrict(results) ==
    LET failed == {i \in DOMAIN results : results[i].st = "error"}
    IN  IF failed # {} THEN results[Min(failed)]
        ELSE [results[1] EXCEPT !.rows = Appended(results, DOMAIN results)]

\* mergeResults over the shards in the order of the owners: errors are dropped as
\* long as one shard answered.
mergeResults(results) ==
    LET valid == {i \in DOMAIN results : results[i].st = "ok"}
    IN  IF valid = {} THEN results[1]
        ELSE [results[Min(valid)] EXCEPT !.rows = Appended(results, valid)]

\* wg.Wait and the merge.
Merge(c) ==
    /\ call[c].ph = "wait" /\ \A n \in ToSet(call[c].owners) : shard[c][n] # Pending
    /\ call' = [call EXCEPT ![c] =
          [ph |-> "done", owners |-> call[c].owners,
           answer |-> mergeResults([i \in DOMAIN call[c].owners |-> shard[c][call[c].owners[i]]])]]
    /\ UNCHANGED <<shard, conn, ran, server, stops>>
-----------------------------------------------------------------------------
(* The RPC servers.                                                          *)

\* handleConn: the request is read and executed, whether or not the caller still
\* waits, and the response is written whole.
ExecuteRequest(c, n) ==
    /\ conn[c][n] = "asked" /\ server[n] # "down"
    /\ ran' = [ran EXCEPT ![c][n] = @ + 1]
    /\ \E r \in {"rows", "error"} : conn' = [conn EXCEPT ![c][n] = r]
    /\ UNCHANGED <<call, shard, server, stops>>

\* Faulty variant: Query keeps its connection.
ConnKept(c, n) == FALSE

\* The next read fails because the caller closed the connection, which it may
\* have done before the request was read.
ConnClosed(c, n) ==
    /\ conn[c][n] \in {"asked", "rows", "error"} /\ shard[c][n] # Pending
    /\ conn' = [conn EXCEPT ![c][n] = "ended"]
    /\ UNCHANGED <<call, shard, ran, server, stops>>

\* Close closes the listener and waits for the connections.
CloseServer(n) ==
    /\ server[n] = "up" /\ stops < MaxStops
    /\ server' = [server EXCEPT ![n] = "closing"] /\ stops' = stops + 1
    /\ UNCHANGED <<call, shard, conn, ran>>

Closed(n) ==
    /\ server[n] = "closing" /\ \A c \in Call : conn[c][n] \in {"none", "ended"}
    /\ server' = [server EXCEPT ![n] = "down"]
    /\ UNCHANGED <<call, shard, conn, ran, stops>>

\* The process of a node ends; what it had received is lost.
Crash(n) ==
    /\ server[n] # "down" /\ stops < MaxStops
    /\ server' = [server EXCEPT ![n] = "down"] /\ stops' = stops + 1
    /\ conn' = [c \in Call |-> [conn[c] EXCEPT ![n] = IF @ = "none" THEN @ ELSE "ended"]]
    /\ UNCHANGED <<call, shard, ran>>

Caller(c) == LocalExec(c) \/ Merge(c) \/ \E n \in Remote : Dial(c, n) \/ ReadResponse(c, n) \/ Fail(c, n)
RPCServer(n) == Closed(n) \/ \E c \in Call : ExecuteRequest(c, n) \/ ConnClosed(c, n)

Next ==
    \/ \E c \in Call : Execute(c) \/ Caller(c)
    \/ \E n \in Remote : RPCServer(n) \/ CloseServer(n) \/ Crash(n)

\* Goroutines run: some goroutine of a call makes a step until all have ended, a
\* shard's by its deadline at the latest, and so do the handlers of a server.
Fairness == (\A c \in Call : WF_vars(Caller(c))) /\ (\A n \in Remote : WF_vars(RPCServer(n)))

Spec == Init /\ [][Next]_vars /\ Fairness
-----------------------------------------------------------------------------
(* Properties.                                                               *)

Results == [st : {"pending", "ok", "error"}, of : Node, rows : Seq([of : Node, no : Nat])]

\* Types; a node is asked to execute a call's query at most once, for Execute
\* never tries again.
TypeOK ==
    /\ \A c \in Call :
          /\ call[c].ph \in {"idle", "wait", "done"}
          /\ call[c].ph = "done" => call[c].answer \in Results /\ call[c].answer # Pending
          /\ \A n \in Node : shard[c][n] \in Results /\ ran[c][n] \in 0..1
          /\ conn[c] \in [Node -> {"none", "asked", "rows", "error", "ended"}]
    /\ server \in [Remote -> {"up", "closing", "down"}] /\ stops \in 0..MaxStops

Done(c) == call[c].ph = "done"
Part(c, n) == {i \in DOMAIN call[c].answer.rows : call[c].answer.rows[i].of = n}
Position(c, n) == CHOOSE i \in DOMAIN call[c].owners : call[c].owners[i] = n

\* The rows of a merged answer are grouped by owner in the order of the owners,
\* and every owner has either all of its rows in it, once, or none and failed:
\* whatever happened to the map, the servers and other calls meanwhile.
WholePartsInOrder ==
    \A c \in Call : Done(c) =>
        LET rows == call[c].answer.rows
        IN  /\ \A i, j \in DOMAIN rows : i < j =>
                  \/ Position(c, rows[i].of) < Position(c, rows[j].of)
                  \/ rows[i].of = rows[j].of /\ rows[i].no < rows[j].no
            /\ \A n \in Node : Cardinality(Part(c, n)) = IF n \in ToSet(call[c].owners) /\ shard[c][n].st = "ok" THEN Size[n] ELSE 0

\* An error is returned only when no owner answered, and rows only come from
\* nodes that executed the query for this very call.
ErrorMeansNobody ==
    \A c \in Call : Done(c) =>
        /\ call[c].answer.st = "ok" <=> \E n \in ToSet(call[c].owners) : shard[c][n].st = "ok"
        /\ \A n \in Node : Part(c, n) # {} => ran[c][n] = 1

\* Every call ends, whatever the servers do.
CallsEnd == \A c \in Call : call[c].ph = "wait" ~> Done(c)

\* RPCServer.Close returns: no connection keeps a closing server up.
CloseReturns == \A n \in Remote : server[n] = "closing" ~> server[n] = "down"
=============================================================================
