--------------------------------- MODULE Bolt ---------------------------------
(***************************************************************************)
(* One connection of the Bolt server: the handshake and the message loop,  *)
(* with a client that pipelines requests.  The two directions of the TCP   *)
(* connection are queues of messages (module PackStream has the bytes).    *)
(* A client keeps the requests it waits for in order and takes each answer *)
(* for the answer to the oldest, as drivers do.  An answer carries, for    *)
(* the properties only, the ID of the request that the server answered.    *)
(***************************************************************************)
EXTENDS Naturals, Sequences

CONSTANTS
    Proposals,      \* the handshakes a client may begin with: [magic, versions]
    Kinds,          \* the kinds of requests the client sends
    AfterRun,       \* the kinds it sends right after a RUN
    MaxRequests,    \* bound on requests
    Window,         \* requests a client has outstanding at most
    MaxRows         \* rows of a result at most

RequestKinds == {"HELLO", "RUN", "PULL", "RESET", "OTHER", "BAD"}

ASSUME BoltAssumption ==
    /\ Kinds \subseteq RequestKinds /\ AfterRun \subseteq Kinds
    /\ MaxRequests \in Nat /\ Window \in Nat /\ MaxRows \in Nat

VARIABLES
    toServer, toClient,     \* messages under way
    srv,                    \* the server's goroutine: [pc, pull, rows]
    client,                 \* "new", "open", "left" (closed it), "gone" (noticed the end)
    asked,                  \* the kinds of the requests sent; an ID is a position in it
    waiting,                \* the requests without an answer
    answered,               \* the answer the client took last: [id, how]
    records,                \* records received since the last answer
    announced               \* request -> rows of its result, if it is a RUN

vars == <<toServer, toClient, srv, client, asked, waiting, answered, records, announced>>

BoltMagic == 1616949271
BoltVersion4_4 == 1028
Request(id, kind) == [id |-> id, kind |-> kind]
Reply(re, how) == [re |-> re, how |-> how]
AnswerKinds == {"SUCCESS", "FAILURE"}
Loop(pc) == [pc |-> pc, pull |-> 0, rows |-> 0]

Init ==
    /\ toServer = <<>> /\ toClient = <<>>
    /\ srv = Loop("handshake") /\ client = "new"
    /\ asked = <<>> /\ waiting = <<>> /\ answered = [id |-> 0, how |-> ""]
    /\ records = 0 /\ announced = [i \in 1..MaxRequests |-> 0]
-----------------------------------------------------------------------------
(* The client.                                                               *)

\* A RUN is followed by its PULL, unless the client knows that it failed.
MustPull ==
    /\ asked # <<>> /\ asked[Len(asked)] = "RUN"
    /\ answered # [id |-> Len(asked), how |-> "FAILURE"]

Send ==
    /\ client = "open" /\ Len(asked) < MaxRequests /\ Len(waiting) < Window
    /\ \E k \in IF MustPull THEN AfterRun ELSE Kinds :
          /\ toServer' = Append(toServer, Request(Len(asked) + 1, k))
          /\ waiting' = Append(waiting, Request(Len(asked) + 1, k))
          /\ asked' = Append(asked, k)
    /\ UNCHANGED <<toClient, srv, client, answered, records, announced>>

\* A RECORD is kept; every other message answers the oldest request.
Receive ==
    /\ client = "open" /\ toClient # <<>>
    /\ LET m == Head(toClient)
       IN  IF m.how \in AnswerKinds
           THEN /\ answered' = [id |-> m.re, how |-> m.how]
                /\ waiting' = Tail(waiting)
                /\ records' = 0
           ELSE records' = records + 1 /\ UNCHANGED <<answered, waiting>>
    /\ toClient' = Tail(toClient)
    /\ UNCHANGED <<toServer, srv, client, asked, announced>>

\* The client closes the connection; what it sent may still be on its way.
Leave ==
    /\ client = "open"
    /\ client' = "left" /\ waiting' = <<>> /\ toClient' = <<>>
    /\ UNCHANGED <<toServer, srv, asked, answered, records, announced>>

\* The client reads the end of the stream.
NoticeEnd ==
    /\ client = "open" /\ srv.pc = "closed" /\ toClient = <<>>
    /\ client' = "gone" /\ waiting' = <<>>
    /\ UNCHANGED <<toServer, toClient, srv, asked, answered, records, announced>>
-----------------------------------------------------------------------------
(* The server's goroutine.                                                   *)

Negotiated(p) ==
    p.magic = BoltMagic /\ \E i \in DOMAIN p.versions : p.versions[i] = BoltVersion4_4

\* A wrong magic number or no common version: handleConn closes the connection.
Handshake ==
    /\ srv.pc = "handshake"
    /\ \E p \in Proposals :
          IF Negotiated(p) THEN srv' = Loop("read") /\ client' = "open"
                           ELSE srv' = Loop("closed") /\ client' = "gone"
    /\ UNCHANGED <<toServer, toClient, asked, waiting, answered, records, announced>>

\* SendMessage fails, sooner or later, once the client has left.
Answer(msg, next) ==
    \/ srv' = next /\ toClient' = IF client = "left" THEN toClient ELSE Append(toClient, msg)
    \/ client = "left" /\ srv' = Loop("closed") /\ UNCHANGED toClient

\* sendFailure: the error of SendMessage is ignored.
sendFailure(re) ==
    /\ toClient' = IF client = "left" THEN toClient ELSE Append(toClient, Reply(re, "FAILURE"))
    /\ srv' = Loop("read")

Take(pc, kinds) == srv.pc = pc /\ toServer # <<>> /\ Head(toServer).kind \in kinds /\ toServer' = Tail(toServer)
Req == Head(toServer).id

\* HELLO (any authentication) and RESET.
HandleHello ==
    /\ Take("read", {"HELLO", "RESET"})
    /\ Answer(Reply(Req, "SUCCESS"), srv)
    /\ UNCHANGED <<client, asked, waiting, answered, records, announced>>

\* The query is executed at once, and its result kept for the next message.
RunSucceeds ==
    \E rows \in 0..MaxRows :
        /\ Answer(Reply(Req, "SUCCESS"), [Loop("pull") EXCEPT !.rows = rows])
        /\ announced' = [announced EXCEPT ![Req] = rows]

\* Faulty variant: a FAILURE does not continue the loop; a PULL is awaited all the same.
HandleRunFallThrough ==
    /\ Take("read", {"RUN"})
    /\ \/ RunSucceeds
       \/ Answer(Reply(Req, "FAILURE"), Loop("pull")) /\ UNCHANGED announced
    /\ UNCHANGED <<client, asked, waiting, answered, records>>

\* A missing or ill-typed query and an error of Execute are a FAILURE.
HandleRun ==
    /\ Take("read", {"RUN"})
    /\ \/ RunSucceeds
       \/ sendFailure(Req) /\ UNCHANGED announced
    /\ UNCHANGED <<client, asked, waiting, answered, records>>

\* The message after a RUN: PULL, or anything else, which is passed over.
HandlePull ==
    /\ Take("pull", RequestKinds \ {"BAD"})
    /\ srv' = IF Head(toServer).kind = "PULL"
              THEN [srv EXCEPT !.pc = "stream", !.pull = Req] ELSE Loop("read")
    /\ UNCHANGED <<toClient, client, asked, waiting, answered, records, announced>>

\* One row; a value that PackStreamEncode does not know ends the connection.
StreamRecord ==
    /\ srv.pc = "stream" /\ srv.rows > 0
    /\ \/ Answer(Reply(srv.pull, "RECORD"), [srv EXCEPT !.rows = @ - 1])
       \/ srv' = Loop("closed") /\ UNCHANGED toClient
    /\ UNCHANGED <<toServer, client, asked, waiting, answered, records, announced>>

\* Faulty variant: SUCCESS before the last record.
StreamEndEarly ==
    /\ srv.pc = "stream" /\ srv.rows <= 1
    /\ Answer(Reply(srv.pull, "SUCCESS"), Loop("read"))
    /\ UNCHANGED <<toServer, client, asked, waiting, answered, records, announced>>

StreamEnd ==
    /\ srv.pc = "stream" /\ srv.rows = 0
    /\ Answer(Reply(srv.pull, "SUCCESS"), Loop("read"))
    /\ UNCHANGED <<toServer, client, asked, waiting, answered, records, announced>>

\* Faulty variant: a message of unknown type is ignored.
HandleOtherSilent ==
    /\ Take("read", {"PULL", "OTHER"})
    /\ UNCHANGED <<toClient, srv, client, asked, waiting, answered, records, announced>>

\* PULL without a result (after a RUN that failed) and unknown types.
HandleOther ==
    /\ Take("read", {"PULL", "OTHER"})
    /\ sendFailure(Req)
    /\ UNCHANGED <<client, asked, waiting, answered, records, announced>>

\* Bytes that are no message, and the end of the stream: the loop returns.
ReadError ==
    /\ \/ \E pc \in {"read", "pull"} : Take(pc, {"BAD"})
       \/ srv.pc \in {"read", "pull"} /\ client = "left" /\ toServer = <<>> /\ UNCHANGED toServer
    /\ srv' = Loop("closed")
    /\ UNCHANGED <<toClient, client, asked, waiting, answered, records, announced>>

messageLoop == HandleHello \/ HandleRun \/ HandlePull \/ StreamRecord \/ StreamEnd \/ HandleOther \/ ReadError

Next == Handshake \/ Send \/ Receive \/ Leave \/ NoticeEnd \/ messageLoop

\* The goroutine of the connection runs, and the client reads what arrives.
Fairness == WF_vars(messageLoop) /\ WF_vars(Receive) /\ WF_vars(NoticeEnd)

Spec == Init /\ [][Next]_vars /\ Fairness
-----------------------------------------------------------------------------
(* Properties.                                                               *)

\* Types; the message loop streams no more rows than its result has.
TypeOK ==
    /\ toServer \in Seq([id : 1..MaxRequests, kind : Kinds])
    /\ toClient \in Seq([re : 1..MaxRequests, how : AnswerKinds \cup {"RECORD"}])
    /\ srv \in [pc : {"handshake", "read", "pull", "stream", "closed"}, pull : 0..MaxRequests, rows : 0..MaxRows]
    /\ client \in {"new", "open", "left", "gone"}
    /\ asked \in Seq(Kinds) /\ Len(asked) <= MaxRequests
    /\ waiting \in Seq([id : 1..MaxRequests, kind : Kinds]) /\ Len(waiting) <= Window
    /\ answered \in [id : 0..MaxRequests, how : AnswerKinds \cup {""}]
    /\ records \in 0..MaxRows
    /\ announced \in [1..MaxRequests -> 0..MaxRows]

\* The answers a client takes are those to its requests, one each, in order and
\* of a fitting kind, however far it pipelines: the connection that messageLoop
\* serves implements the conversation.
FittingAnswers ==
    [k \in RequestKinds |-> CASE k \in {"HELLO", "RESET"} -> {"SUCCESS"}
                              [] k \in {"RUN", "PULL"}    -> AnswerKinds
                              [] k = "OTHER"              -> {"FAILURE"}
                              [] k = "BAD"                -> {}]

Abstract == INSTANCE Conversation
    WITH Kind <- Kinds, Fitting <- FittingAnswers, waiting <- waiting, answered <- answered,
         open <- client \in {"new", "open"}

ImplementsConversation == Abstract!Spec

\* Records arrive for a PULL only, and when the PULL is answered with SUCCESS all
\* the rows of the result that its own RUN announced have arrived.
RecordsComplete ==
    client = "open" /\ toClient # <<>> =>
        LET m == Head(toClient)
        IN  /\ m.how = "RECORD" => Head(waiting) = Request(m.re, "PULL")
            /\ m.how = "SUCCESS" /\ Head(waiting).kind = "PULL" => records = announced[m.re - 1]

\* A request that was sent is answered, or the connection ends.
EveryRequestAnswered == \A i \in 1..MaxRequests :
    (\E j \in DOMAIN waiting : waiting[j].id = i) ~> ~(\E j \in DOMAIN waiting : waiting[j].id = i)
=============================================================================
