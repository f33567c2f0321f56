------------------------------ MODULE BoltProofs ------------------------------
(* Proofs about Bolt, for any handshakes, number of requests, window and rows. *)
EXTENDS Bolt, SequenceTheorems, TLAPS

\* The number of requests that the server has read.
Taken == Len(asked) - Len(toServer)

\* The requests under way are the last ones that were sent.
Queued ==
    /\ Len(toServer) <= Len(asked)
    /\ \A j \in 1..Len(toServer) : toServer[j] = Request(Taken + j, asked[Taken + j])

\* The client waits for the answers to all requests after the last one answered.
Awaited ==
    /\ answered.id <= Taken
    /\ Len(waiting) = Len(asked) - answered.id
    /\ \A j \in 1..Len(waiting) : waiting[j] = Request(answered.id + j, asked[answered.id + j])

\* A RUN that the server has not read, or has just executed, is followed by a PULL.
Followed ==
    /\ \A i \in 1..Len(asked) : Taken < i /\ i < Len(asked) /\ asked[i] = "RUN" => asked[i + 1] = "PULL"
    /\ srv.pc = "pull" =>
          /\ Taken > 0 /\ asked[Taken] = "RUN"
          /\ Taken < Len(asked) => asked[Taken + 1] = "PULL"
          /\ announced[Taken] = srv.rows
          /\ answered # [id |-> Taken, how |-> "FAILURE"]
          /\ \A j \in 1..Len(toClient) : toClient[j].re = Taken => toClient[j].how = "SUCCESS"
    /\ srv.pc = "stream" =>
          /\ srv.pull = Taken /\ Taken > 1 /\ asked[Taken] = "PULL"
          /\ srv.rows <= announced[Taken - 1]

\* The replies tc that are under way to a client that took the answer to request q
\* last and r records since: before and after reply j, the next request to be
\* answered is nx[j - 1] and nx[j], and ct[j - 1] and ct[j] records belong to it.
Fits(tc, ask, ann, p, nx, ct, j) ==
    LET m == tc[j]
    IN  /\ m.re = nx[j - 1] /\ m.re \in 1..p
        /\ m.how \in AnswerKinds =>
              /\ nx[j] = m.re + 1 /\ ct[j] = 0
              /\ m.how \in FittingAnswers[ask[m.re]]
              /\ m.how = "SUCCESS" /\ ask[m.re] = "PULL" => m.re > 1 /\ ct[j - 1] = ann[m.re - 1]
        /\ m.how \notin AnswerKinds =>
              /\ nx[j] = m.re /\ ct[j] = ct[j - 1] + 1
              /\ ask[m.re] = "PULL"

Flow(tc, q, r, ask, ann, p, nx, ct) ==
    /\ nx \in [0..Len(tc) -> Nat] /\ ct \in [0..Len(tc) -> 0..MaxRows]
    /\ nx[0] = q + 1 /\ ct[0] = r
    /\ \A j \in 1..Len(tc) : Fits(tc, ask, ann, p, nx, ct, j)

\* After all of them, request d is the next to be answered, and has c records.
Flows(tc, q, r, ask, ann, p, d, c) ==
    \E nx, ct : Flow(tc, q, r, ask, ann, p, nx, ct) /\ nx[Len(tc)] = d /\ ct[Len(tc)] = c

\* What the server has to answer next, and the records it has sent for it.
Due == IF srv.pc = "stream" THEN Taken ELSE Taken + 1
Sent == IF srv.pc = "stream" THEN announced[Taken - 1] - srv.rows ELSE 0

Flowing ==
    \E d, c : /\ Flows(toClient, answered.id, records, asked, announced, Taken, d, c)
              /\ srv.pc # "closed" => d = Due /\ c = Sent

\* A connection that the client has open.
Open == srv.pc # "handshake" /\ Queued /\ Awaited /\ Followed /\ Flowing

\* A connection that is still to be negotiated.
New ==
    /\ srv.pc = "handshake" /\ toServer = <<>> /\ toClient = <<>> /\ asked = <<>>
    /\ waiting = <<>> /\ answered.id = 0 /\ records = 0

\* The inductive invariant.
IInv ==
    /\ TypeOK
    /\ srv.pc = "handshake" => client = "new"
    /\ srv.pc = "stream" => srv.pull > 0
    /\ client = "gone" => srv.pc = "closed"
    /\ client = "new" => New
    /\ client = "open" => Open

-----------------------------------------------------------------------------
(* The replies under way.                                                     *)

ReqRec == [id : 1..MaxRequests, kind : Kinds]
RepRec == [re : 1..MaxRequests, how : AnswerKinds \cup {"RECORD"}]

\* A reply that is sent.
LEMMA FlowsAppend ==
    ASSUME NEW tc \in Seq(RepRec), NEW q \in Nat, NEW r, NEW ask, NEW ann, NEW p \in Nat,
           NEW d, NEW c, Flows(tc, q, r, ask, ann, p, d, c),
           NEW m \in RepRec, m.re = d, m.re <= p,
           NEW e \in Nat, NEW b \in 0..MaxRows,
           m.how \in AnswerKinds =>
              /\ e = d + 1 /\ b = 0
              /\ m.how \in FittingAnswers[ask[m.re]]
              /\ m.how = "SUCCESS" /\ ask[m.re] = "PULL" => m.re > 1 /\ c = ann[m.re - 1],
           m.how \notin AnswerKinds => e = d /\ b = c + 1 /\ ask[m.re] = "PULL"
    PROVE  Flows(Append(tc, m), q, r, ask, ann, p, e, b)
  <1>1. PICK nx, ct : Flow(tc, q, r, ask, ann, p, nx, ct) /\ nx[Len(tc)] = d /\ ct[Len(tc)] = c
    BY DEF Flows
  <1> DEFINE l == Len(tc)
             u == Append(tc, m)
             nx2 == [j \in 0..(l + 1) |-> IF j = l + 1 THEN e ELSE nx[j]]
             ct2 == [j \in 0..(l + 1) |-> IF j = l + 1 THEN b ELSE ct[j]]
  <1>2. l \in Nat /\ Len(u) = l + 1 /\ u[l + 1] = m /\ \A j \in 1..l : u[j] = tc[j]
    OBVIOUS
  <1>3. nx \in [0..l -> Nat] /\ ct \in [0..l -> 0..MaxRows] /\ nx[0] = q + 1 /\ ct[0] = r
    BY <1>1 DEF Flow
  <1>4. nx2 \in [0..(l + 1) -> Nat] /\ ct2 \in [0..(l + 1) -> 0..MaxRows]
    BY <1>2, <1>3
  <1>5. /\ \A j \in 0..l : nx2[j] = nx[j] /\ ct2[j] = ct[j]
        /\ nx2[l + 1] = e /\ ct2[l + 1] = b
    BY <1>2
  <1> HIDE DEF nx2, ct2, l, u
  <1>6. nx2[0] = q + 1 /\ ct2[0] = r
    BY <1>2, <1>3, <1>5
  <1>7. ASSUME NEW j \in 1..(l + 1) PROVE Fits(u, ask, ann, p, nx2, ct2, j)
    <2>1. CASE j = l + 1
      <3>1. u[j] = m /\ nx2[j - 1] = d /\ ct2[j - 1] = c /\ nx2[j] = e /\ ct2[j] = b
        BY <1>1, <1>2, <1>5, <2>1 DEF l
      <3>2. m.re \in 1..p BY DEF RepRec
      <3> QED BY <3>1, <3>2 DEF Fits
    <2>2. CASE j \in 1..l
      <3>1. Fits(tc, ask, ann, p, nx, ct, j) BY <1>1, <2>2 DEF Flow, l
      <3>2. u[j] = tc[j] /\ nx2[j - 1] = nx[j - 1] /\ ct2[j - 1] = ct[j - 1] /\ nx2[j] = nx[j] /\ ct2[j] = ct[j]
        BY <1>2, <1>5, <2>2
      <3> QED BY <3>1, <3>2 DEF Fits
    <2> QED BY <1>2, <2>1, <2>2
  <1>8. Flow(u, q, r, ask, ann, p, nx2, ct2)
    BY <1>2, <1>4, <1>6, <1>7 DEF Flow
  <1>9. nx2[Len(u)] = e /\ ct2[Len(u)] = b
    BY <1>2, <1>5
  <1> QED BY <1>8, <1>9 DEF Flows, u

\* A reply that is received.
LEMMA FlowsTail ==
    ASSUME NEW tc \in Seq(RepRec), tc # <<>>, NEW q \in Nat, NEW r, NEW ask, NEW ann, NEW p \in Nat,
           NEW d, NEW c, Flows(tc, q, r, ask, ann, p, d, c)
    PROVE  LET m == Head(tc)
           IN  /\ m.re = q + 1 /\ m.re <= p
               /\ m.how \in AnswerKinds =>
                     /\ m.how \in FittingAnswers[ask[m.re]]
                     /\ m.how = "SUCCESS" /\ ask[m.re] = "PULL" => m.re > 1 /\ r = ann[m.re - 1]
                     /\ Flows(Tail(tc), m.re, 0, ask, ann, p, d, c)
               /\ m.how \notin AnswerKinds =>
                     /\ ask[m.re] = "PULL"
                     /\ r + 1 \in 0..MaxRows
                     /\ Flows(Tail(tc), q, r + 1, ask, ann, p, d, c)
  <1>1. PICK nx, ct : Flow(tc, q, r, ask, ann, p, nx, ct) /\ nx[Len(tc)] = d /\ ct[Len(tc)] = c
    BY DEF Flows
  <1> DEFINE l == Len(tc) - 1
             u == Tail(tc)
             m == Head(tc)
             nx2 == [j \in 0..l |-> nx[j + 1]]
             ct2 == [j \in 0..l |-> ct[j + 1]]
  <1>2. l \in Nat /\ Len(tc) = l + 1 /\ Len(u) = l /\ m = tc[1] /\ \A j \in 1..l : u[j] = tc[j + 1]
    BY HeadTailProperties
  <1>3. nx \in [0..(l + 1) -> Nat] /\ ct \in [0..(l + 1) -> 0..MaxRows] /\ nx[0] = q + 1 /\ ct[0] = r
    BY <1>1, <1>2 DEF Flow
  <1>4. nx2 \in [0..l -> Nat] /\ ct2 \in [0..l -> 0..MaxRows]
    BY <1>2, <1>3
  <1>5. \A j \in 0..l : nx2[j] = nx[j + 1] /\ ct2[j] = ct[j + 1]
    BY <1>2
  <1> HIDE DEF nx2, ct2, l, u, m
  <1>6. Fits(tc, ask, ann, p, nx, ct, 1)
    BY <1>1, <1>2 DEF Flow
  <1>7. /\ m.re = q + 1 /\ m.re \in 1..p
        /\ m.how \in AnswerKinds =>
              /\ nx[1] = m.re + 1 /\ ct[1] = 0
              /\ m.how \in FittingAnswers[ask[m.re]]
              /\ m.how = "SUCCESS" /\ ask[m.re] = "PULL" => m.re > 1 /\ r = ann[m.re - 1]
        /\ m.how \notin AnswerKinds => nx[1] = m.re /\ ct[1] = r + 1 /\ ask[m.re] = "PULL"
    BY <1>2, <1>3, <1>6 DEF Fits
  <1>8. ASSUME NEW j \in 1..l PROVE Fits(u, ask, ann, p, nx2, ct2, j)
    <2>1. Fits(tc, ask, ann, p, nx, ct, j + 1) BY <1>1, <1>2 DEF Flow
    <2>2. u[j] = tc[j + 1] /\ nx2[j - 1] = nx[j] /\ ct2[j - 1] = ct[j] /\ nx2[j] = nx[j + 1] /\ ct2[j] = ct[j + 1]
      BY <1>2, <1>5
    <2>3. (j + 1) - 1 = j OBVIOUS
    <2> QED BY <2>1, <2>2, <2>3 DEF Fits
  <1>9. nx2[Len(u)] = d /\ ct2[Len(u)] = c
    BY <1>1, <1>2, <1>5
  <1>10. nx2[0] = nx[1] /\ ct2[0] = ct[1] BY <1>2, <1>5
  <1>11. CASE m.how \in AnswerKinds
    <2>1. Flow(u, m.re, 0, ask, ann, p, nx2, ct2)
      BY <1>2, <1>4, <1>7, <1>8, <1>10, <1>11 DEF Flow
    <2> QED BY <1>7, <1>9, <1>11, <2>1 DEF Flows, u, m
  <1>12. CASE m.how \notin AnswerKinds
    <2>1. ct[1] \in 0..MaxRows BY <1>2, <1>3
    <2>2. nx[1] = q + 1 BY <1>7, <1>12
    <2>3. Flow(u, q, r + 1, ask, ann, p, nx2, ct2)
      BY <1>2, <1>4, <1>7, <1>8, <1>10, <1>12, <2>2 DEF Flow
    <2> QED BY <1>7, <1>9, <1>12, <2>1, <2>3 DEF Flows, u, m
  <1> QED BY <1>11, <1>12

\* More requests, sent or read, and the rows of a result that was not there before.
LEMMA FlowsMore ==
    ASSUME NEW tc, NEW q, NEW r, NEW ask, NEW ann, NEW p \in Nat, NEW d, NEW c,
           Flows(tc, q, r, ask, ann, p, d, c),
           NEW ask2, NEW ann2, NEW p2 \in Nat, p <= p2,
           \A i \in 1..p : ask2[i] = ask[i] /\ ann2[i] = ann[i]
    PROVE  Flows(tc, q, r, ask2, ann2, p2, d, c)
  <1>1. PICK nx, ct : Flow(tc, q, r, ask, ann, p, nx, ct) /\ nx[Len(tc)] = d /\ ct[Len(tc)] = c
    BY DEF Flows
  <1>2. ASSUME NEW j \in 1..Len(tc) PROVE Fits(tc, ask2, ann2, p2, nx, ct, j)
    <2>1. Fits(tc, ask, ann, p, nx, ct, j) BY <1>1 DEF Flow
    <2> DEFINE m == tc[j]
    <2>2. m.re \in 1..p /\ m.re \in 1..p2 BY <2>1 DEF Fits
    <2>3. ask2[m.re] = ask[m.re] BY <2>2
    <2>4. m.re > 1 => ann2[m.re - 1] = ann[m.re - 1] BY <2>2
    <2> QED BY <2>1, <2>2, <2>3, <2>4 DEF Fits
  <1>3. Flow(tc, q, r, ask2, ann2, p2, nx, ct) BY <1>1, <1>2 DEF Flow
  <1> QED BY <1>1, <1>3 DEF Flows

-----------------------------------------------------------------------------
(* Types.                                                                     *)

SrvRec == [pc : {"handshake", "read", "pull", "stream", "closed"}, pull : 0..MaxRequests, rows : 0..MaxRows]
AnsRec == [id : 0..MaxRequests, how : AnswerKinds \cup {""}]

\* TypeOK, by the names of the records.
LEMMA TypeParts ==
    TypeOK <=> /\ toServer \in Seq(ReqRec) /\ toClient \in Seq(RepRec)
               /\ srv \in SrvRec /\ client \in {"new", "open", "left", "gone"}
               /\ asked \in Seq(Kinds) /\ Len(asked) <= MaxRequests
               /\ waiting \in Seq(ReqRec) /\ Len(waiting) <= Window
               /\ answered \in AnsRec /\ records \in 0..MaxRows
               /\ announced \in [1..MaxRequests -> 0..MaxRows]
  BY DEF TypeOK, ReqRec, RepRec, SrvRec, AnsRec

\* The server is in its loop with no result.
LEMMA LoopType ==
    ASSUME NEW pc \in {"handshake", "read", "pull", "stream", "closed"}
    PROVE  Loop(pc) \in SrvRec /\ Loop(pc).pc = pc
  BY BoltAssumption DEF Loop, SrvRec

\* A request that is read.
LEMMA TakeType ==
    ASSUME TypeOK, NEW pc, NEW kinds, Take(pc, kinds)
    PROVE  toServer' \in Seq(ReqRec) /\ Req \in 1..MaxRequests
  <1>1. toServer \in Seq(ReqRec) /\ toServer # <<>> BY TypeParts DEF Take
  <1>2. Head(toServer) \in ReqRec /\ Tail(toServer) \in Seq(ReqRec) BY <1>1, HeadTailProperties
  <1> QED BY <1>2 DEF Take, Req, ReqRec

\* An answer that is sent.
LEMMA AnswerType ==
    ASSUME TypeOK, NEW m \in RepRec, NEW next \in SrvRec, Answer(m, next)
    PROVE  toClient' \in Seq(RepRec) /\ srv' \in SrvRec
  <1>1. toClient \in Seq(RepRec) BY TypeParts
  <1>2. Append(toClient, m) \in Seq(RepRec) BY <1>1
  <1>3. Loop("closed") \in SrvRec BY LoopType
  <1> QED BY <1>1, <1>2, <1>3 DEF Answer

\* A FAILURE sent, or not, leaves queue and loop well typed.
LEMMA FailureType ==
    ASSUME TypeOK, NEW re \in 1..MaxRequests, sendFailure(re)
    PROVE  toClient' \in Seq(RepRec) /\ srv' \in SrvRec
  <1>1. toClient \in Seq(RepRec) BY TypeParts
  <1>2. Reply(re, "FAILURE") \in RepRec BY DEF Reply, RepRec, AnswerKinds
  <1>3. Append(toClient, Reply(re, "FAILURE")) \in Seq(RepRec) BY <1>1, <1>2
  <1>4. Loop("read") \in SrvRec BY LoopType
  <1> QED BY <1>1, <1>3, <1>4 DEF sendFailure

\* Every step of client and server keeps the types.
LEMMA TypeStep ==
    ASSUME IInv, [Next]_vars
    PROVE  TypeOK'
  <1>0. TypeOK BY DEF IInv
  <1>a. /\ toServer \in Seq(ReqRec) /\ toClient \in Seq(RepRec)
        /\ srv \in SrvRec /\ client \in {"new", "open", "left", "gone"}
        /\ asked \in Seq(Kinds) /\ Len(asked) <= MaxRequests
        /\ waiting \in Seq(ReqRec) /\ Len(waiting) <= Window
        /\ answered \in AnsRec /\ records \in 0..MaxRows
        /\ announced \in [1..MaxRequests -> 0..MaxRows]
    BY <1>0, TypeParts
  <1>b. TypeOK' <=> /\ toServer' \in Seq(ReqRec) /\ toClient' \in Seq(RepRec)
                    /\ srv' \in SrvRec /\ client' \in {"new", "open", "left", "gone"}
                    /\ asked' \in Seq(Kinds) /\ Len(asked') <= MaxRequests
                    /\ waiting' \in Seq(ReqRec) /\ Len(waiting') <= Window
                    /\ answered' \in AnsRec /\ records' \in 0..MaxRows
                    /\ announced' \in [1..MaxRequests -> 0..MaxRows]
    BY DEF TypeOK, ReqRec, RepRec, SrvRec, AnsRec
  <1>c. <<>> \in Seq(ReqRec) /\ <<>> \in Seq(RepRec) /\ Len(<<>>) = 0 /\ Window \in Nat /\ MaxRows \in Nat /\ MaxRequests \in Nat
    BY BoltAssumption
  <1>1. CASE Handshake
    BY <1>1, <1>a, <1>b, LoopType DEF Handshake
  <1>2. CASE Send
    <2>1. PICK k \in Kinds :
          /\ toServer' = Append(toServer, Request(Len(asked) + 1, k))
          /\ waiting' = Append(waiting, Request(Len(asked) + 1, k))
          /\ asked' = Append(asked, k)
      BY <1>2, BoltAssumption DEF Send
    <2>2. Request(Len(asked) + 1, k) \in ReqRec
      BY <1>2, <1>a, <1>c DEF Send, Request, ReqRec
    <2>3. /\ toServer' \in Seq(ReqRec) /\ waiting' \in Seq(ReqRec) /\ asked' \in Seq(Kinds)
          /\ Len(waiting') <= Window /\ Len(asked') <= MaxRequests
      BY <1>2, <1>a, <1>c, <2>1, <2>2 DEF Send
    <2> QED BY <1>2, <1>a, <1>b, <2>3 DEF Send
  <1>3. CASE Receive
    <2> DEFINE m == Head(toClient)
    <2>1. m \in RepRec /\ Tail(toClient) \in Seq(RepRec)
      BY <1>3, <1>a, HeadTailProperties DEF Receive
    <2>2. PICK d, c : Flows(toClient, answered.id, records, asked, announced, Taken, d, c)
      BY <1>3 DEF Receive, IInv, Open, Flowing
    <2>3. Queued /\ Awaited BY <1>3 DEF Receive, IInv, Open
    <2>4. Taken \in Nat /\ answered.id \in Nat
      <3>1. Len(asked) \in Nat /\ Len(toServer) \in Nat /\ Len(toServer) <= Len(asked)
        BY <1>a, <2>3 DEF Queued
      <3>2. answered.id \in 0..MaxRequests BY <1>a DEF AnsRec
      <3> QED BY <1>c, <3>1, <3>2 DEF Taken
    <2>5. m.re = answered.id + 1 /\ m.re <= Taken /\ (m.how \notin AnswerKinds => records + 1 \in 0..MaxRows)
      BY <1>3, <1>a, <2>2, <2>4, FlowsTail DEF Receive
    <2>6. CASE m.how \in AnswerKinds
      <3>1. waiting # <<>> BY <1>a, <2>3, <2>4, <2>5 DEF Awaited, Taken, Queued
      <3>2. Tail(waiting) \in Seq(ReqRec) /\ Len(Tail(waiting)) <= Window
        BY <1>a, <1>c, <3>1, HeadTailProperties
      <3>3. [id |-> m.re, how |-> m.how] \in AnsRec 
        <4> HIDE DEF m
        <4>1. m.re \in 0..MaxRequests BY <1>c, <2>1 DEF RepRec
        <4>2. m.how \in AnswerKinds \cup {""} BY <2>6
        <4> QED BY <4>1, <4>2 DEF AnsRec
      <3>4. answered' = [id |-> m.re, how |-> m.how] /\ waiting' = Tail(waiting) /\ records' = 0
        BY <1>3, <2>6 DEF Receive
      <3>5. toClient' = Tail(toClient) /\ UNCHANGED <<toServer, srv, client, asked, announced>>
        BY <1>3 DEF Receive
      <3>6. 0 \in 0..MaxRows BY <1>c
      <3> HIDE DEF m
      <3> QED BY <1>a, <1>b, <2>1, <3>2, <3>3, <3>4, <3>5, <3>6
    <2>7. CASE m.how \notin AnswerKinds
      BY <1>3, <1>a, <1>b, <2>1, <2>5, <2>7 DEF Receive
    <2> QED BY <2>6, <2>7
  <1>4. CASE Leave
    BY <1>4, <1>a, <1>b, <1>c DEF Leave
  <1>5. CASE NoticeEnd
    BY <1>5, <1>a, <1>b, <1>c DEF NoticeEnd
  <1>6. CASE HandleHello
    <2>1. Req \in 1..MaxRequests /\ toServer' \in Seq(ReqRec) BY <1>0, <1>6, TakeType DEF HandleHello
    <2>2. Reply(Req, "SUCCESS") \in RepRec BY <2>1 DEF Reply, RepRec, AnswerKinds
    <2>3. toClient' \in Seq(RepRec) /\ srv' \in SrvRec BY <1>0, <1>6, <1>a, <2>2, AnswerType DEF HandleHello
    <2> QED BY <1>6, <1>a, <1>b, <2>1, <2>3 DEF HandleHello
  <1>7. CASE HandleRun
    <2>1. Req \in 1..MaxRequests /\ toServer' \in Seq(ReqRec) BY <1>0, <1>7, TakeType DEF HandleRun
    <2>2. CASE RunSucceeds
      <3>1. PICK rows \in 0..MaxRows :
              /\ Answer(Reply(Req, "SUCCESS"), [Loop("pull") EXCEPT !.rows = rows])
              /\ announced' = [announced EXCEPT ![Req] = rows]
        BY <2>2 DEF RunSucceeds
      <3>2. Reply(Req, "SUCCESS") \in RepRec BY <2>1 DEF Reply, RepRec, AnswerKinds
      <3>3. [Loop("pull") EXCEPT !.rows = rows] \in SrvRec BY <1>c DEF Loop, SrvRec
      <3>4. toClient' \in Seq(RepRec) /\ srv' \in SrvRec BY <1>0, <3>1, <3>2, <3>3, AnswerType
      <3>5. announced' \in [1..MaxRequests -> 0..MaxRows] BY <1>a, <3>1
      <3> QED BY <1>7, <1>a, <1>b, <2>1, <3>4, <3>5 DEF HandleRun
    <2>3. CASE sendFailure(Req) /\ UNCHANGED announced
      BY <1>0, <1>7, <1>a, <1>b, <2>1, <2>3, FailureType DEF HandleRun
    <2> QED BY <1>7, <2>2, <2>3 DEF HandleRun
  <1>8. CASE HandlePull
    <2>1. Req \in 1..MaxRequests /\ toServer' \in Seq(ReqRec) BY <1>0, <1>8, TakeType DEF HandlePull
    <2>2. [srv EXCEPT !.pc = "stream", !.pull = Req] \in SrvRec
      <3>1. Req \in 0..MaxRequests BY <1>c, <2>1
      <3> HIDE DEF Req
      <3> QED BY <1>a, <3>1 DEF SrvRec
    <2>3. srv' \in SrvRec BY <1>8, <2>2, LoopType DEF HandlePull
    <2> QED BY <1>8, <1>a, <1>b, <2>1, <2>3 DEF HandlePull
  <1>9. CASE StreamRecord
    <2>1. CASE Answer(Reply(srv.pull, "RECORD"), [srv EXCEPT !.rows = @ - 1])
      <3>1. srv.rows \in 0..MaxRows /\ srv.rows > 0 /\ srv.pull \in 0..MaxRequests /\ srv.pull > 0
        BY <1>9, <1>a DEF SrvRec, StreamRecord, IInv
      <3>2. srv.rows - 1 \in 0..MaxRows /\ srv.pull \in 1..MaxRequests BY <1>c, <3>1
      <3>3. [srv EXCEPT !.rows = @ - 1] \in SrvRec BY <1>a, <3>2 DEF SrvRec
      <3>4. Reply(srv.pull, "RECORD") \in RepRec BY <3>2 DEF Reply, RepRec
      <3>5. toClient' \in Seq(RepRec) /\ srv' \in SrvRec BY <1>0, <2>1, <3>3, <3>4, AnswerType
      <3> QED BY <1>9, <1>a, <1>b, <3>5 DEF StreamRecord
    <2>2. CASE srv' = Loop("closed") /\ UNCHANGED toClient
      BY <1>9, <1>a, <1>b, <2>2, LoopType DEF StreamRecord
    <2> QED BY <1>9, <2>1, <2>2 DEF StreamRecord
  <1>10. CASE StreamEnd
    <2>1. srv.pull \in 0..MaxRequests /\ srv.pull > 0 BY <1>10, <1>a DEF SrvRec, StreamEnd, IInv
    <2>2. srv.pull \in 1..MaxRequests BY <1>c, <2>1
    <2>3. Reply(srv.pull, "SUCCESS") \in RepRec BY <2>2 DEF Reply, RepRec, AnswerKinds
    <2>4. toClient' \in Seq(RepRec) /\ srv' \in SrvRec BY <1>0, <1>10, <2>3, LoopType, AnswerType DEF StreamEnd
    <2> QED BY <1>10, <1>a, <1>b, <2>4 DEF StreamEnd
  <1>11. CASE HandleOther
    <2>1. Req \in 1..MaxRequests /\ toServer' \in Seq(ReqRec) BY <1>0, <1>11, TakeType DEF HandleOther
    <2> QED BY <1>0, <1>11, <1>a, <1>b, <2>1, FailureType DEF HandleOther
  <1>12. CASE ReadError
    <2>1. toServer' \in Seq(ReqRec) BY <1>0, <1>12, <1>a, TakeType DEF ReadError
    <2>2. srv' \in SrvRec BY <1>12, LoopType DEF ReadError
    <2> QED BY <1>12, <1>a, <1>b, <2>1, <2>2 DEF ReadError
  <1>13. CASE UNCHANGED vars
    BY <1>13, <1>a, <1>b DEF vars
  <1> QED BY <1>1, <1>2, <1>3, <1>4, <1>5, <1>6, <1>7, <1>8, <1>9, <1>10, <1>11, <1>12, <1>13
          DEF Next, messageLoop

-----------------------------------------------------------------------------
(* An open connection stays in order.                                         *)

\* The numbers that the parts of Open speak of.
LEMMA Numbers ==
    ASSUME TypeOK, Queued
    PROVE  /\ Len(asked) \in Nat /\ Len(toServer) \in Nat /\ Len(toClient) \in Nat /\ Len(waiting) \in Nat
           /\ Len(asked) <= MaxRequests /\ MaxRequests \in Nat /\ MaxRows \in Nat
           /\ Taken \in Nat /\ Taken <= Len(asked) /\ answered.id \in Nat /\ srv.rows \in 0..MaxRows
  <1>1. Len(asked) \in Nat /\ Len(toServer) \in Nat /\ Len(toClient) \in Nat /\ Len(waiting) \in Nat
    BY TypeParts
  <1>2. Len(asked) <= MaxRequests /\ MaxRequests \in Nat /\ MaxRows \in Nat /\ Len(toServer) <= Len(asked)
    BY TypeParts, BoltAssumption DEF Queued
  <1>3. Taken \in Nat /\ Taken <= Len(asked) BY <1>1, <1>2 DEF Taken
  <1>4. answered.id \in 0..MaxRequests /\ srv.rows \in 0..MaxRows BY TypeParts DEF AnsRec, SrvRec
  <1> QED BY <1>1, <1>2, <1>3, <1>4

\* The request that the server reads is the next one of those sent.
LEMMA TakeNext ==
    ASSUME TypeOK, Queued, NEW pc, NEW kinds, Take(pc, kinds), UNCHANGED asked
    PROVE  /\ Taken' = Taken + 1 /\ Req = Taken + 1 /\ Taken + 1 <= Len(asked)
           /\ Head(toServer).kind = asked[Taken + 1] /\ asked[Taken + 1] \in kinds
           /\ Queued'
  <1>1. toServer \in Seq(ReqRec) /\ toServer # <<>> /\ toServer' = Tail(toServer)
    BY TypeParts DEF Take
  <1>2. Len(toServer) > 0 /\ Len(toServer) \in Nat BY <1>1
  <1>3. /\ Len(toServer') = Len(toServer) - 1 /\ Head(toServer) = toServer[1]
        /\ \A j \in 1..Len(toServer') : toServer'[j] = toServer[j + 1]
    BY <1>1, <1>2, HeadTailProperties
  <1>4. Taken \in Nat /\ Len(asked) \in Nat BY Numbers
  <1>5. Taken' = Taken + 1 /\ Taken + 1 <= Len(asked)
    BY <1>2, <1>3, <1>4 DEF Taken
  <1>6. toServer[1] = Request(Taken + 1, asked[Taken + 1]) BY <1>2 DEF Queued
  <1>7. Req = Taken + 1 /\ Head(toServer).kind = asked[Taken + 1] BY <1>3, <1>6 DEF Req, Request
  <1>8. Queued'
    <2>1. Len(toServer') <= Len(asked') BY <1>2, <1>3, <1>4 DEF Queued
    <2>2. ASSUME NEW j \in 1..Len(toServer') PROVE toServer'[j] = Request(Taken' + j, asked'[Taken' + j])
      <3>1. j + 1 \in 1..Len(toServer) /\ Taken' + j = Taken + (j + 1)
        <4>1. j \in 1..(Len(toServer) - 1) BY <1>3
        <4>2. j + 1 \in 1..Len(toServer) BY <1>2, <4>1
        <4> HIDE DEF Taken
        <4>3. Taken' + j = (Taken + 1) + j BY <1>5
        <4>4. (Taken + 1) + j = Taken + (j + 1) BY <1>4, <1>2, <4>1
        <4> QED BY <4>2, <4>3, <4>4
      <3>2. toServer[j + 1] = Request(Taken + (j + 1), asked[Taken + (j + 1)]) BY <3>1 DEF Queued
      <3> QED BY <1>3, <3>1, <3>2
    <2> QED BY <2>1, <2>2 DEF Queued
  <1> QED BY <1>5, <1>7, <1>8 DEF Take

\* What is under way answers requests that were read.
LEMMA FlowRange ==
    ASSUME NEW tc, NEW q, NEW r, NEW ask, NEW ann, NEW p, NEW d, NEW c, Flows(tc, q, r, ask, ann, p, d, c)
    PROVE  \A j \in 1..Len(tc) : tc[j].re \in 1..p
  BY DEF Flows, Flow, Fits

\* To a client that is there, an answer is sent.
LEMMA AnswerOpen ==
    ASSUME client = "open", NEW m, NEW next, Answer(m, next)
    PROVE  srv' = next /\ toClient' = Append(toClient, m)
  BY DEF Answer

\* The client still waits for what it waited for.
LEMMA AwaitedStays ==
    ASSUME Awaited, UNCHANGED <<answered, waiting, asked>>, Taken' >= Taken, Taken \in Nat, Taken' \in Nat, answered.id \in Nat
    PROVE  Awaited'
  <1>1. answered.id <= Taken' BY DEF Awaited
  <1> QED BY <1>1 DEF Awaited

\* A request is sent: a PULL, when a RUN was before it that may still succeed.
LEMMA SendOpen ==
    ASSUME TypeOK, Open, Send, AfterRun \subseteq {"PULL"}
    PROVE  Open'
  <1>1. Queued /\ Awaited /\ Followed /\ Flowing BY DEF Open
  <1>2. /\ Len(asked) \in Nat /\ Len(toServer) \in Nat /\ Len(waiting) \in Nat
        /\ Taken \in Nat /\ Taken <= Len(asked) /\ answered.id \in Nat
    BY <1>1, Numbers
  <1>3. asked \in Seq(Kinds) /\ toServer \in Seq(ReqRec) /\ waiting \in Seq(ReqRec) BY TypeParts
  <1> DEFINE l == Len(asked)
  <1>4. PICK k \in Kinds :
          /\ MustPull => k = "PULL"
          /\ toServer' = Append(toServer, Request(l + 1, k))
          /\ waiting' = Append(waiting, Request(l + 1, k))
          /\ asked' = Append(asked, k)
    BY BoltAssumption DEF Send
  <1>5. UNCHANGED <<toClient, srv, client, answered, records, announced>> BY DEF Send
  <1>6. /\ Len(asked') = l + 1 /\ asked'[l + 1] = k /\ \A i \in 1..l : asked'[i] = asked[i]
        /\ Len(toServer') = Len(toServer) + 1 /\ toServer'[Len(toServer) + 1] = Request(l + 1, k)
        /\ \A i \in 1..Len(toServer) : toServer'[i] = toServer[i]
        /\ Len(waiting') = Len(waiting) + 1 /\ waiting'[Len(waiting) + 1] = Request(l + 1, k)
        /\ \A i \in 1..Len(waiting) : waiting'[i] = waiting[i]
    BY <1>3, <1>4
  <1>7. Taken' = Taken BY <1>2, <1>6 DEF Taken
  <1>8. Queued'
    <2>1. Len(toServer') <= Len(asked') BY <1>1, <1>2, <1>6 DEF Queued
    <2>2. ASSUME NEW j \in 1..Len(toServer') PROVE toServer'[j] = Request(Taken' + j, asked'[Taken' + j])
      <3>1. CASE j = Len(toServer) + 1
        <4>1. Taken + j = l + 1 BY <1>2, <3>1 DEF Taken
        <4> QED BY <1>6, <1>7, <3>1, <4>1
      <3>2. CASE j \in 1..Len(toServer)
        <4>1. Taken + j \in 1..l BY <1>2, <3>2 DEF Taken
        <4> QED BY <1>1, <1>6, <1>7, <3>2, <4>1 DEF Queued
      <3>3. j \in 1..(Len(toServer) + 1) BY <1>6
      <3> QED BY <1>2, <3>1, <3>2, <3>3
    <2> QED BY <2>1, <2>2 DEF Queued
  <1>9. Awaited'
    <2> DEFINE a == answered.id
    <2>1. a <= Taken /\ Len(waiting) = l - a BY <1>1 DEF Awaited
    <2>2. a' <= Taken' /\ Len(waiting') = Len(asked') - a' BY <1>2, <1>5, <1>6, <1>7, <2>1
    <2>3. ASSUME NEW j \in 1..Len(waiting') PROVE waiting'[j] = Request(a' + j, asked'[a' + j])
      <3>1. CASE j = Len(waiting) + 1
        <4>1. a + j = l + 1 BY <1>2, <2>1, <3>1
        <4> QED BY <1>5, <1>6, <3>1, <4>1
      <3>2. CASE j \in 1..Len(waiting)
        <4>1. a + j \in 1..l BY <1>2, <2>1, <3>2
        <4> QED BY <1>1, <1>5, <1>6, <3>2, <4>1 DEF Awaited
      <3>3. j \in 1..(Len(waiting) + 1) BY <1>6
      <3> QED BY <1>2, <3>1, <3>2, <3>3
    <2> QED BY <2>2, <2>3 DEF Awaited
  <1>10. Followed'
    <2>1. ASSUME l > 0, asked[l] = "RUN", answered # [id |-> l, how |-> "FAILURE"] PROVE k = "PULL"
      <3>1. asked # <<>> BY <1>3, <2>1
      <3> QED BY <1>4, <2>1, <3>1 DEF MustPull
    <2>2. ASSUME NEW i \in 1..Len(asked'), Taken' < i, i < Len(asked'), asked'[i] = "RUN" PROVE asked'[i + 1] = "PULL"
      <3>1. i \in 1..l /\ Taken < i /\ asked[i] = "RUN" BY <1>2, <1>6, <1>7, <2>2
      <3>2. CASE i = l
        <4>1. answered.id < l BY <1>1, <1>2, <3>1, <3>2 DEF Awaited
        <4>2. answered # [id |-> l, how |-> "FAILURE"] BY <1>2, <4>1
        <4> QED BY <1>2, <1>6, <2>1, <3>1, <3>2, <4>2
      <3>3. CASE i < l
        <4>1. i + 1 \in 1..l BY <1>2, <3>1, <3>3
        <4> QED BY <1>1, <1>6, <3>1, <3>3, <4>1 DEF Followed
      <3> QED BY <1>2, <3>1, <3>2, <3>3
    <2>3. ASSUME srv.pc = "pull" PROVE asked'[Taken] = "RUN" /\ (Taken < Len(asked') => asked'[Taken + 1] = "PULL")
      <3>1. /\ Taken > 0 /\ asked[Taken] = "RUN" /\ (Taken < l => asked[Taken + 1] = "PULL")
            /\ answered # [id |-> Taken, how |-> "FAILURE"]
        BY <1>1, <2>3 DEF Followed
      <3>2. Taken \in 1..l BY <1>2, <3>1
      <3>3. CASE Taken = l BY <1>6, <2>1, <3>1, <3>2, <3>3
      <3>4. CASE Taken < l
        <4>1. Taken + 1 \in 1..l BY <1>2, <3>4
        <4> QED BY <1>6, <3>1, <3>2, <3>4, <4>1
      <3> QED BY <1>2, <3>3, <3>4
    <2>4. ASSUME srv.pc = "stream" PROVE asked'[Taken] = "PULL"
      <3>1. Taken > 1 /\ asked[Taken] = "PULL" BY <1>1, <2>4 DEF Followed
      <3> QED BY <1>2, <1>6, <3>1
    <2> QED BY <1>1, <1>5, <1>7, <2>2, <2>3, <2>4 DEF Followed
  <1>11. Flowing'
    <2>1. PICK d, c : /\ Flows(toClient, answered.id, records, asked, announced, Taken, d, c)
                      /\ srv.pc # "closed" => d = Due /\ c = Sent
      BY <1>1 DEF Flowing
    <2>2. Flows(toClient, answered.id, records, asked', announced, Taken, d, c)
      BY <1>2, <1>6, <2>1, FlowsMore
    <2>3. Due' = Due /\ Sent' = Sent BY <1>5, <1>7 DEF Due, Sent
    <2> QED BY <1>5, <1>7, <2>1, <2>2, <2>3 DEF Flowing
  <1> QED BY <1>5, <1>8, <1>9, <1>10, <1>11 DEF Open

\* The first part of Followed holds all the more when a request was read.
LEMMA FollowedStays ==
    ASSUME TypeOK, Queued, Followed, UNCHANGED asked, Taken' \in Nat, Taken <= Taken'
    PROVE  \A i \in 1..Len(asked') : Taken' < i /\ i < Len(asked') /\ asked'[i] = "RUN" => asked'[i + 1] = "PULL"
  <1>1. Taken \in Nat BY Numbers
  <1>2. ASSUME NEW i \in 1..Len(asked), Taken' < i, i < Len(asked), asked[i] = "RUN" PROVE asked[i + 1] = "PULL"
    <2>1. Taken < i BY <1>1, <1>2
    <2> QED BY <1>2, <2>1 DEF Followed
  <1> QED BY <1>2

\* A request that is read and answered at once.
LEMMA ReadAnswer ==
    ASSUME TypeOK, Open, srv.pc = "read", NEW kinds, Take("read", kinds),
           UNCHANGED <<asked, waiting, answered, records>>,
           NEW how \in AnswerKinds, how \in FittingAnswers[asked[Taken + 1]],
           ~(how = "SUCCESS" /\ asked[Taken + 1] = "PULL"),
           toClient' = Append(toClient, Reply(Req, how)),
           \A i \in 1..Taken : announced'[i] = announced[i]
    PROVE  /\ Queued' /\ Awaited'
           /\ Flows(toClient', answered'.id, records', asked', announced', Taken', Taken' + 1, 0)
           /\ \A j \in 1..Len(toClient') : toClient'[j].re = Taken' => toClient'[j].how = how
  <1>1. Queued /\ Awaited /\ Followed /\ Flowing BY DEF Open
  <1>2. /\ Len(asked) \in Nat /\ Len(toClient) \in Nat /\ MaxRequests \in Nat /\ Len(asked) <= MaxRequests
        /\ Taken \in Nat /\ answered.id \in Nat /\ MaxRows \in Nat
    BY <1>1, Numbers
  <1>3. Taken' = Taken + 1 /\ Req = Taken + 1 /\ Taken + 1 <= Len(asked) /\ Queued'
    BY <1>1, TakeNext
  <1>4. Awaited' 
    <2>1. Taken' \in Nat /\ Taken' >= Taken BY <1>2, <1>3
    <2> QED BY <1>1, <1>2, <2>1, AwaitedStays
  <1>5. Flows(toClient, answered.id, records, asked, announced, Taken, Taken + 1, 0)
    BY <1>1 DEF Flowing, Due, Sent
  <1> DEFINE t == Taken
             m == Reply(t + 1, how)
  <1>6. Flows(toClient, answered.id, records, asked', announced', t + 1, t + 1, 0)
    BY <1>2, <1>5, FlowsMore
  <1>7. m \in RepRec /\ m.re = t + 1 /\ m.how = how
    <2>1. t + 1 \in 1..MaxRequests BY <1>2, <1>3
    <2> QED BY <2>1 DEF Reply, RepRec
  <1>8. toClient \in Seq(RepRec) BY TypeParts
  <1>9. Flows(Append(toClient, m), answered.id, records, asked', announced', t + 1, (t + 1) + 1, 0)
    <2> HIDE DEF m, t
    <2>1. t \in Nat /\ t + 1 \in Nat /\ (t + 1) + 1 \in Nat /\ 0 \in 0..MaxRows BY <1>2 DEF t
    <2>2. how \in FittingAnswers[asked'[t + 1]] /\ ~(how = "SUCCESS" /\ asked'[t + 1] = "PULL") BY DEF t
    <2> DEFINE u == t + 1
               ask == asked'
               ann == announced'
    <2>3. u \in Nat /\ u + 1 \in Nat /\ m.re = u /\ m.re <= u BY <1>7, <2>1
    <2>4. m.how \in AnswerKinds =>
            /\ u + 1 = u + 1 /\ 0 = 0 /\ m.how \in FittingAnswers[ask[m.re]]
            /\ m.how = "SUCCESS" /\ ask[m.re] = "PULL" => m.re > 1 /\ 0 = ann[m.re - 1]
      BY <1>7, <2>2
    <2>5. m.how \notin AnswerKinds => u + 1 = u /\ 0 = 0 + 1 /\ ask[m.re] = "PULL" BY <1>7
    <2>6. Flows(toClient, answered.id, records, ask, ann, u, u, 0) BY <1>6
    <2> HIDE DEF u, ask, ann
    <2>7. Flows(Append(toClient, m), answered.id, records, ask, ann, u, u + 1, 0)
      BY <1>2, <1>7, <1>8, <2>1, <2>3, <2>4, <2>5, <2>6, FlowsAppend
    <2> QED BY <2>7 DEF u, ask, ann
  <1>10. Flows(toClient', answered'.id, records', asked', announced', Taken', Taken' + 1, 0)
    BY <1>3, <1>9
  <1>11. ASSUME NEW j \in 1..Len(toClient'), toClient'[j].re = Taken' PROVE toClient'[j].how = how
    <2>1. Len(toClient') = Len(toClient) + 1 /\ toClient'[Len(toClient) + 1] = m /\ \A k \in 1..Len(toClient) : toClient'[k] = toClient[k]
      BY <1>3, <1>8
    <2>2. CASE j = Len(toClient) + 1 BY <1>7, <2>1, <2>2
    <2>3. CASE j \in 1..Len(toClient)
      <3>1. toClient[j].re \in 1..Taken BY <1>5, <2>3, FlowRange
      <3>2. toClient[j].re = Taken + 1 BY <1>3, <1>11, <2>1, <2>3
      <3> QED BY <1>2, <3>1, <3>2
    <2>4. j \in 1..(Len(toClient) + 1) BY <2>1
    <2> QED BY <1>2, <2>2, <2>3, <2>4
  <1> QED BY <1>3, <1>4, <1>10, <1>11

\* What is left to show when the server reads the next message again.
LEMMA OpenReading ==
    ASSUME TypeOK, Queued, Followed, UNCHANGED asked, Taken' \in Nat, Taken <= Taken', srv'.pc = "read", Queued', Awaited',
           Flows(toClient', answered'.id, records', asked', announced', Taken', Taken' + 1, 0)
    PROVE  Open'
  <1>1. Followed' BY FollowedStays DEF Followed
  <1>2. Due' = Taken' + 1 /\ Sent' = 0 BY DEF Due, Sent
  <1>3. Flowing' BY <1>2 DEF Flowing
  <1> QED BY <1>1, <1>3 DEF Open

\* HELLO, RESET and what messageLoop does not know.
LEMMA AnswerReadOpen ==
    ASSUME TypeOK, Open, client = "open", HandleHello \/ HandleOther
    PROVE  Open'
  <1>1. Queued /\ Followed BY DEF Open
  <1>2. UNCHANGED <<asked, waiting, answered, records, announced>> BY DEF HandleHello, HandleOther
  <1>3. CASE HandleHello
    <2>1. Take("read", {"HELLO", "RESET"}) /\ srv.pc = "read" BY <1>3 DEF HandleHello, Take
    <2>2. srv' = srv /\ toClient' = Append(toClient, Reply(Req, "SUCCESS"))
      BY <1>3, AnswerOpen DEF HandleHello
    <2>3. Taken' = Taken + 1 /\ asked[Taken + 1] \in {"HELLO", "RESET"} BY <1>1, <1>2, <2>1, TakeNext
    <2>4. "SUCCESS" \in FittingAnswers[asked[Taken + 1]] BY <2>3 DEF FittingAnswers, RequestKinds
    <2>5. /\ Queued' /\ Awaited'
          /\ Flows(toClient', answered'.id, records', asked', announced', Taken', Taken' + 1, 0)
      BY <1>2, <2>1, <2>2, <2>3, <2>4, ReadAnswer DEF AnswerKinds
    <2>6. Taken' \in Nat /\ Taken <= Taken' BY <1>1, <2>3, Numbers
    <2> QED BY <1>1, <1>2, <2>1, <2>2, <2>5, <2>6, OpenReading
  <1>4. CASE HandleOther
    <2>1. Take("read", {"PULL", "OTHER"}) /\ srv.pc = "read" BY <1>4 DEF HandleOther, Take
    <2>2. srv'.pc = "read" /\ toClient' = Append(toClient, Reply(Req, "FAILURE"))
      BY <1>4 DEF HandleOther, sendFailure, Loop
    <2>3. Taken' = Taken + 1 /\ asked[Taken + 1] \in {"PULL", "OTHER"} BY <1>1, <1>2, <2>1, TakeNext
    <2>4. "FAILURE" \in FittingAnswers[asked[Taken + 1]] BY <2>3 DEF FittingAnswers, RequestKinds, AnswerKinds
    <2>5. /\ Queued' /\ Awaited'
          /\ Flows(toClient', answered'.id, records', asked', announced', Taken', Taken' + 1, 0)
      BY <1>2, <2>1, <2>2, <2>3, <2>4, ReadAnswer DEF AnswerKinds
    <2>6. Taken' \in Nat /\ Taken <= Taken' BY <1>1, <2>3, Numbers
    <2> QED BY <1>1, <1>2, <2>1, <2>2, <2>5, <2>6, OpenReading
  <1> QED BY <1>3, <1>4

\* A RUN: with a result, the PULL that follows it is awaited.
LEMMA HandleRunOpen ==
    ASSUME TypeOK, Open, client = "open", HandleRun
    PROVE  Open'
  <1>1. Queued /\ Awaited /\ Followed BY DEF Open
  <1>2. UNCHANGED <<asked, waiting, answered, records>> BY DEF HandleRun
  <1>3. Take("read", {"RUN"}) /\ srv.pc = "read" BY DEF HandleRun, Take
  <1>4. Taken' = Taken + 1 /\ asked[Taken + 1] = "RUN" /\ Req = Taken + 1 /\ Taken + 1 <= Len(asked)
    BY <1>1, <1>2, <1>3, TakeNext
  <1>5. Taken \in Nat /\ Len(asked) \in Nat /\ answered.id \in Nat /\ Len(asked) <= MaxRequests /\ MaxRequests \in Nat
    BY <1>1, Numbers
  <1>6. Taken' \in Nat /\ Taken <= Taken' BY <1>4, <1>5
  <1>7. FittingAnswers[asked[Taken + 1]] = AnswerKinds BY <1>4 DEF FittingAnswers, RequestKinds
  <1>8. CASE sendFailure(Req) /\ UNCHANGED announced
    <2>1. srv'.pc = "read" /\ toClient' = Append(toClient, Reply(Req, "FAILURE"))
      BY <1>8 DEF sendFailure, Loop
    <2>2. /\ Queued' /\ Awaited'
          /\ Flows(toClient', answered'.id, records', asked', announced', Taken', Taken' + 1, 0)
      BY <1>2, <1>3, <1>4, <1>7, <1>8, <2>1, ReadAnswer DEF AnswerKinds
    <2> QED BY <1>1, <1>2, <1>6, <2>1, <2>2, OpenReading
  <1>9. CASE RunSucceeds
    <2>1. PICK rows \in 0..MaxRows :
            /\ Answer(Reply(Req, "SUCCESS"), [Loop("pull") EXCEPT !.rows = rows])
            /\ announced' = [announced EXCEPT ![Req] = rows]
      BY <1>9 DEF RunSucceeds
    <2>2. srv'.pc = "pull" /\ srv'.rows = rows /\ toClient' = Append(toClient, Reply(Req, "SUCCESS"))
      BY <2>1, AnswerOpen DEF Loop
    <2>3. announced \in [1..MaxRequests -> 0..MaxRows] BY TypeParts
    <2>4. announced'[Taken'] = rows
      <3>1. Taken + 1 \in 1..MaxRequests BY <1>4, <1>5
      <3> QED BY <1>4, <2>1, <2>3, <3>1
    <2>5. \A i \in 1..Taken : announced'[i] = announced[i]
      <3>1. \A i \in 1..Taken : i \in 1..MaxRequests /\ i # Taken + 1 BY <1>4, <1>5
      <3> QED BY <1>4, <2>1, <2>3, <3>1
    <2>6. /\ Queued' /\ Awaited'
          /\ Flows(toClient', answered'.id, records', asked', announced', Taken', Taken' + 1, 0)
          /\ \A j \in 1..Len(toClient') : toClient'[j].re = Taken' => toClient'[j].how = "SUCCESS"
      BY <1>2, <1>3, <1>4, <1>7, <2>2, <2>5, ReadAnswer DEF AnswerKinds
    <2>7. Followed'
      <3>1. \A i \in 1..Len(asked') : Taken' < i /\ i < Len(asked') /\ asked'[i] = "RUN" => asked'[i + 1] = "PULL"
        BY <1>1, <1>2, <1>6, FollowedStays
      <3>2. Taken' > 0 /\ asked'[Taken'] = "RUN" BY <1>2, <1>4, <1>5
      <3>3. Taken' < Len(asked') => asked'[Taken' + 1] = "PULL"
        <4>1. ASSUME Taken + 1 < Len(asked) PROVE asked[(Taken + 1) + 1] = "PULL"
          <5>1. Taken + 1 \in 1..Len(asked) /\ Taken < Taken + 1 BY <1>4, <1>5
          <5> QED BY <1>1, <1>4, <4>1, <5>1 DEF Followed
        <4> QED BY <1>2, <1>4, <4>1
      <3>4. answered' # [id |-> Taken', how |-> "FAILURE"]
        <4>1. answered.id <= Taken BY <1>1 DEF Awaited
        <4>2. answered.id # Taken + 1 BY <1>5, <4>1
        <4> QED BY <1>2, <1>4, <4>2
      <3> QED BY <2>2, <2>4, <2>6, <3>1, <3>2, <3>3, <3>4 DEF Followed
    <2>8. Due' = Taken' + 1 /\ Sent' = 0 BY <2>2 DEF Due, Sent
    <2>9. Flowing' BY <2>6, <2>8 DEF Flowing
    <2> QED BY <2>2, <2>6, <2>7, <2>9 DEF Open
  <1> QED BY <1>8, <1>9 DEF HandleRun

\* The PULL after a RUN: its result is streamed, from the first row.
LEMMA HandlePullOpen ==
    ASSUME TypeOK, Open, HandlePull
    PROVE  Open'
  <1>1. Queued /\ Awaited /\ Followed /\ Flowing BY DEF Open
  <1>2. UNCHANGED <<toClient, client, asked, waiting, answered, records, announced>> BY DEF HandlePull
  <1>3. Take("pull", RequestKinds \ {"BAD"}) /\ srv.pc = "pull" BY DEF HandlePull, Take
  <1>4. /\ Taken' = Taken + 1 /\ Req = Taken + 1 /\ Taken + 1 <= Len(asked)
        /\ Head(toServer).kind = asked[Taken + 1] /\ Queued'
    BY <1>1, <1>2, <1>3, TakeNext
  <1>5. Taken \in Nat /\ Len(asked) \in Nat /\ answered.id \in Nat /\ srv.rows \in Nat
    BY <1>1, Numbers
  <1>6. Taken > 0 /\ asked[Taken + 1] = "PULL" /\ announced[Taken] = srv.rows
    <2>1. Taken < Len(asked) BY <1>4, <1>5
    <2> QED BY <1>1, <1>3, <2>1 DEF Followed
  <1>7. srv'.pc = "stream" /\ srv'.pull = Taken + 1 /\ srv'.rows = srv.rows
    <2>1. srv \in SrvRec BY TypeParts
    <2>2. srv' = [srv EXCEPT !.pc = "stream", !.pull = Req] BY <1>4, <1>6 DEF HandlePull
    <2> QED BY <1>4, <2>1, <2>2 DEF SrvRec
  <1>8. Taken' \in Nat /\ Taken <= Taken' /\ Taken' >= Taken /\ Taken' > 1 /\ Taken' - 1 = Taken BY <1>4, <1>5, <1>6
  <1>9. Awaited' BY <1>1, <1>2, <1>5, <1>8, AwaitedStays
  <1>12. srv'.rows <= announced'[Taken' - 1] /\ announced'[Taken' - 1] - srv'.rows = 0
    <2>1. announced'[Taken' - 1] = srv.rows BY <1>2, <1>6, <1>8
    <2>2. srv.rows <= srv.rows /\ srv.rows - srv.rows = 0 BY <1>5
    <2> QED BY <1>7, <2>1, <2>2
  <1>10. Followed'
    <2>1. \A i \in 1..Len(asked') : Taken' < i /\ i < Len(asked') /\ asked'[i] = "RUN" => asked'[i + 1] = "PULL"
      BY <1>1, <1>2, <1>8, FollowedStays
    <2>2. srv'.rows <= announced'[Taken' - 1] BY <1>12
    <2> QED BY <1>2, <1>4, <1>6, <1>7, <1>8, <2>1, <2>2 DEF Followed
  <1>11. Flowing'
    <2>1. Flows(toClient, answered.id, records, asked, announced, Taken, Taken + 1, 0)
      BY <1>1, <1>3 DEF Flowing, Due, Sent
    <2>2. Flows(toClient, answered.id, records, asked, announced, Taken + 1, Taken + 1, 0)
      BY <1>5, <2>1, FlowsMore
    <2>3. Due' = Taken + 1 BY <1>4, <1>7 DEF Due
    <2>4. Sent' = 0 BY <1>7, <1>12 DEF Sent
    <2> QED BY <1>2, <1>4, <2>2, <2>3, <2>4 DEF Flowing
  <1> QED BY <1>4, <1>7, <1>9, <1>10, <1>11 DEF Open

\* A row of the result, and the SUCCESS after the last one.
LEMMA StreamOpen ==
    ASSUME TypeOK, Open, client = "open", StreamRecord \/ StreamEnd, srv'.pc # "closed"
    PROVE  Open'
  <1>1. Queued /\ Awaited /\ Followed /\ Flowing /\ srv.pc = "stream" BY DEF Open, StreamRecord, StreamEnd
  <1>2. UNCHANGED <<toServer, client, asked, waiting, answered, records, announced>> BY DEF StreamRecord, StreamEnd
  <1>3. /\ Taken \in Nat /\ Len(asked) \in Nat /\ answered.id \in Nat /\ srv.rows \in 0..MaxRows
        /\ MaxRows \in Nat /\ Taken <= Len(asked) /\ Len(asked) <= MaxRequests /\ MaxRequests \in Nat
    BY <1>1, Numbers
  <1>4. srv.pull = Taken /\ Taken > 1 /\ asked[Taken] = "PULL" /\ srv.rows <= announced[Taken - 1]
    BY <1>1 DEF Followed
  <1>5. announced[Taken - 1] \in 0..MaxRows
    <2>1. announced \in [1..MaxRequests -> 0..MaxRows] BY TypeParts
    <2>2. Taken - 1 \in 1..MaxRequests BY <1>3, <1>4
    <2> QED BY <2>1, <2>2
  <1>6. Taken' = Taken BY <1>2 DEF Taken
  <1>7. Queued' BY <1>1, <1>2, <1>6 DEF Queued
  <1>8. Awaited' BY <1>1, <1>2, <1>6 DEF Awaited
  <1> DEFINE t == Taken
             n == announced[t - 1]
             c == n - srv.rows
  <1>9. Flows(toClient, answered.id, records, asked, announced, t, t, c)
    BY <1>1 DEF Flowing, Due, Sent
  <1>10. toClient \in Seq(RepRec) BY TypeParts
  <1>11. CASE StreamRecord
    <2>1. srv.rows > 0 /\ srv' = [srv EXCEPT !.rows = @ - 1] /\ toClient' = Append(toClient, Reply(t, "RECORD"))
      <3>1. Answer(Reply(srv.pull, "RECORD"), [srv EXCEPT !.rows = @ - 1]) BY <1>11 DEF StreamRecord, Loop
      <3> QED BY <1>4, <1>11, <3>1, AnswerOpen DEF StreamRecord
    <2>2. srv'.pc = "stream" /\ srv'.pull = Taken /\ srv'.rows = srv.rows - 1
      <3>1. srv \in SrvRec BY TypeParts
      <3> QED BY <1>1, <1>4, <2>1, <3>1 DEF SrvRec
    <2> DEFINE m == Reply(t, "RECORD")
    <2>3. m \in RepRec /\ m.re = t /\ m.re <= t /\ m.how \notin AnswerKinds
      <3>1. t \in 1..MaxRequests BY <1>3, <1>4
      <3> HIDE DEF t
      <3>2. t <= t BY <3>1, <1>3
      <3> QED BY <3>1, <3>2 DEF Reply, RepRec, AnswerKinds
    <2>4. c + 1 \in 0..MaxRows /\ n - srv'.rows = c + 1
      <3> HIDE DEF n
      <3>1. n \in 0..MaxRows /\ srv.rows <= n BY <1>4, <1>5 DEF n
      <3> QED BY <1>3, <2>1, <2>2, <3>1
    <2>5. Flows(Append(toClient, m), answered.id, records, asked, announced, t, t, c + 1)
      <3>1. asked[m.re] = "PULL" /\ t \in Nat BY <1>3, <1>4, <2>3
      <3> HIDE DEF m, t, c
      <3> QED BY <1>3, <1>9, <1>10, <2>3, <2>4, <3>1, FlowsAppend
    <2>6. Followed'
      <3>1. \A i \in 1..Len(asked') : Taken' < i /\ i < Len(asked') /\ asked'[i] = "RUN" => asked'[i + 1] = "PULL"
        BY <1>1, <1>2, <1>3, <1>6, FollowedStays
      <3>2. srv'.rows <= announced'[Taken' - 1]
        <4>1. srv.rows - 1 <= announced[Taken - 1] BY <1>3, <1>4, <1>5
        <4> QED BY <1>2, <1>6, <2>2, <4>1
      <3> QED BY <1>2, <1>4, <1>6, <2>2, <3>1, <3>2 DEF Followed
    <2>7. Due' = t /\ Sent' = c + 1 BY <1>2, <1>6, <2>2, <2>4 DEF Due, Sent
    <2>8. Flowing' BY <1>2, <1>6, <2>1, <2>5, <2>7 DEF Flowing
    <2> QED BY <1>7, <1>8, <2>2, <2>6, <2>8 DEF Open
  <1>12. CASE StreamEnd
    <2>1. srv.rows = 0 /\ srv' = Loop("read") /\ toClient' = Append(toClient, Reply(t, "SUCCESS"))
      BY <1>4, <1>12, AnswerOpen DEF StreamEnd
    <2> DEFINE m == Reply(t, "SUCCESS")
    <2>2. m \in RepRec /\ m.re = t /\ m.re <= t /\ m.how = "SUCCESS"
      <3>1. t \in 1..MaxRequests BY <1>3, <1>4
      <3> HIDE DEF t
      <3>2. t <= t BY <3>1, <1>3
      <3> QED BY <3>1, <3>2 DEF Reply, RepRec, AnswerKinds
    <2>3. c = announced[m.re - 1] /\ m.re > 1
      BY <1>4, <1>5, <2>1, <2>2
    <2>4. "SUCCESS" \in FittingAnswers[asked[m.re]] /\ "SUCCESS" \in AnswerKinds
      BY <1>4, <2>2 DEF FittingAnswers, RequestKinds, AnswerKinds
    <2>5. Flows(Append(toClient, m), answered.id, records, asked, announced, t, t + 1, 0)
      <3>1. t \in Nat /\ t + 1 \in Nat /\ 0 \in 0..MaxRows BY <1>3
      <3> HIDE DEF m, t, c
      <3> QED BY <1>3, <1>9, <1>10, <2>2, <2>3, <2>4, <3>1, FlowsAppend
    <2>6. Flows(toClient', answered'.id, records', asked', announced', Taken', Taken' + 1, 0)
      BY <1>2, <1>6, <2>1, <2>5
    <2>7. srv'.pc = "read" BY <2>1 DEF Loop
    <2>8. Taken' \in Nat /\ Taken <= Taken' BY <1>3, <1>6
    <2> QED BY <1>1, <1>2, <1>7, <1>8, <2>6, <2>7, <2>8, OpenReading
  <1> QED BY <1>11, <1>12

\* The server is gone; what it sent is still under way.
LEMMA ClosedOpen ==
    ASSUME TypeOK, Open, ReadError \/ (StreamRecord /\ srv'.pc = "closed"), client = "open"
    PROVE  Open'
  <1>1. Queued /\ Awaited /\ Followed /\ Flowing BY DEF Open
  <1>2. srv'.pc = "closed" BY DEF ReadError, Loop
  <1>3. UNCHANGED <<client, asked, waiting, answered, records, announced>> BY DEF ReadError, StreamRecord
  <1>4. Taken \in Nat /\ answered.id \in Nat BY <1>1, Numbers
  <1>5. toClient' = toClient
    <2>1. CASE ReadError BY <2>1 DEF ReadError
    <2>2. CASE StreamRecord /\ srv'.pc = "closed"
      <3>1. srv \in SrvRec /\ srv.pc = "stream" BY <2>2, TypeParts DEF StreamRecord
      <3>2. [srv EXCEPT !.rows = @ - 1].pc = "stream" BY <3>1 DEF SrvRec
      <3> QED BY <2>2, <3>2, AnswerOpen DEF StreamRecord
    <2> QED BY <2>1, <2>2
  <1>6. (Taken' = Taken \/ Taken' = Taken + 1) /\ Queued'
    <2>1. CASE toServer' = toServer
      <3>1. Taken' = Taken BY <1>3, <2>1 DEF Taken
      <3> QED BY <1>1, <1>3, <2>1, <3>1 DEF Queued
    <2>2. ASSUME NEW pc, NEW kinds, Take(pc, kinds) PROVE (Taken' = Taken \/ Taken' = Taken + 1) /\ Queued'
      BY <1>1, <1>3, <2>2, TakeNext
    <2> QED BY <2>1, <2>2 DEF ReadError, StreamRecord
  <1>7. Taken' \in Nat /\ Taken <= Taken' /\ Taken' >= Taken BY <1>4, <1>6
  <1>8. Awaited' BY <1>1, <1>3, <1>4, <1>7, AwaitedStays
  <1>9. Followed' BY <1>1, <1>2, <1>3, <1>7, FollowedStays DEF Followed
  <1>10. Flowing'
    <2>1. PICK d, c : Flows(toClient, answered.id, records, asked, announced, Taken, d, c) BY <1>1 DEF Flowing
    <2>2. Flows(toClient, answered.id, records, asked, announced, Taken', d, c)
      <3> DEFINE p == Taken'
      <3>1. p \in Nat /\ Taken <= p BY <1>7
      <3> HIDE DEF p
      <3>2. Flows(toClient, answered.id, records, asked, announced, p, d, c) BY <1>4, <2>1, <3>1, FlowsMore
      <3> QED BY <3>2 DEF p
    <2> QED BY <1>2, <1>3, <1>5, <2>2 DEF Flowing
  <1> QED BY <1>2, <1>6, <1>8, <1>9, <1>10 DEF Open

\* A reply that the client takes.
LEMMA ReceiveOpen ==
    ASSUME TypeOK, Open, Receive
    PROVE  Open'
  <1>1. Queued /\ Awaited /\ Followed /\ Flowing BY DEF Open
  <1>2. UNCHANGED <<toServer, srv, client, asked, announced>> /\ toClient # <<>> /\ toClient' = Tail(toClient)
    BY DEF Receive
  <1>3. Taken \in Nat /\ Len(asked) \in Nat /\ answered.id \in Nat /\ Len(waiting) \in Nat /\ Len(toClient) \in Nat
    BY <1>1, Numbers
  <1>4. toClient \in Seq(RepRec) /\ waiting \in Seq(ReqRec) /\ records \in 0..MaxRows BY TypeParts
  <1> DEFINE m == Head(toClient)
  <1>5. /\ m = toClient[1] /\ 1 \in 1..Len(toClient) /\ Len(toClient') = Len(toClient) - 1
        /\ \A j \in 1..Len(toClient') : toClient'[j] = toClient[j + 1]
    BY <1>2, <1>3, <1>4, HeadTailProperties
  <1>6. PICK d, c : /\ Flows(toClient, answered.id, records, asked, announced, Taken, d, c)
                    /\ srv.pc # "closed" => d = Due /\ c = Sent
    BY <1>1 DEF Flowing
  <1>7. /\ m.re = answered.id + 1 /\ m.re <= Taken
        /\ m.how \in AnswerKinds => Flows(Tail(toClient), m.re, 0, asked, announced, Taken, d, c)
        /\ m.how \notin AnswerKinds => Flows(Tail(toClient), answered.id, records + 1, asked, announced, Taken, d, c)
    BY <1>2, <1>3, <1>4, <1>6, FlowsTail
  <1>8. Taken' = Taken BY <1>2 DEF Taken
  <1>9. Queued' BY <1>1, <1>2, <1>8 DEF Queued
  <1>10. Due' = Due /\ Sent' = Sent BY <1>2, <1>8 DEF Due, Sent
  <1>11. ASSUME srv.pc = "pull" PROVE \A j \in 1..Len(toClient') : toClient'[j].re = Taken => toClient'[j].how = "SUCCESS"
    <2>1. \A j \in 1..Len(toClient) : toClient[j].re = Taken => toClient[j].how = "SUCCESS" BY <1>1, <1>11 DEF Followed
    <2>2. \A j \in 1..Len(toClient') : j + 1 \in 1..Len(toClient) BY <1>3, <1>5
    <2> QED BY <1>5, <2>1, <2>2
  <1>12. CASE m.how \in AnswerKinds
    <2>1. answered' = [id |-> m.re, how |-> m.how] /\ waiting' = Tail(waiting) /\ records' = 0
      BY <1>12 DEF Receive
    <2>2. Flowing' BY <1>2, <1>6, <1>7, <1>8, <1>10, <1>12, <2>1 DEF Flowing
    <2>3. Awaited'
      <3> DEFINE a == answered.id
      <3>1. Len(waiting) = Len(asked) - a /\ a + 1 <= Taken /\ Taken <= Len(asked)
        BY <1>1, <1>7, Numbers DEF Awaited
      <3>2. waiting # <<>> /\ Len(waiting) > 0
        <4>1. Len(waiting) > 0 BY <1>3, <3>1
        <4> QED BY <1>4, <4>1
      <3>3. Len(waiting') = Len(waiting) - 1 /\ \A j \in 1..Len(waiting') : waiting'[j] = waiting[j + 1]
        BY <1>4, <2>1, <3>2, HeadTailProperties
      <3>4. answered'.id = a + 1 BY <1>7, <2>1
      <3>5. Len(waiting') = Len(asked') - answered'.id BY <1>2, <1>3, <3>1, <3>3, <3>4
      <3>6. ASSUME NEW j \in 1..Len(waiting') PROVE waiting'[j] = Request(answered'.id + j, asked'[answered'.id + j])
        <4>1. j \in 1..(Len(waiting) - 1) BY <3>3
        <4>2. j + 1 \in 1..Len(waiting) /\ a + (j + 1) = (a + 1) + j BY <1>3, <3>2, <4>1
        <4>3. waiting[j + 1] = Request(a + (j + 1), asked[a + (j + 1)]) BY <1>1, <4>2 DEF Awaited
        <4> QED BY <1>2, <3>3, <3>4, <4>2, <4>3
      <3> QED BY <1>8, <3>1, <3>4, <3>5, <3>6 DEF Awaited
    <2>4. Followed'
      <3>1. ASSUME srv.pc = "pull" PROVE answered' # [id |-> Taken, how |-> "FAILURE"]
        <4>1. m.re = Taken => m.how = "SUCCESS" BY <1>1, <1>5, <3>1 DEF Followed
        <4> QED BY <2>1, <4>1
      <3> QED BY <1>1, <1>2, <1>8, <1>11, <3>1 DEF Followed
    <2> QED BY <1>1, <1>2, <1>9, <2>2, <2>3, <2>4 DEF Open
  <1>13. CASE m.how \notin AnswerKinds
    <2>1. UNCHANGED <<answered, waiting>> /\ records' = records + 1 BY <1>13 DEF Receive
    <2>2. Flowing' BY <1>2, <1>6, <1>7, <1>8, <1>10, <1>13, <2>1 DEF Flowing
    <2>3. Awaited' BY <1>1, <1>2, <1>8, <2>1 DEF Awaited
    <2>4. Followed' BY <1>1, <1>2, <1>8, <1>11, <2>1 DEF Followed
    <2> QED BY <1>1, <1>2, <1>9, <2>2, <2>3, <2>4 DEF Open
  <1> QED BY <1>12, <1>13

\* A connection that was negotiated.
LEMMA HandshakeOpen ==
    ASSUME TypeOK, New, Handshake, client' = "open"
    PROVE  Open'
  <1>1. UNCHANGED <<toServer, toClient, asked, waiting, answered, records, announced>> BY DEF Handshake
  <1>2. srv'.pc = "read" BY DEF Handshake, Loop
  <1>3. Len(toServer) = 0 /\ Len(toClient) = 0 /\ Len(asked) = 0 /\ Len(waiting) = 0 /\ records = 0 /\ answered.id = 0
    BY DEF New
  <1>4. Taken' = 0 /\ Taken = 0 BY <1>1, <1>3 DEF Taken
  <1>5. Queued' BY <1>1, <1>3 DEF Queued
  <1>6. Awaited' BY <1>1, <1>3, <1>4 DEF Awaited
  <1>7. Followed' BY <1>1, <1>2, <1>3 DEF Followed
  <1>8. Flowing'
    <2> DEFINE nx == [j \in 0..0 |-> 1]
               ct == [j \in 0..0 |-> 0]
    <2>1. nx \in [0..0 -> Nat] /\ ct \in [0..0 -> 0..MaxRows] /\ nx[0] = 0 + 1 /\ ct[0] = 0 /\ nx[0] = 1
      BY BoltAssumption
    <2> HIDE DEF nx, ct
    <2>2. Flow(toClient', answered'.id, records', asked', announced', Taken', nx, ct)
      BY <1>1, <1>3, <2>1 DEF Flow
    <2>3. Flows(toClient', answered'.id, records', asked', announced', Taken', 1, 0)
      BY <1>1, <1>3, <2>1, <2>2 DEF Flows
    <2>4. Due' = 1 /\ Sent' = 0 BY <1>2, <1>4 DEF Due, Sent
    <2> QED BY <2>3, <2>4 DEF Flowing
  <1> QED BY <1>2, <1>5, <1>6, <1>7, <1>8 DEF Open

\* The connection stays in order while the client has it open.
LEMMA OpenStep ==
    ASSUME IInv, [Next]_vars, client' = "open", AfterRun \subseteq {"PULL"}
    PROVE  Open'
  <1>0. TypeOK BY DEF IInv
  <1>1. CASE Handshake
    <2>1. New BY <1>1 DEF IInv, Handshake
    <2> QED BY <1>0, <1>1, <2>1, HandshakeOpen
  <1>2. CASE ~Handshake
    <2>1. client = "open" BY <1>2 DEF Next, messageLoop, Send, Receive, Leave, NoticeEnd, HandleHello, HandleRun, HandlePull,
                                     StreamRecord, StreamEnd, HandleOther, ReadError, vars
    <2>2. Open BY <2>1 DEF IInv
    <2>3. CASE Send BY <1>0, <2>2, <2>3, SendOpen
    <2>4. CASE Receive BY <1>0, <2>2, <2>4, ReceiveOpen
    <2>5. CASE Leave \/ NoticeEnd BY <2>5 DEF Leave, NoticeEnd
    <2>6. CASE HandleHello \/ HandleOther BY <1>0, <2>1, <2>2, <2>6, AnswerReadOpen
    <2>7. CASE HandleRun BY <1>0, <2>1, <2>2, <2>7, HandleRunOpen
    <2>8. CASE HandlePull BY <1>0, <2>2, <2>8, HandlePullOpen
    <2>9. CASE (StreamRecord \/ StreamEnd) /\ srv'.pc # "closed" BY <1>0, <2>1, <2>2, <2>9, StreamOpen
    <2>10. CASE ReadError \/ (StreamRecord /\ srv'.pc = "closed") BY <1>0, <2>1, <2>2, <2>10, ClosedOpen
    <2>11. ASSUME StreamEnd PROVE srv'.pc # "closed" BY <2>1, <2>11, AnswerOpen DEF StreamEnd, Loop
    <2>12. CASE UNCHANGED vars
      <3>1. Taken' = Taken BY <2>12 DEF Taken, vars
      <3>2. Due' = Due /\ Sent' = Sent BY <2>12, <3>1 DEF Due, Sent, vars
      <3> QED BY <2>2, <2>12, <3>1, <3>2 DEF Open, Queued, Awaited, Followed, Flowing, vars
    <2> QED BY <1>2, <2>3, <2>4, <2>5, <2>6, <2>7, <2>8, <2>9, <2>10, <2>11, <2>12 DEF Next, messageLoop
  <1> QED BY <1>1, <1>2

\* The rest of the invariant: the handshake comes first, and a client that was told
\* the end is told the truth.
LEMMA EndsStep ==
    ASSUME IInv, [Next]_vars
    PROVE  /\ srv'.pc = "handshake" => client' = "new"
           /\ srv'.pc = "stream" => srv'.pull > 0
           /\ client' = "gone" => srv'.pc = "closed"
           /\ client' = "new" => New'
  <1>0. TypeOK BY DEF IInv
  <1>1. /\ srv.pc = "handshake" => client = "new"
        /\ srv.pc = "stream" => srv.pull > 0
        /\ client = "gone" => srv.pc = "closed"
        /\ client = "new" => New /\ srv.pc = "handshake"
    BY DEF IInv, New
  <1>2. srv \in SrvRec BY <1>0, TypeParts
  <1>3. Loop("closed").pc = "closed" /\ Loop("read").pc = "read" BY DEF Loop
  <1>4. CASE Handshake BY <1>3, <1>4 DEF Handshake
  <1>5. CASE Send \/ Receive \/ Leave \/ NoticeEnd
    BY <1>1, <1>5 DEF Send, Receive, Leave, NoticeEnd
  <1>6. ASSUME NEW m, NEW next, Answer(m, next) PROVE srv' = next \/ srv'.pc = "closed"
    BY <1>3, <1>6 DEF Answer
  <1>7. CASE HandleHello
    BY <1>1, <1>6, <1>7 DEF HandleHello, Take
  <1>8. CASE HandleRun
    <2>1. UNCHANGED client /\ srv.pc = "read" BY <1>8 DEF HandleRun, Take
    <2>2. srv'.pc \in {"read", "pull", "closed"}
      <3>1. CASE RunSucceeds
        <4>1. PICK rows \in 0..MaxRows : Answer(Reply(Req, "SUCCESS"), [Loop("pull") EXCEPT !.rows = rows])
          BY <3>1 DEF RunSucceeds
        <4>2. [Loop("pull") EXCEPT !.rows = rows].pc = "pull" BY DEF Loop
        <4> QED BY <1>6, <4>1, <4>2
      <3>2. CASE sendFailure(Req) BY <1>3, <3>2 DEF sendFailure
      <3> QED BY <1>8, <3>1, <3>2 DEF HandleRun
    <2> QED BY <1>1, <2>1, <2>2
  <1>9. CASE HandlePull
    <2>1. Take("pull", RequestKinds \ {"BAD"}) /\ UNCHANGED client /\ srv.pc = "pull" BY <1>9 DEF HandlePull, Take
    <2>2. Req \in 1..MaxRequests BY <1>0, <2>1, TakeType
    <2>3. Req > 0 BY <2>2, BoltAssumption
    <2> DEFINE n == [srv EXCEPT !.pc = "stream", !.pull = Req]
    <2>4. n.pc = "stream" /\ n.pull = Req BY <1>2 DEF SrvRec
    <2>5. srv' = n \/ srv' = Loop("read") BY <1>9 DEF HandlePull
    <2> HIDE DEF n
    <2> QED BY <1>1, <1>3, <2>1, <2>3, <2>4, <2>5
  <1>10. CASE StreamRecord
    <2>1. UNCHANGED client /\ srv.pc = "stream" BY <1>10 DEF StreamRecord
    <2> DEFINE n == [srv EXCEPT !.rows = @ - 1]
    <2>2. n.pc = "stream" /\ n.pull = srv.pull BY <1>2, <2>1 DEF SrvRec
    <2>3. srv' = n \/ srv'.pc = "closed" BY <1>3, <1>6, <1>10 DEF StreamRecord
    <2> HIDE DEF n
    <2> QED BY <1>1, <2>1, <2>2, <2>3
  <1>11. CASE StreamEnd BY <1>1, <1>3, <1>6, <1>11 DEF StreamEnd
  <1>12. CASE HandleOther BY <1>1, <1>3, <1>12 DEF HandleOther, sendFailure, Take
  <1>13. CASE ReadError BY <1>1, <1>3, <1>13 DEF ReadError, Take
  <1>14. CASE UNCHANGED vars BY <1>1, <1>14 DEF vars, New
  <1> QED BY <1>4, <1>5, <1>7, <1>8, <1>9, <1>10, <1>11, <1>12, <1>13, <1>14 DEF Next, messageLoop

\* The invariant holds in every state, for a client that sends nothing but a PULL
\* after a RUN that may succeed, as drivers do.
THEOREM Invariance ==
    ASSUME AfterRun \subseteq {"PULL"}
    PROVE  Spec => []IInv
  <1>1. Init => IInv
    <2> SUFFICES ASSUME Init PROVE IInv OBVIOUS
    <2>1. /\ toServer \in Seq(ReqRec) /\ toClient \in Seq(RepRec) /\ asked \in Seq(Kinds) /\ waiting \in Seq(ReqRec)
          /\ Len(asked) <= MaxRequests /\ Len(waiting) <= Window
          /\ records \in 0..MaxRows /\ announced \in [1..MaxRequests -> 0..MaxRows]
      <3>1. 0 <= MaxRequests /\ 0 <= Window /\ 0 \in 0..MaxRows BY BoltAssumption
      <3>2. announced = [i \in 1..MaxRequests |-> 0] /\ records = 0 BY DEF Init
      <3>3. toServer = <<>> /\ toClient = <<>> /\ asked = <<>> /\ waiting = <<>> BY DEF Init
      <3>4. Len(<<>>) = 0 OBVIOUS
      <3>5. announced \in [1..MaxRequests -> 0..MaxRows] BY <3>1, <3>2
      <3> QED BY <3>1, <3>2, <3>3, <3>4, <3>5
    <2>2. srv \in SrvRec /\ srv.pc = "handshake" BY LoopType DEF Init
    <2>3. answered \in AnsRec
      <3>1. 0 \in 0..MaxRequests BY BoltAssumption
      <3> QED BY <3>1 DEF Init, AnsRec
    <2>4. TypeOK BY <2>1, <2>2, <2>3, TypeParts DEF Init
    <2> QED BY <2>2, <2>4 DEF Init, IInv, New
  <1>2. IInv /\ [Next]_vars => IInv'
    BY TypeStep, OpenStep, EndsStep DEF IInv
  <1> QED BY <1>1, <1>2, PTL DEF Spec

\* Every variable keeps its type; in particular a client never receives more rows
\* than a result may have, and never an answer when it waits for none.
THEOREM TypeCorrect ==
    ASSUME AfterRun \subseteq {"PULL"}
    PROVE  Spec => []TypeOK
  <1>1. IInv => TypeOK BY DEF IInv
  <1> QED BY <1>1, Invariance, PTL

\* The reply at the head of an open connection.
LEMMA HeadReply ==
    ASSUME IInv, client = "open", toClient # <<>>
    PROVE  LET m == Head(toClient)
           IN  /\ waiting # <<>> /\ Head(waiting) = Request(m.re, asked[m.re])
               /\ m.how \in AnswerKinds => m.how \in FittingAnswers[asked[m.re]]
               /\ m.how \notin AnswerKinds => asked[m.re] = "PULL"
               /\ m.how = "SUCCESS" /\ asked[m.re] = "PULL" => records = announced[m.re - 1]
  <1> DEFINE m == Head(toClient)
  <1>1. TypeOK /\ Queued /\ Awaited /\ Flowing BY DEF IInv, Open
  <1>2. /\ Taken \in Nat /\ Len(asked) \in Nat /\ answered.id \in Nat /\ Len(waiting) \in Nat /\ Taken <= Len(asked)
    BY <1>1, Numbers
  <1>3. toClient \in Seq(RepRec) /\ waiting \in Seq(ReqRec) BY <1>1, TypeParts
  <1>4. PICK d, c : Flows(toClient, answered.id, records, asked, announced, Taken, d, c) BY <1>1 DEF Flowing
  <1>5. /\ m.re = answered.id + 1 /\ m.re <= Taken
        /\ m.how \in AnswerKinds =>
              /\ m.how \in FittingAnswers[asked[m.re]]
              /\ m.how = "SUCCESS" /\ asked[m.re] = "PULL" => m.re > 1 /\ records = announced[m.re - 1]
        /\ m.how \notin AnswerKinds => asked[m.re] = "PULL"
    <2>1. /\ m.re = answered.id + 1 /\ m.re <= Taken
          /\ m.how \in AnswerKinds =>
                /\ m.how \in FittingAnswers[asked[m.re]]
                /\ m.how = "SUCCESS" /\ asked[m.re] = "PULL" => m.re > 1 /\ records = announced[m.re - 1]
                /\ Flows(Tail(toClient), m.re, 0, asked, announced, Taken, d, c)
          /\ m.how \notin AnswerKinds =>
                /\ asked[m.re] = "PULL"
                /\ records + 1 \in 0..MaxRows
                /\ Flows(Tail(toClient), answered.id, records + 1, asked, announced, Taken, d, c)
      BY <1>2, <1>3, <1>4, FlowsTail
    <2> QED BY <2>1
  <1>6. Len(waiting) > 0
    <2>1. Len(waiting) = Len(asked) - answered.id BY <1>1 DEF Awaited
    <2>2. answered.id + 1 <= Taken BY <1>5
    <2> QED BY <1>2, <2>1, <2>2
  <1>7. waiting # <<>> /\ Head(waiting) = waiting[1] BY <1>3, <1>6
  <1>8. waiting[1] = Request(answered.id + 1, asked[answered.id + 1]) BY <1>1, <1>2, <1>6 DEF Awaited
  <1> QED BY <1>5, <1>7, <1>8 DEF AnswerKinds

\* When a PULL is answered with SUCCESS the client has all rows that its own RUN
\* announced, and a record arrives for nothing but a PULL.
THEOREM RecordsAreComplete ==
    ASSUME AfterRun \subseteq {"PULL"}
    PROVE  Spec => []RecordsComplete
  <1>1. IInv => RecordsComplete
    <2> SUFFICES ASSUME IInv, client = "open", toClient # <<>>
                 PROVE  LET m == Head(toClient)
                        IN  /\ m.how = "RECORD" => Head(waiting) = Request(m.re, "PULL")
                            /\ m.how = "SUCCESS" /\ Head(waiting).kind = "PULL" => records = announced[m.re - 1]
      BY DEF RecordsComplete
    <2> DEFINE m == Head(toClient)
    <2>1. "RECORD" \notin AnswerKinds BY DEF AnswerKinds
    <2>2. Head(waiting) = Request(m.re, asked[m.re]) BY HeadReply
    <2>3. Head(waiting).kind = asked[m.re] BY <2>2 DEF Request
    <2> QED BY <2>1, <2>2, <2>3, HeadReply
  <1> QED BY <1>1, Invariance, PTL
-----------------------------------------------------------------------------
(* The connection implements the conversation.                                *)

\* Every step of the connection is a step of the conversation, or no step of it.
LEMMA Refines ==
    ASSUME IInv, [Next]_vars
    PROVE  [Abstract!Next]_<<waiting, answered, client \in {"new", "open"}>>
  <1> DEFINE open == client \in {"new", "open"}
  <1>0. TypeOK BY DEF IInv
  <1>1. CASE Handshake
    <2>1. client = "new" /\ waiting = <<>> /\ UNCHANGED <<waiting, answered>> BY <1>1 DEF Handshake, IInv, New
    <2>2. CASE client' = "open" BY <2>1, <2>2
    <2>3. CASE client' = "gone"
      <3>1. Abstract!HangUp BY <2>1, <2>3 DEF Abstract!HangUp
      <3> QED BY <3>1 DEF Abstract!Next
    <2> QED BY <1>1, <2>2, <2>3 DEF Handshake
  <1>2. CASE Send
    <2>1. waiting \in Seq(ReqRec) BY <1>0, TypeParts
    <2>2. PICK k \in Kinds : waiting' = Append(waiting, Request(Len(asked) + 1, k)) BY <1>2, BoltAssumption DEF Send
    <2> DEFINE new == Request(Len(asked) + 1, k)
    <2>3. new.kind \in Kinds BY DEF Request
    <2>4. new \in ReqRec
      <3>1. Len(asked) \in Nat /\ Len(asked) < MaxRequests BY <1>0, <1>2, TypeParts DEF Send
      <3> QED BY <3>1, BoltAssumption DEF Request, ReqRec
    <2>5. waiting'[Len(waiting')] = new /\ waiting' # <<>> BY <2>1, <2>2, <2>4
    <2>6. Abstract!Ask BY <1>2, <2>2, <2>3, <2>5 DEF Abstract!Ask, Send
    <2> QED BY <2>6 DEF Abstract!Next
  <1>3. CASE Receive
    <2> DEFINE m == Head(toClient)
    <2>1. client = "open" /\ toClient # <<>> /\ UNCHANGED client BY <1>3 DEF Receive
    <2>2. CASE m.how \in AnswerKinds
      <3>1. answered' = [id |-> m.re, how |-> m.how] /\ waiting' = Tail(waiting) BY <1>3, <2>2 DEF Receive
      <3>2. /\ waiting # <<>> /\ Head(waiting) = Request(m.re, asked[m.re])
            /\ m.how \in FittingAnswers[asked[m.re]]
        BY <2>1, <2>2, HeadReply
      <3>3. Head(waiting).id = m.re /\ Head(waiting).kind = asked[m.re] BY <3>2 DEF Request
      <3>4. Abstract!Answer BY <2>1, <3>1, <3>2, <3>3 DEF Abstract!Answer
      <3> QED BY <3>4 DEF Abstract!Next
    <2>3. CASE m.how \notin AnswerKinds BY <1>3, <2>3 DEF Receive
    <2> QED BY <2>2, <2>3
  <1>4. CASE Leave \/ NoticeEnd
    <2>1. Abstract!HangUp BY <1>4 DEF Leave, NoticeEnd, Abstract!HangUp
    <2> QED BY <2>1 DEF Abstract!Next
  <1>5. CASE messageLoop
    BY <1>5 DEF messageLoop, HandleHello, HandleRun, HandlePull, StreamRecord, StreamEnd, HandleOther, ReadError
  <1>6. CASE UNCHANGED vars BY <1>6 DEF vars
  <1> QED BY <1>1, <1>2, <1>3, <1>4, <1>5, <1>6 DEF Next

\* A connection of the Bolt server is a conversation: however far the client
\* pipelines, each request gets one answer, in order and of a kind that fits it.
THEOREM ServesTheConversation ==
    ASSUME AfterRun \subseteq {"PULL"}
    PROVE  Spec => ImplementsConversation
  <1>1. Init => Abstract!Init BY DEF Init, Abstract!Init
  <1>2. IInv /\ [Next]_vars => [Abstract!Next]_<<waiting, answered, client \in {"new", "open"}>>
    BY Refines
  <1> QED BY <1>1, <1>2, Invariance, PTL DEF Spec, ImplementsConversation, Abstract!Spec


=============================================================================
