----------------------------- MODULE IngestProofs -----------------------------
(* Proofs about Ingest, for any partitions, envelopes, batch size and faults. *)
EXTENDS Ingest, SequenceTheorems, FiniteSetTheorems, TLAPS

\* Inside a record: the graph calls made so far are in the graph, an error is on
\* record, and the record is at most one past the committed offset.
InFlight ==
    pc = "record" =>
        /\ next <= checkpoint[cur] + 1
        /\ \A i \in 1..wpos : Writes(cur, next)[i] \in DOMAIN graph
        /\ erred => <<cur, next>> \in failed

\* CommittedIsWrittenUnlessFailed, partition by partition.
CommittedOK ==
    \A tp \in TP : \A o \in 1..checkpoint[tp] : <<tp, o>> \in failed \/ InGraph(tp, o)

\* The inductive invariant.
IInv == TypeOK /\ CommittedOK /\ InFlight

\* The two forms say the same.
LEMMA CommittedMeans ==
    ASSUME TypeOK, CommittedOK
    PROVE  CommittedIsWrittenUnlessFailed
<1>1. \A tp \in TP : /\ checkpoint[tp] \in Nat /\ checkpoint[tp] <= MaxLog
                     /\ Len(log[tp]) \in Nat /\ checkpoint[tp] <= Len(log[tp])
  BY IngestAssumption DEF TypeOK
<1>2. Committed = {s \in Source : s[2] <= checkpoint[s[1]]}
  BY <1>1 DEF Committed, Records, Source
<1>3. ASSUME NEW s \in Committed
      PROVE  s[1] \in TP /\ s[2] \in 1..checkpoint[s[1]] /\ s = <<s[1], s[2]>>
  BY <1>1, <1>2 DEF Source
<1>. QED BY <1>3 DEF CommittedIsWrittenUnlessFailed, CommittedOK

\* Nothing is committed and nothing is in flight initially.
LEMMA InitInv == Init => IInv
<1> SUFFICES ASSUME Init PROVE IInv
  OBVIOUS
<1>1. TypeOK
  <2>1. log \in [TP -> Seq(Envelope)] /\ \A tp \in TP : Len(log[tp]) = 0 /\ checkpoint[tp] = 0
    BY DEF Init
  <2>2. graph \in [DOMAIN graph -> Source]
    BY DEF Init
  <2>3. checkpoint \in [TP -> 0..MaxLog] /\ faults \in 0..MaxFaults
    BY IngestAssumption DEF Init
  <2>4. \A tp \in TP : Len(log[tp]) <= MaxLog /\ checkpoint[tp] <= Len(log[tp])
    BY <2>1, IngestAssumption
  <2>. QED BY <2>1, <2>2, <2>3, <2>4 DEF Init, TypeOK
<1>2. CommittedOK
  BY DEF Init, CommittedOK
<1>. QED BY <1>1, <1>2 DEF IInv, InFlight, Init

-----------------------------------------------------------------------------
\* Type correctness of each step.
LEMMA TypeStep ==
    ASSUME IInv, [Next]_vars
    PROVE  TypeOK'
<1> USE IngestAssumption DEF IInv
<1>1. ASSUME NEW tp \in TP, NEW env \in Envelope, Produce(tp, env) PROVE TypeOK'
  <2>1. \A q \in TP : Len(log'[q]) \in Nat /\ Len(log[q]) <= Len(log'[q]) /\ Len(log'[q]) <= MaxLog
    BY <1>1 DEF Produce, TypeOK
  <2>2. log' \in [TP -> Seq(Envelope)]
    BY <1>1 DEF Produce, TypeOK
  <2>3. \A q \in TP : Len(log[q]) \in Nat /\ checkpoint[q] \in Nat /\ checkpoint[q] <= Len(log[q])
    BY DEF TypeOK
  <2>4. \A q \in TP : checkpoint[q] <= Len(log'[q])
    BY <2>1, <2>3
  <2>5. pc = "record" => last <= Len(log'[cur])
    BY <2>1, <2>3 DEF TypeOK
  <2>. QED BY <1>1, <2>1, <2>2, <2>4, <2>5 DEF Produce, TypeOK, loop
<1>2. CASE StartPoll
  BY <1>2 DEF StartPoll, TypeOK, disk
<1>3. ASSUME NEW tp \in TP, NEW after \in Nat, tp \in todo, pc = "scan", ReadRecords(tp, after),
             UNCHANGED <<disk, failed>>, faults' \in 0..MaxFaults
      PROVE  TypeOK'
  <2> DEFINE end == IF Len(log[tp]) < after + BatchSize THEN Len(log[tp]) ELSE after + BatchSize
  <2>1. Len(log[tp]) \in Nat /\ end \in Nat /\ end <= Len(log[tp])
    BY DEF TypeOK
  <2>2. CASE after < end
    <3>1. /\ pc' = "record" /\ cur' = tp /\ next' = after + 1 /\ last' = end
          /\ wpos' = 0 /\ erred' = FALSE /\ todo' = todo
      BY <1>3, <2>2 DEF ReadRecords
    <3>2. log' = log /\ graph' = graph /\ checkpoint' = checkpoint /\ failed' = failed
      BY <1>3 DEF disk
    <3>3. 1 <= next' /\ next' <= last' /\ last' <= Len(log'[cur']) /\ next' \in Nat /\ last' \in Nat
      BY <2>1, <2>2, <3>1, <3>2
    <3> HIDE DEF end
    <3>. QED BY <1>3, <3>1, <3>2, <3>3 DEF TypeOK
  <2>3. CASE ~(after < end)
    <3>1. todo' = todo \ {tp} /\ UNCHANGED <<pc, cur, next, last, wpos, erred>>
      BY <1>3, <2>3 DEF ReadRecords
    <3>2. log' = log /\ graph' = graph /\ checkpoint' = checkpoint /\ failed' = failed
      BY <1>3 DEF disk
    <3> HIDE DEF end
    <3>. QED BY <1>3, <3>1, <3>2 DEF TypeOK
  <2>. QED BY <2>2, <2>3
<1>4. ASSUME NEW tp \in TP, Visit(tp) PROVE TypeOK'
  <2>1. checkpoint[tp] \in Nat /\ faults' \in 0..MaxFaults
    BY <1>4 DEF Visit, TypeOK
  <2>2. /\ tp \in todo /\ pc = "scan" /\ ReadRecords(tp, checkpoint[tp])
        /\ UNCHANGED <<disk, failed>>
    BY <1>4 DEF Visit
  <2>. QED BY <1>3, <2>1, <2>2
<1>5. ASSUME NEW tp \in TP, VisitLoadError(tp) PROVE TypeOK'
  <2>1. 0 \in Nat /\ faults' \in 0..MaxFaults
    BY <1>5 DEF VisitLoadError, Fault, TypeOK
  <2>2. /\ tp \in todo /\ pc = "scan" /\ ReadRecords(tp, 0)
        /\ UNCHANGED <<disk, failed>>
    BY <1>5 DEF VisitLoadError
  <2>. QED BY <1>3, <2>1, <2>2
<1>6. ASSUME NEW tp \in TP, VisitReadError(tp) PROVE TypeOK'
  BY <1>6 DEF VisitReadError, TypeOK, Fault, disk
<1>7. CASE EndPoll
  BY <1>7 DEF EndPoll, TypeOK, disk
<1>8. CASE Write
  <2>1. <<cur, next>> \in Source
    BY <1>8 DEF Write, TypeOK, Source
  <2>2. graph' \in [DOMAIN graph' -> Source]
    BY <1>8, <2>1 DEF Write, Upserted, TypeOK
  <2>3. wpos' \in Nat
    BY <1>8 DEF Write, TypeOK
  <2>4. UNCHANGED <<log, checkpoint, pc, todo, cur, next, last, erred, failed, faults>>
    BY <1>8 DEF Write
  <2>. QED BY <2>2, <2>3, <2>4 DEF TypeOK
<1>9. CASE WriteError
  <2>1. <<cur, next>> \in Source
    BY <1>9 DEF WriteError, TypeOK, Source
  <2>2. failed' \subseteq Source /\ erred' = TRUE
    BY <1>9, <2>1 DEF WriteError, TypeOK
  <2>2a. faults' \in 0..MaxFaults
    BY <1>9 DEF WriteError, TypeOK, Fault
  <2>3. UNCHANGED <<log, graph, checkpoint, pc, todo, cur, next, last, wpos>>
    BY <1>9 DEF WriteError, disk
  <2>. QED BY <2>2, <2>2a, <2>3 DEF TypeOK
<1>10. CASE Commit
  <2>1. next \in 0..MaxLog /\ next <= Len(log[cur]) /\ cur \in TP
    <3>1. /\ cur \in TP /\ next \in Nat /\ last \in Nat /\ next <= last
          /\ last <= Len(log[cur]) /\ Len(log[cur]) <= MaxLog /\ Len(log[cur]) \in Nat
      BY <1>10 DEF Commit, TypeOK
    <3>. QED BY <3>1
  <2>2. checkpoint' \in [TP -> 0..MaxLog] /\ \A tp \in TP : checkpoint'[tp] <= Len(log[tp])
    BY <1>10, <2>1 DEF Commit, TypeOK
  <2>3. CASE next < last
    <3>1. /\ pc' = "record" /\ next' = next + 1 /\ wpos' = 0 /\ erred' = FALSE
          /\ UNCHANGED <<log, graph, todo, cur, last, failed, faults>>
      BY <1>10, <2>3 DEF Commit
    <3>2. cur \in todo /\ last \in Nat /\ next \in Nat /\ 1 <= next /\ last <= Len(log[cur])
      BY <1>10 DEF Commit, TypeOK
    <3>3. 1 <= next' /\ next' <= last /\ next' \in Nat
      BY <2>3, <3>1, <3>2
    <3>. QED BY <2>2, <3>1, <3>2, <3>3 DEF TypeOK
  <2>4. CASE ~(next < last)
    BY <1>10, <2>2, <2>4 DEF Commit, TypeOK
  <2>. QED BY <2>3, <2>4
<1>11. CASE CommitError
  BY <1>11 DEF CommitError, TypeOK, Fault, disk
<1>12. CASE Crash
  BY <1>12 DEF Crash, TypeOK, Fault, disk
<1>13. CASE UNCHANGED vars
  BY <1>13 DEF vars, disk, loop, TypeOK
<1>. QED BY <1>1, <1>2, <1>4, <1>5, <1>6, <1>7, <1>8, <1>9, <1>10, <1>11, <1>12, <1>13
         DEF Next, Poll

-----------------------------------------------------------------------------
\* The graph never forgets an entity, and the log never changes a record.
LEMMA GraphGrows ==
    ASSUME TypeOK, [Next]_vars
    PROVE  /\ DOMAIN graph \subseteq DOMAIN graph'
           /\ failed \subseteq failed'
           /\ \A tp \in TP : \A o \in 1..Len(log[tp]) : Writes(tp, o)' = Writes(tp, o)
<1>1. ASSUME UNCHANGED log
      PROVE  \A tp \in TP : \A o \in 1..Len(log[tp]) : Writes(tp, o)' = Writes(tp, o)
  BY <1>1 DEF Writes
<1>2. ASSUME NEW tp \in TP, NEW env \in Envelope, Produce(tp, env)
      PROVE  /\ UNCHANGED <<graph, failed>>
             /\ \A q \in TP : \A o \in 1..Len(log[q]) : Writes(q, o)' = Writes(q, o)
  <2>1. \A q \in TP : \A o \in 1..Len(log[q]) : log'[q][o] = log[q][o]
    BY <1>2 DEF Produce, TypeOK
  <2>. QED BY <1>2, <2>1 DEF Produce, Writes
<1>3. CASE Write
  BY <1>1, <1>3 DEF Write, Upserted
<1>4. CASE WriteError
  BY <1>1, <1>4 DEF WriteError, disk
<1>5. CASE Commit \/ CommitError \/ Crash \/ StartPoll \/ EndPoll \/ UNCHANGED vars
  <2>1. UNCHANGED <<log, graph, failed>>
    BY <1>5 DEF Commit, CommitError, Crash, StartPoll, EndPoll, vars, disk
  <2>. QED BY <1>1, <2>1
<1>6. ASSUME NEW tp \in TP, Visit(tp) \/ VisitLoadError(tp) \/ VisitReadError(tp)
      PROVE  UNCHANGED <<log, graph, failed>>
  BY <1>6 DEF Visit, VisitLoadError, VisitReadError, disk
<1>. QED BY <1>1, <1>2, <1>3, <1>4, <1>5, <1>6 DEF Next, Poll

\* What was wholly in the graph stays there.
LEMMA InGraphStable ==
    ASSUME TypeOK, [Next]_vars, NEW tp \in TP, NEW o \in 1..Len(log[tp]), InGraph(tp, o)
    PROVE  InGraph(tp, o)'
<1>1. Writes(tp, o)' = Writes(tp, o) /\ DOMAIN graph \subseteq DOMAIN graph'
  BY GraphGrows
<1>. QED BY <1>1 DEF InGraph

\* Only Commit moves a checkpoint, to the offset of the record in flight.
LEMMA CheckpointStep ==
    ASSUME [Next]_vars
    PROVE  UNCHANGED checkpoint \/ Commit
BY Zenon DEF Next, Poll, vars, disk, Produce, StartPoll, Visit, VisitLoadError, VisitReadError,
       EndPoll, Write, WriteError, CommitError, Crash

\* When ProcessRecord has returned, the record is in the graph or it failed.
LEMMA ReturnedMeans ==
    ASSUME IInv, pc = "record", Returned
    PROVE  <<cur, next>> \in failed \/ InGraph(cur, next)
BY DEF IInv, InFlight, Returned, InGraph

\* No step commits a record that is neither written nor failed.
LEMMA CommittedStep ==
    ASSUME IInv, [Next]_vars
    PROVE  CommittedOK'
<1>1. TypeOK /\ TypeOK'
  BY TypeStep DEF IInv
<1>2. \A tp \in TP : \A o \in 1..checkpoint[tp] : <<tp, o>> \in failed \/ InGraph(tp, o)
  BY DEF IInv, CommittedOK
<1>3. failed \subseteq failed'
  BY <1>1, GraphGrows
<1>4. \A tp \in TP : /\ checkpoint[tp] \in Nat /\ checkpoint[tp] <= Len(log[tp])
                     /\ Len(log[tp]) \in Nat
  BY <1>1 DEF TypeOK
<1>5. ASSUME NEW tp \in TP, NEW o \in 1..checkpoint'[tp]
      PROVE  <<tp, o>> \in failed' \/ InGraph(tp, o)'
  <2>1. CASE o \in 1..checkpoint[tp]
    <3>1. o \in 1..Len(log[tp])
      BY <2>1, <1>4
    <3>2. <<tp, o>> \in failed \/ InGraph(tp, o)
      BY <2>1, <1>2
    <3>. QED BY <3>1, <3>2, <1>1, <1>3, InGraphStable
  <2>2. CASE o \notin 1..checkpoint[tp]
    <3>1. Commit
      BY <2>2, CheckpointStep
    <3>2. /\ cur \in TP /\ next \in Nat /\ next \in 1..Len(log[cur])
          /\ next <= checkpoint[cur] + 1 /\ pc = "record" /\ Returned
          /\ checkpoint' = [checkpoint EXCEPT ![cur] = next]
      BY <3>1, <1>1, <1>4 DEF Commit, TypeOK, IInv, InFlight
    <3>3. tp = cur
      BY <2>2, <3>2, <1>1 DEF TypeOK
    <3>4. checkpoint'[tp] = next
      BY <3>2, <3>3, <1>1 DEF TypeOK
    <3>5. o = next
      BY <2>2, <3>2, <3>3, <3>4, <1>4
    <3>. QED BY <3>2, <3>3, <3>5, <1>1, <1>3, ReturnedMeans, InGraphStable
  <2>. QED BY <2>1, <2>2
<1>. QED BY <1>5 DEF CommittedOK

\* Every step keeps the account of the record in flight.
LEMMA InFlightStep ==
    ASSUME IInv, [Next]_vars
    PROVE  InFlight'
<1>1. TypeOK /\ TypeOK'
  BY TypeStep DEF IInv
<1>2. /\ DOMAIN graph \subseteq DOMAIN graph' /\ failed \subseteq failed'
      /\ \A tp \in TP : \A o \in 1..Len(log[tp]) : Writes(tp, o)' = Writes(tp, o)
  BY <1>1, GraphGrows
<1>3. ASSUME UNCHANGED <<checkpoint, pc, cur, next, wpos, erred>> PROVE InFlight'
  <2>1. CASE pc # "record"
    BY <1>3, <2>1 DEF InFlight
  <2>2. CASE pc = "record"
    <3>1. cur \in TP /\ next \in 1..Len(log[cur])
      BY <1>1, <2>2 DEF TypeOK
    <3>2. Writes(cur, next)' = Writes(cur, next)
      BY <1>2, <1>3, <3>1 DEF Writes
    <3>3. /\ next <= checkpoint[cur] + 1
          /\ \A i \in 1..wpos : Writes(cur, next)[i] \in DOMAIN graph
          /\ erred => <<cur, next>> \in failed
      BY <2>2 DEF IInv, InFlight
    <3>. QED BY <1>2, <1>3, <3>2, <3>3 DEF InFlight
  <2>. QED BY <2>1, <2>2
<1>4. CASE pc' # "record"
  BY <1>4 DEF InFlight
<1>5. ASSUME NEW tp \in TP, NEW after \in Nat, after <= checkpoint[tp], pc = "scan",
             ReadRecords(tp, after), UNCHANGED disk
      PROVE  InFlight'
  <2>1. CASE pc' = "record"
    <3>1. cur' = tp /\ next' = after + 1 /\ wpos' = 0 /\ erred' = FALSE /\ checkpoint' = checkpoint
      BY <1>5, <2>1 DEF ReadRecords, disk
    <3>2. checkpoint[tp] \in Nat
      BY <1>1 DEF TypeOK
    <3>. QED BY <1>5, <3>1, <3>2 DEF InFlight
  <2>. QED BY <2>1 DEF InFlight
<1>6. ASSUME NEW tp \in TP, Visit(tp) PROVE InFlight'
  <2>1. checkpoint[tp] \in Nat /\ checkpoint[tp] <= checkpoint[tp]
    BY <1>1 DEF TypeOK
  <2>2. pc = "scan" /\ ReadRecords(tp, checkpoint[tp]) /\ UNCHANGED disk
    BY <1>6 DEF Visit
  <2>. QED BY <1>5, <2>1, <2>2
<1>7. ASSUME NEW tp \in TP, VisitLoadError(tp) PROVE InFlight'
  <2>1. 0 \in Nat /\ 0 <= checkpoint[tp]
    BY <1>1 DEF TypeOK
  <2>2. pc = "scan" /\ ReadRecords(tp, 0) /\ UNCHANGED disk
    BY <1>7 DEF VisitLoadError
  <2>. QED BY <1>5, <2>1, <2>2
<1>8. CASE Write
  <2>1. /\ cur \in TP /\ next \in 1..Len(log[cur]) /\ wpos \in Nat /\ pc = "record"
        /\ UNCHANGED <<checkpoint, pc, cur, next, erred, failed>> /\ wpos' = wpos + 1
    BY <1>1, <1>8 DEF Write, TypeOK
  <2>2. Writes(cur, next)' = Writes(cur, next)
    BY <1>2, <2>1 DEF Writes
  <2>3. Writes(cur, next)[wpos + 1] \in DOMAIN graph'
    BY <1>8 DEF Write, Upserted
  <2>4. /\ next <= checkpoint[cur] + 1
        /\ \A i \in 1..wpos : Writes(cur, next)[i] \in DOMAIN graph
        /\ erred => <<cur, next>> \in failed
    BY <2>1 DEF IInv, InFlight
  <2>5. \A i \in 1..(wpos + 1) : Writes(cur, next)[i] \in DOMAIN graph'
    <3>1. \A i \in 1..(wpos + 1) : i \in 1..wpos \/ i = wpos + 1
      BY <2>1
    <3>. QED BY <1>2, <2>3, <2>4, <3>1
  <2>. QED BY <1>2, <2>1, <2>2, <2>4, <2>5 DEF InFlight
<1>9. CASE WriteError
  <2>1. /\ cur \in TP /\ next \in 1..Len(log[cur]) /\ pc = "record"
        /\ UNCHANGED <<checkpoint, pc, cur, next, wpos>>
    BY <1>1, <1>9 DEF WriteError, TypeOK, disk
  <2>2. Writes(cur, next)' = Writes(cur, next)
    BY <1>2, <2>1 DEF Writes
  <2>3. <<cur, next>> \in failed'
    BY <1>9 DEF WriteError
  <2>4. /\ next <= checkpoint[cur] + 1
        /\ \A i \in 1..wpos : Writes(cur, next)[i] \in DOMAIN graph
    BY <2>1 DEF IInv, InFlight
  <2>. QED BY <1>2, <2>1, <2>2, <2>3, <2>4 DEF InFlight
<1>10. CASE Commit
  <2>1. CASE next < last
    <3>1. /\ next' = next + 1 /\ wpos' = 0 /\ erred' = FALSE /\ cur' = cur
          /\ checkpoint' = [checkpoint EXCEPT ![cur] = next]
      BY <1>10, <2>1 DEF Commit
    <3>2. cur \in TP /\ next \in Nat
      BY <1>1, <1>10 DEF Commit, TypeOK
    <3>3. checkpoint'[cur'] = next
      BY <1>1, <3>1, <3>2 DEF TypeOK
    <3>. QED BY <3>1, <3>2, <3>3 DEF InFlight
  <2>2. CASE ~(next < last)
    BY <1>4, <1>10, <2>2 DEF Commit
  <2>. QED BY <2>1, <2>2
<1>11. CASE StartPoll \/ EndPoll \/ CommitError \/ Crash
  BY <1>4, <1>11 DEF StartPoll, EndPoll, CommitError, Crash
<1>12. ASSUME NEW tp \in TP, VisitReadError(tp) PROVE InFlight'
  BY <1>4, <1>12 DEF VisitReadError
<1>13. ASSUME NEW tp \in TP, NEW env \in Envelope, Produce(tp, env) PROVE InFlight'
  BY <1>3, <1>13 DEF Produce, loop
<1>14. CASE UNCHANGED vars
  BY <1>3, <1>14 DEF vars, disk, loop
<1>. QED BY <1>6, <1>7, <1>8, <1>9, <1>10, <1>11, <1>12, <1>13, <1>14 DEF Next, Poll

-----------------------------------------------------------------------------
(* The theorems.                                                             *)

\* Checkpoints, graph and the record in flight stay related in every reachable
\* state.
THEOREM Invariance == Spec => []IInv
<1>1. IInv /\ [Next]_vars => IInv'
  BY TypeStep, CommittedStep, InFlightStep DEF IInv
<1>. QED BY <1>1, InitInv, PTL DEF Spec

\* Log, checkpoints, batch and loop state stay well typed, and no checkpoint is
\* ever beyond its log.
THEOREM TypeCorrect == Spec => []TypeOK
<1>1. IInv => TypeOK
  BY DEF IInv
<1>. QED BY <1>1, Invariance, PTL

\* At-least-once ingestion: whatever crashes, failed commits, reader errors and
\* lost checkpoint reads happen, a committed record is in the graph or one of
\* its own writes failed.
THEOREM NoCommittedRecordLost == Spec => []CommittedIsWrittenUnlessFailed
<1>1. IInv => CommittedIsWrittenUnlessFailed
  BY CommittedMeans DEF IInv
<1>. QED BY <1>1, Invariance, PTL

\* No commit jumps over a record.
THEOREM CommitsDoNotSkip == Spec => NoSkip
<1>1. IInv /\ [Next]_vars => [\A tp \in TP : checkpoint'[tp] <= checkpoint[tp] + 1]_vars
  <2> SUFFICES ASSUME IInv, [Next]_vars
               PROVE  \A tp \in TP : checkpoint'[tp] <= checkpoint[tp] + 1
    OBVIOUS
  <2>1. \A tp \in TP : checkpoint[tp] \in Nat
    BY DEF IInv, TypeOK
  <2>2. CASE UNCHANGED checkpoint
    BY <2>1, <2>2
  <2>3. CASE Commit
    <3>1. /\ cur \in TP /\ next \in Nat /\ next <= checkpoint[cur] + 1
          /\ checkpoint' = [checkpoint EXCEPT ![cur] = next]
      BY <2>3 DEF Commit, IInv, TypeOK, InFlight
    <3>2. checkpoint \in [TP -> 0..MaxLog]
      BY DEF IInv, TypeOK
    <3>. QED BY <2>1, <3>1, <3>2
  <2>. QED BY <2>2, <2>3, CheckpointStep
<1>. QED BY <1>1, Invariance, PTL DEF Spec, NoSkip

-----------------------------------------------------------------------------
(* What one record writes: the handlers.                                     *)

\* What the calls of one record owe each other: an edge comes with both its
\* endpoints, before it unless it is a feedback edge.
Anchored(P) ==
    \A i \in 1..Len(P) : P[i].kind = "edge" =>
        /\ \E j \in 1..Len(P) : P[j] = UpsertNode(P[i].id[2])
        /\ \E j \in 1..Len(P) : P[j] = UpsertNode(P[i].id[3])
        /\ P[i].id[1] # "HAS_FEEDBACK" =>
               /\ \E j \in 1..(i - 1) : P[j] = UpsertNode(P[i].id[2])
               /\ \E j \in 1..(i - 1) : P[j] = UpsertNode(P[i].id[3])

\* Only a message record writes a message, and only its own.
OwnMessages(P, env, src) ==
    \A i \in 1..Len(P) : P[i].kind = "node" /\ P[i].id[1] = "Message" =>
        /\ P[i] = UpsertNode(MessageNodeID(src))
        /\ env.type \in {"request", "response", "skill_request", "skill_response"}
        /\ env.payload # BadPayload

\* A handler that returns early makes no call.
LEMMA EmptyCalls == ASSUME NEW env, NEW src PROVE Anchored(<<>>) /\ OwnMessages(<<>>, env, src)
BY DEF Anchored, OwnMessages

\* handleRequest, handleResponse and handleSkillResponse.
LEMMA RequestCalls ==
    ASSUME NEW env, NEW src, env.payload # BadPayload,
           env.type \in {"request", "response", "skill_response"}
    PROVE  /\ Len(HandleRequest(env, src)) = 5
           /\ HandleRequest(env, src)[3] = UpsertNode(MessageNodeID(src))
           /\ Anchored(HandleRequest(env, src)) /\ OwnMessages(HandleRequest(env, src), env, src)
<1> DEFINE P == HandleRequest(env, src)
           sender == AgentNodeID(env.sender)
           conv == ConversationNodeID(env.corr)
           msg == MessageNodeID(src)
<1>1. /\ Len(P) = 5
      /\ P[1] = UpsertNode(sender) /\ P[2] = UpsertNode(conv) /\ P[3] = UpsertNode(msg)
      /\ P[4] = UpsertEdge("AUTHORED", sender, msg) /\ P[5] = UpsertEdge("BELONGS_TO", msg, conv)
  BY DEF HandleRequest
<1> HIDE DEF P
<1>2. Anchored(P)
  BY <1>1 DEF Anchored, UpsertNode, UpsertEdge, DeterministicEdgeID
<1>3. OwnMessages(P, env, src)
  BY <1>1 DEF OwnMessages, UpsertNode, UpsertEdge, AgentNodeID, ConversationNodeID, MessageNodeID
<1>. QED BY <1>1, <1>2, <1>3 DEF P

\* handleSkillRequest.
LEMMA SkillRequestCalls ==
    ASSUME NEW env, NEW src, env.payload # BadPayload, env.type = "skill_request"
    PROVE  /\ Len(HandleSkillRequest(env, src)) = 7
           /\ HandleSkillRequest(env, src)[3] = UpsertNode(MessageNodeID(src))
           /\ Anchored(HandleSkillRequest(env, src)) /\ OwnMessages(HandleSkillRequest(env, src), env, src)
<1> DEFINE P == HandleSkillRequest(env, src)
           sender == AgentNodeID(env.sender)
           conv == ConversationNodeID(env.corr)
           msg == MessageNodeID(src)
           skill == SkillNodeID(env.payload.skill)
<1>1. /\ Len(P) = 7
      /\ P[1] = UpsertNode(sender) /\ P[2] = UpsertNode(conv) /\ P[3] = UpsertNode(msg)
      /\ P[4] = UpsertNode(skill)
      /\ P[5] = UpsertEdge("AUTHORED", sender, msg) /\ P[6] = UpsertEdge("BELONGS_TO", msg, conv)
      /\ P[7] = UpsertEdge("USES_SKILL", msg, skill)
  BY DEF HandleSkillRequest
<1> HIDE DEF P
<1>2. Anchored(P)
  BY <1>1 DEF Anchored, UpsertNode, UpsertEdge, DeterministicEdgeID
<1>3. OwnMessages(P, env, src)
  BY <1>1 DEF OwnMessages, UpsertNode, UpsertEdge, AgentNodeID, ConversationNodeID, MessageNodeID,
              SkillNodeID
<1>. QED BY <1>1, <1>2, <1>3 DEF P

\* The handlers that write one node: announce, task_status and trace.
LEMMA OneNodeCalls ==
    ASSUME NEW env, NEW src, NEW id, id[1] # "Message"
    PROVE  Anchored(<<UpsertNode(id)>>) /\ OwnMessages(<<UpsertNode(id)>>, env, src)
BY DEF Anchored, OwnMessages, UpsertNode

\* handleAudit.
LEMMA AuditCalls ==
    ASSUME NEW env, NEW src
    PROVE  Anchored(HandleAudit(env, src)) /\ OwnMessages(HandleAudit(env, src), env, src)
<1> DEFINE P == HandleAudit(env, src)
           audit == AuditEventNodeID(src)
           sender == AgentNodeID(env.sender)
<1>1. /\ Len(P) = 3
      /\ P[1] = UpsertNode(audit) /\ P[2] = UpsertNode(sender)
      /\ P[3] = UpsertEdge("AUDITED_BY", audit, sender)
  BY DEF HandleAudit
<1> HIDE DEF P
<1>2. Anchored(P)
  BY <1>1 DEF Anchored, UpsertNode, UpsertEdge, DeterministicEdgeID
<1>3. OwnMessages(P, env, src)
  BY <1>1 DEF OwnMessages, UpsertNode, UpsertEdge, AgentNodeID, AuditEventNodeID
<1>. QED BY <1>2, <1>3 DEF P

\* handleHumanFeedback: the one handler that writes an edge before its endpoint.
LEMMA FeedbackCalls ==
    ASSUME NEW env, NEW src
    PROVE  Anchored(HandleHumanFeedback(env, src)) /\ OwnMessages(HandleHumanFeedback(env, src), env, src)
<1> DEFINE P == HandleHumanFeedback(env, src)
           fb == HumanFeedbackNodeID(src)
           cycle == CycleNodeID(env.payload.cycle)
<1>1. CASE env.payload.cycle = ""
  <2>1. HandleHumanFeedback(env, src) = <<>>
    BY <1>1 DEF HandleHumanFeedback
  <2>. QED BY <2>1, EmptyCalls
<1>2. CASE env.payload.cycle # ""
  <2>1. /\ Len(P) = 3
        /\ P[1] = UpsertNode(fb) /\ P[2] = UpsertEdge("HAS_FEEDBACK", cycle, fb)
        /\ P[3] = UpsertNode(cycle)
    BY <1>2 DEF HandleHumanFeedback
  <2> HIDE DEF P
  <2>2. Anchored(P)
    BY <2>1 DEF Anchored, UpsertNode, UpsertEdge, DeterministicEdgeID
  <2>3. OwnMessages(P, env, src)
    BY <2>1 DEF OwnMessages, UpsertNode, UpsertEdge, HumanFeedbackNodeID, CycleNodeID
  <2>. QED BY <2>2, <2>3 DEF P
<1>. QED BY <1>1, <1>2

\* handleOrchestrator.
LEMMA OrchestratorCalls ==
    ASSUME NEW env, NEW src
    PROVE  Anchored(HandleOrchestrator(env, src)) /\ OwnMessages(HandleOrchestrator(env, src), env, src)
<1> DEFINE P == HandleOrchestrator(env, src)
           from == AgentNodeID(env.payload.from)
           to == AgentNodeID(env.payload.to)
           fixed == <<UpsertNode(from), UpsertNode(to)>>
           edge == CASE env.payload.action = "delegate" -> << UpsertEdge("DELEGATES_TO", from, to) >>
                     [] env.payload.action = "report"   -> << UpsertEdge("REPORTS_TO", from, to) >>
                     [] OTHER                           -> <<>>
           S == {UpsertNode(from), UpsertNode(to), UpsertEdge("DELEGATES_TO", from, to),
                 UpsertEdge("REPORTS_TO", from, to)}
<1>1. P = fixed \o edge
  BY DEF HandleOrchestrator
<1>1a. \/ edge = << UpsertEdge("DELEGATES_TO", from, to) >>
       \/ edge = << UpsertEdge("REPORTS_TO", from, to) >>
       \/ edge = <<>>
  OBVIOUS
<1>1b. /\ fixed \in Seq(S) /\ Len(fixed) = 2 /\ fixed[1] = UpsertNode(from) /\ fixed[2] = UpsertNode(to)
       /\ edge \in Seq(S)
       /\ \/ Len(edge) = 0
          \/ /\ Len(edge) = 1
             /\ edge[1] \in {UpsertEdge("DELEGATES_TO", from, to), UpsertEdge("REPORTS_TO", from, to)}
  <2> HIDE DEF edge
  <2>1. /\ fixed \in Seq(S) /\ Len(fixed) = 2
        /\ fixed[1] = UpsertNode(from) /\ fixed[2] = UpsertNode(to)
    OBVIOUS
  <2>2. CASE edge = << UpsertEdge("DELEGATES_TO", from, to) >>
    BY <2>1, <2>2
  <2>3. CASE edge = << UpsertEdge("REPORTS_TO", from, to) >>
    BY <2>1, <2>3
  <2>4. CASE edge = <<>>
    BY <2>1, <2>4
  <2>. QED BY <1>1a, <2>2, <2>3, <2>4
<1> HIDE DEF P, fixed, edge, S
<1>2. /\ P[1] = UpsertNode(from) /\ P[2] = UpsertNode(to)
      /\ \/ Len(P) = 2
         \/ /\ Len(P) = 3
            /\ P[3] \in {UpsertEdge("DELEGATES_TO", from, to), UpsertEdge("REPORTS_TO", from, to)}
  <2>1. /\ Len(P) = 2 + Len(edge)
        /\ \A i \in 1..(2 + Len(edge)) : P[i] = IF i <= 2 THEN fixed[i] ELSE edge[i - 2]
    <3>1. /\ Len(P) = Len(fixed) + Len(edge)
          /\ \A i \in 1..(Len(fixed) + Len(edge)) :
                P[i] = IF i <= Len(fixed) THEN fixed[i] ELSE edge[i - Len(fixed)]
      BY <1>1, <1>1b, ConcatProperties
    <3>. QED BY <1>1b, <3>1
  <2>. QED BY <1>1b, <2>1
<1>3. Anchored(P)
  BY <1>2 DEF Anchored, UpsertNode, UpsertEdge, DeterministicEdgeID
<1>4. OwnMessages(P, env, src)
  <2>1. Len(P) = 3 => P[3].kind = "edge"
    BY <1>2 DEF UpsertEdge
  <2>2. P[1].id[1] = "Agent" /\ P[2].id[1] = "Agent"
    BY <1>2 DEF UpsertNode, AgentNodeID
  <2>. QED BY <1>2, <2>1, <2>2 DEF OwnMessages
<1>. QED BY <1>3, <1>4 DEF P

\* The loops of handleMemory and handleRoster: a node and the edge to it, in turn.
LoopOf(n, key, nodeLabel, label, from) ==
    [i \in 1..(2 * n) |-> IF i % 2 = 1 THEN UpsertNode(<<nodeLabel, key[(i + 1) \div 2]>>)
                          ELSE UpsertEdge(label, from, <<nodeLabel, key[(i + 1) \div 2]>>)]

\* A node and an edge to it for each item of a list, after calls that made the other end.
LEMMA LoopCalls ==
    ASSUME NEW env, NEW src, NEW Call, NEW fixed \in Seq(Call), NEW n \in Nat, NEW key, NEW label, NEW from,
           NEW nodeLabel, nodeLabel # "Message", label # "HAS_FEEDBACK",
           Anchored(fixed), OwnMessages(fixed, env, src),
           \E j \in 1..Len(fixed) : fixed[j] = UpsertNode(from)
    PROVE  /\ Anchored(fixed \o LoopOf(n, key, nodeLabel, label, from))
           /\ OwnMessages(fixed \o LoopOf(n, key, nodeLabel, label, from), env, src)
<1> DEFINE rest == LoopOf(n, key, nodeLabel, label, from)
           P == fixed \o rest
           S == Call \cup {rest[i] : i \in 1..(2 * n)}
           k == Len(fixed)
<1>0. rest = [i \in 1..(2 * n) |-> IF i % 2 = 1 THEN UpsertNode(<<nodeLabel, key[(i + 1) \div 2]>>)
                                  ELSE UpsertEdge(label, from, <<nodeLabel, key[(i + 1) \div 2]>>)]
  BY DEF LoopOf
<1> HIDE DEF rest
<1>1. fixed \in Seq(S) /\ rest \in Seq(S) /\ Len(rest) = 2 * n /\ k \in Nat
  <2>1. rest \in [1..(2 * n) -> S]
    BY <1>0
  <2>2. rest \in Seq(S)
    <3>1. 2 * n \in Nat
      OBVIOUS
    <3> HIDE DEF S
    <3>2. rest \in UNION {[1..q -> S] : q \in Nat}
      BY <2>1, <3>1, Zenon
    <3>. QED BY <3>2, SeqDef, Zenon
  <2>3. Len(rest) = 2 * n
    BY <2>1, <2>2, LenProperties
  <2>. QED BY <2>2, <2>3, SeqMonotonic, LenProperties
<1>2. /\ Len(P) = k + 2 * n
      /\ \A i \in 1..k : P[i] = fixed[i]
      /\ \A i \in 1..(2 * n) : P[k + i] = rest[i]
  <2>1. /\ Len(P) = k + 2 * n
        /\ \A i \in 1..(k + 2 * n) : P[i] = IF i <= k THEN fixed[i] ELSE rest[i - k]
    BY <1>1, ConcatProperties
  <2> HIDE DEF P, k, S
  <2>2. \A i \in 1..k : i \in 1..(k + 2 * n) /\ i <= k
    BY <1>1
  <2>3. \A i \in 1..(2 * n) : k + i \in 1..(k + 2 * n) /\ ~(k + i <= k) /\ (k + i) - k = i
    BY <1>1
  <2>. QED BY <2>1, <2>2, <2>3
<1> HIDE DEF P, k, S
<1>2a. ASSUME NEW i \in 1..Len(P), ~(i \in 1..k)
      PROVE  i - k \in 1..(2 * n) /\ P[i] = rest[i - k]
  <2>1. i - k \in 1..(2 * n) /\ k + (i - k) = i
    BY <1>1, <1>2, <1>2a
  <2>. QED BY <1>2, <2>1
<1>3. ASSUME NEW i \in 1..Len(P), P[i].kind = "edge"
      PROVE  /\ \E j \in 1..Len(P) : P[j] = UpsertNode(P[i].id[2])
             /\ \E j \in 1..Len(P) : P[j] = UpsertNode(P[i].id[3])
             /\ P[i].id[1] # "HAS_FEEDBACK" =>
                    /\ \E j \in 1..(i - 1) : P[j] = UpsertNode(P[i].id[2])
                    /\ \E j \in 1..(i - 1) : P[j] = UpsertNode(P[i].id[3])
  <2>1. CASE i \in 1..k
    <3>1. P[i] = fixed[i] /\ fixed[i].kind = "edge" /\ i \in 1..Len(fixed)
      BY <1>2, <1>3, <2>1 DEF k
    <3>2. /\ \E j \in 1..k : fixed[j] = UpsertNode(fixed[i].id[2])
          /\ \E j \in 1..k : fixed[j] = UpsertNode(fixed[i].id[3])
          /\ fixed[i].id[1] # "HAS_FEEDBACK" =>
               /\ \E j \in 1..(i - 1) : fixed[j] = UpsertNode(fixed[i].id[2])
               /\ \E j \in 1..(i - 1) : fixed[j] = UpsertNode(fixed[i].id[3])
      BY <3>1 DEF Anchored, k
    <3>3. \A j \in 1..k : j \in 1..Len(P) /\ P[j] = fixed[j]
      BY <1>1, <1>2
    <3>4. \A j \in 1..(i - 1) : j \in 1..k
      BY <1>1, <2>1
    <3>. QED BY <3>1, <3>2, <3>3, <3>4
  <2>2. CASE ~(i \in 1..k)
    <3> DEFINE m == i - k
    <3>1. m \in 1..(2 * n) /\ P[i] = rest[m]
      BY <1>2a, <2>2
    <3>2. m % 2 # 1
      BY <1>0, <1>3, <3>1 DEF UpsertNode
    <3>3. m - 1 \in 1..(2 * n) /\ (m - 1) % 2 = 1 /\ (m - 1 + 1) \div 2 = (m + 1) \div 2
      <4> HIDE DEF m
      <4>1. m \in Nat
        BY <3>1
      <4>1a. m = 1 => m % 2 = 1
        OBVIOUS
      <4>1b. m # 1 /\ m % 2 = 0
        BY <3>2, <4>1, <4>1a
      <4>2. m - 1 \in 1..(2 * n)
        BY <3>1, <4>1, <4>1b
      <4>. QED BY <4>1, <4>1b, <4>2
    <3>4. P[i] = UpsertEdge(label, from, <<nodeLabel, key[(m + 1) \div 2]>>)
      BY <1>0, <3>1, <3>2
    <3>5. rest[m - 1] = UpsertNode(<<nodeLabel, key[(m + 1) \div 2]>>)
      BY <1>0, <3>3
    <3>6. P[i - 1] = rest[m - 1] /\ i - 1 \in 1..(i - 1) /\ i - 1 \in 1..Len(P)
      <4>1. k + (m - 1) = i - 1 /\ i - 1 \in 1..(i - 1) /\ i - 1 \in 1..Len(P)
        BY <1>1, <1>2, <3>3
      <4>. QED BY <1>2, <3>3, <4>1
    <3> HIDE DEF m
    <3>7. PICK j \in 1..k : fixed[j] = UpsertNode(from)
      BY DEF k
    <3>8. j \in 1..(i - 1) /\ j \in 1..Len(P) /\ P[j] = UpsertNode(from)
      BY <1>1, <1>2, <2>2, <3>7
    <3>9. P[i].id[2] = from /\ P[i].id[3] = <<nodeLabel, key[(m + 1) \div 2]>>
      BY <3>4 DEF UpsertEdge, DeterministicEdgeID
    <3>. QED BY <3>5, <3>6, <3>8, <3>9
  <2>. QED BY <2>1, <2>2
<1>4. ASSUME NEW i \in 1..Len(P), P[i].kind = "node", P[i].id[1] = "Message"
      PROVE  i \in 1..k
  <2>1. SUFFICES ASSUME ~(i \in 1..k) PROVE FALSE
    OBVIOUS
  <2>2. P[i] = rest[i - k] /\ i - k \in 1..(2 * n)
    BY <1>2a, <2>1
  <2>. QED BY <1>0, <1>4, <2>2 DEF UpsertNode, UpsertEdge
<1>5. Anchored(P)
  BY <1>3 DEF Anchored
<1>6. OwnMessages(P, env, src)
  BY <1>2, <1>4 DEF OwnMessages, k
<1>. QED BY <1>5, <1>6 DEF P, rest

\* handleMemory.
LEMMA MemoryCalls ==
    ASSUME NEW env, NEW src, Len(env.payload.refs) \in Nat
    PROVE  Anchored(HandleMemory(env, src)) /\ OwnMessages(HandleMemory(env, src), env, src)
<1> DEFINE mem == SharedMemoryNodeID(src)
           sender == AgentNodeID(env.sender)
           refs == env.payload.refs
           fixed == << UpsertNode(mem), UpsertNode(sender), UpsertEdge("SHARED_BY", mem, sender) >>
           Call == {UpsertNode(mem), UpsertNode(sender), UpsertEdge("SHARED_BY", mem, sender)}
           rest == LoopOf(Len(refs), refs, "Agent", "REFERENCES", mem)
<1>1. HandleMemory(env, src) = fixed \o rest
  BY DEF HandleMemory, LoopOf, AgentNodeID
<1>2. /\ fixed \in Seq(Call) /\ Len(fixed) = 3 /\ fixed[1] = UpsertNode(mem)
      /\ fixed[2] = UpsertNode(sender) /\ fixed[3] = UpsertEdge("SHARED_BY", mem, sender)
  OBVIOUS
<1> HIDE DEF fixed
<1>3. Anchored(fixed)
  BY <1>2 DEF Anchored, UpsertNode, UpsertEdge, DeterministicEdgeID
<1>4. OwnMessages(fixed, env, src)
  BY <1>2 DEF OwnMessages, UpsertNode, UpsertEdge, AgentNodeID, SharedMemoryNodeID
<1>5. \E j \in 1..Len(fixed) : fixed[j] = UpsertNode(mem)
  BY <1>2
<1> HIDE DEF Call, refs, mem
<1>. QED BY <1>1, <1>2, <1>3, <1>4, <1>5, LoopCalls DEF refs

\* handleRoster.
LEMMA RosterCalls ==
    ASSUME NEW env, NEW src, Len(env.payload.skills) \in Nat
    PROVE  Anchored(HandleRoster(env, src)) /\ OwnMessages(HandleRoster(env, src), env, src)
<1> DEFINE agent == AgentNodeID(NamedAgent(env))
           skills == env.payload.skills
           fixed == << UpsertNode(agent) >>
           Call == {UpsertNode(agent)}
           rest == LoopOf(Len(skills), skills, "Skill", "HAS_SKILL", agent)
<1>1. HandleRoster(env, src) = fixed \o rest
  BY DEF HandleRoster, LoopOf, SkillNodeID
<1>2. fixed \in Seq(Call) /\ Len(fixed) = 1 /\ fixed[1] = UpsertNode(agent)
  OBVIOUS
<1>3. Anchored(fixed) /\ OwnMessages(fixed, env, src)
  BY OneNodeCalls DEF AgentNodeID
<1>4. \E j \in 1..Len(fixed) : fixed[j] = UpsertNode(agent)
  BY <1>2
<1> HIDE DEF Call, skills, agent, fixed
<1>. QED BY <1>1, <1>2, <1>3, <1>4, LoopCalls DEF skills

\* ProcessRecord: whatever the envelope, its edges come with their endpoints and
\* its message is its own.
LEMMA RecordCalls ==
    ASSUME NEW env \in Envelope, NEW src
    PROVE  /\ Anchored(ProcessRecord(env, src))
           /\ OwnMessages(ProcessRecord(env, src), env, src)
           /\ env.type \in {"request", "response", "skill_request", "skill_response"} /\ env.payload # BadPayload
                => \E i \in 1..Len(ProcessRecord(env, src)) :
                       ProcessRecord(env, src)[i] = UpsertNode(MessageNodeID(src))
<1> DEFINE P == ProcessRecord(env, src)
<1>1. CASE env.type = "" \/ env.payload = BadPayload
  <2>1. P = <<>>
    BY <1>1 DEF ProcessRecord
  <2>. QED BY <1>1, <2>1, EmptyCalls
<1>2. CASE env.type \in {"request", "response", "skill_response"} /\ env.payload # BadPayload
  <2>1. P = HandleRequest(env, src)
    BY <1>2 DEF ProcessRecord, HandleResponse, HandleSkillResponse
  <2> HIDE DEF P
  <2>2. Len(P) = 5 /\ P[3] = UpsertNode(MessageNodeID(src)) /\ Anchored(P) /\ OwnMessages(P, env, src)
    BY <1>2, <2>1, RequestCalls
  <2>. QED BY <2>2 DEF P
<1>3. CASE env.type = "skill_request" /\ env.payload # BadPayload
  <2>1. P = HandleSkillRequest(env, src)
    BY <1>3 DEF ProcessRecord
  <2> HIDE DEF P
  <2>2. Len(P) = 7 /\ P[3] = UpsertNode(MessageNodeID(src)) /\ Anchored(P) /\ OwnMessages(P, env, src)
    BY <1>3, <2>1, SkillRequestCalls
  <2>. QED BY <2>2 DEF P
<1>4. CASE env.type \in {"announce", "task_status", "trace"} /\ env.payload # BadPayload
  <2>1. PICK id : P = <<UpsertNode(id)>> /\ id[1] # "Message"
    <3>1. CASE env.type = "announce"
      BY <1>4, <3>1 DEF ProcessRecord, HandleAnnounce, AgentNodeID
    <3>2. CASE env.type = "task_status"
      BY <1>4, <3>2 DEF ProcessRecord, HandleTaskStatus, ConversationNodeID
    <3>3. CASE env.type = "trace"
      BY <1>4, <3>3 DEF ProcessRecord, HandleTrace, ConversationNodeID
    <3>. QED BY <1>4, <3>1, <3>2, <3>3
  <2>. QED BY <1>4, <2>1, OneNodeCalls
<1>5. CASE env.type = "memory" /\ env.payload # BadPayload
  <2>1. P = HandleMemory(env, src)
    BY <1>5 DEF ProcessRecord
  <2>. QED BY <1>5, <2>1, MemoryCalls, EnvelopeAssumption
<1>6. CASE env.type = "roster" /\ env.payload # BadPayload
  <2>1. P = HandleRoster(env, src)
    BY <1>6 DEF ProcessRecord
  <2>. QED BY <1>6, <2>1, RosterCalls, EnvelopeAssumption
<1>7. CASE env.type = "audit" /\ env.payload # BadPayload
  <2>1. P = HandleAudit(env, src)
    BY <1>7 DEF ProcessRecord
  <2>. QED BY <1>7, <2>1, AuditCalls
<1>8. CASE env.type = "orchestrator" /\ env.payload # BadPayload
  <2>1. P = HandleOrchestrator(env, src)
    BY <1>8 DEF ProcessRecord
  <2>. QED BY <1>8, <2>1, OrchestratorCalls
<1>9. CASE env.type = "human_feedback" /\ env.payload # BadPayload
  <2>1. P = HandleHumanFeedback(env, src)
    BY <1>9 DEF ProcessRecord
  <2>. QED BY <1>9, <2>1, FeedbackCalls
<1>10. CASE /\ env.type \notin {"", "announce", "request", "response", "task_status", "skill_request",
                               "skill_response", "memory", "trace", "audit", "roster",
                               "orchestrator", "human_feedback"}
            /\ env.payload # BadPayload
  <2>1. P = <<>>
    BY <1>10 DEF ProcessRecord
  <2>. QED BY <1>10, <2>1, EmptyCalls
<1>. QED BY <1>1, <1>2, <1>3, <1>4, <1>5, <1>6, <1>7, <1>8, <1>9, <1>10

-----------------------------------------------------------------------------
(* Where the graph's content comes from.                                     *)

\* Record s of the log lg makes the call w.
Makes(lg, s, w) ==
    /\ s \in Source /\ s[2] <= Len(lg[s[1]])
    /\ \E i \in 1..Len(ProcessRecord(lg[s[1]][s[2]], s)) : ProcessRecord(lg[s[1]][s[2]], s)[i] = w

\* Every entity was written by the record it names.
Provenance == \A w \in DOMAIN graph : Makes(log, graph[w], w)

\* Every edge but a feedback edge has its endpoints.
Grounded ==
    \A w \in DOMAIN graph : w.kind = "edge" /\ w.id[1] # "HAS_FEEDBACK" =>
        UpsertNode(w.id[2]) \in DOMAIN graph /\ UpsertNode(w.id[3]) \in DOMAIN graph

\* A step either leaves the graph alone or writes one call of the record in flight.
LEMMA GraphStep ==
    ASSUME [Next]_vars
    PROVE  UNCHANGED graph \/ Write
BY Zenon DEF Next, Poll, vars, disk, Produce, StartPoll, Visit, VisitLoadError, VisitReadError,
       EndPoll, Commit, WriteError, CommitError, Crash

\* The records of the log stay, and so do their calls.
LEMMA RecordsStable ==
    ASSUME TypeOK, TypeOK', [Next]_vars, NEW s \in Records
    PROVE  /\ s \in Records' /\ s = <<s[1], s[2]>> /\ s[1] \in TP /\ s[2] \in 1..Len(log[s[1]])
           /\ Writes(s[1], s[2])' = Writes(s[1], s[2])
           /\ log'[s[1]][s[2]] = log[s[1]][s[2]]
<1>1. s = <<s[1], s[2]>> /\ s[1] \in TP /\ s[2] \in 1..MaxLog /\ s[2] <= Len(log[s[1]])
  BY DEF Records, Source
<1>2. Len(log[s[1]]) \in Nat /\ s[2] \in 1..Len(log[s[1]])
  BY <1>1, IngestAssumption DEF TypeOK
<1>3. \A tp \in TP : /\ Len(log[tp]) \in Nat /\ Len(log'[tp]) \in Nat /\ Len(log[tp]) <= Len(log'[tp])
                     /\ \A o \in 1..Len(log[tp]) : log'[tp][o] = log[tp][o]
  <2>1. CASE UNCHANGED log
    BY <2>1 DEF TypeOK
  <2>2. ASSUME NEW tp \in TP, NEW env \in Envelope, Produce(tp, env)
        PROVE  \A q \in TP : /\ Len(log[q]) \in Nat /\ Len(log'[q]) \in Nat /\ Len(log[q]) <= Len(log'[q])
                             /\ \A o \in 1..Len(log[q]) : log'[q][o] = log[q][o]
    BY <2>2 DEF Produce, TypeOK
  <2>3. UNCHANGED log \/ \E tp \in TP, env \in Envelope : Produce(tp, env)
    BY Zenon DEF Next, Poll, vars, disk, StartPoll, Visit, VisitLoadError, VisitReadError,
       EndPoll, Write, Commit, WriteError, CommitError, Crash
  <2>. QED BY <2>1, <2>2, <2>3
<1>4. s[2] <= Len(log'[s[1]])
  BY <1>1, <1>2, <1>3
<1>5. s \in Records'
  BY <1>1, <1>4 DEF Records, Source
<1>6. Writes(s[1], s[2])' = Writes(s[1], s[2])
  BY <1>1, <1>2, GraphGrows
<1>. QED BY <1>1, <1>2, <1>3, <1>5, <1>6

\* The record in flight is a record of the log.
LEMMA CurrentRecord ==
    ASSUME TypeOK, pc = "record"
    PROVE  <<cur, next>> \in Records /\ cur \in TP /\ next \in 1..Len(log[cur]) /\ log[cur][next] \in Envelope
BY IngestAssumption DEF TypeOK, Records, Source

\* What Upserted does.
LEMMA WriteMeans ==
    ASSUME TypeOK, Write
    PROVE  LET w == Writes(cur, next)[wpos + 1]
           IN  /\ pc = "record" /\ wpos + 1 \in 1..Len(Writes(cur, next))
               /\ DOMAIN graph' = DOMAIN graph \cup {w}
               /\ graph'[w] = <<cur, next>>
               /\ \A x \in DOMAIN graph : x # w => graph'[x] = graph[x]
               /\ UNCHANGED <<log, checkpoint, pc, cur, next, failed>> /\ wpos' = wpos + 1
<1>1. wpos \in Nat /\ wpos < Len(Writes(cur, next)) /\ pc = "record" /\ wpos' = wpos + 1
  BY DEF TypeOK, Write
<1>2. wpos + 1 \in 1..Len(Writes(cur, next))
  BY <1>1
<1>. QED BY <1>1, <1>2 DEF Write, Upserted

\* What makes a call is a record of the log.
LEMMA MakesMeans ==
    ASSUME NEW s, NEW w, Makes(log, s, w)
    PROVE  s \in Records /\ \E i \in 1..Len(Writes(s[1], s[2])) : Writes(s[1], s[2])[i] = w
<1>1. s = <<s[1], s[2]>>
  BY DEF Makes, Source
<1>. QED BY <1>1 DEF Makes, Records, Writes

\* Everything in the graph was made by a record of the log.
LEMMA ProvenanceStep ==
    ASSUME IInv, Provenance, [Next]_vars
    PROVE  Provenance'
<1>1. TypeOK /\ TypeOK'
  BY TypeStep DEF IInv
<1>2. ASSUME NEW s, NEW w, Makes(log, s, w)
      PROVE  Makes(log', s, w)
  <2>1. s \in Records
    BY <1>2, MakesMeans
  <2>2. s \in Records' /\ log'[s[1]][s[2]] = log[s[1]][s[2]]
    BY <1>1, <2>1, RecordsStable
  <2>3. s[2] <= Len(log'[s[1]])
    BY <2>2 DEF Records
  <2>. QED BY <1>2, <2>2, <2>3 DEF Makes
<1>3. CASE UNCHANGED graph
  BY <1>2, <1>3 DEF Provenance
<1>4. CASE Write
  <2> DEFINE w == Writes(cur, next)[wpos + 1]
  <2>1. /\ pc = "record" /\ wpos + 1 \in 1..Len(Writes(cur, next))
        /\ DOMAIN graph' = DOMAIN graph \cup {w} /\ graph'[w] = <<cur, next>>
        /\ \A x \in DOMAIN graph : x # w => graph'[x] = graph[x]
    BY <1>1, <1>4, WriteMeans
  <2>2. <<cur, next>> \in Records
    BY <1>1, <2>1, CurrentRecord
  <2>3. Makes(log, <<cur, next>>, w)
    BY <2>1, <2>2 DEF Makes, Records, Writes
  <2> HIDE DEF w
  <2>4. \A x \in DOMAIN graph' : Makes(log', graph'[x], x)
    BY <1>2, <2>1, <2>3 DEF Provenance
  <2>. QED BY <2>4 DEF Provenance
<1>. QED BY <1>3, <1>4, GraphStep

\* An edge is written after the nodes it joins.
LEMMA GroundedStep ==
    ASSUME IInv, Grounded, [Next]_vars
    PROVE  Grounded'
<1>1. TypeOK /\ TypeOK'
  BY TypeStep DEF IInv
<1>2. CASE UNCHANGED graph
  BY <1>2 DEF Grounded
<1>3. CASE Write
  <2> DEFINE P == Writes(cur, next)
             w == P[wpos + 1]
  <2>1. /\ pc = "record" /\ wpos + 1 \in 1..Len(P) /\ DOMAIN graph' = DOMAIN graph \cup {w}
    BY <1>1, <1>3, WriteMeans
  <2>2. Anchored(P)
    BY <1>1, <2>1, CurrentRecord, RecordCalls DEF Writes
  <2>3. \A i \in 1..wpos : P[i] \in DOMAIN graph
    BY <2>1 DEF IInv, InFlight
  <2>4. wpos \in Nat
    BY <1>1 DEF TypeOK
  <2> HIDE DEF P
  <2>5. w.kind = "edge" /\ w.id[1] # "HAS_FEEDBACK" =>
            UpsertNode(w.id[2]) \in DOMAIN graph /\ UpsertNode(w.id[3]) \in DOMAIN graph
    <3>1. PICK n \in 1..Len(P) : n = wpos + 1
      BY <2>1
    <3>2. n - 1 = wpos
      BY <2>4, <3>1
    <3>3. w = P[n]
      BY <3>1
    <3>4. P[n].kind = "edge" /\ P[n].id[1] # "HAS_FEEDBACK" =>
              /\ \E j \in 1..(n - 1) : P[j] = UpsertNode(P[n].id[2])
              /\ \E j \in 1..(n - 1) : P[j] = UpsertNode(P[n].id[3])
      BY <2>2, Zenon DEF Anchored
    <3>. QED BY <2>3, <3>2, <3>3, <3>4
  <2> HIDE DEF w
  <2>. QED BY <2>1, <2>5 DEF Grounded
<1>. QED BY <1>2, <1>3, GraphStep

\* The inductive invariant extended to what the graph holds.
GInv == IInv /\ Provenance /\ Grounded

\* The graph never holds an entity no record of the log writes.
THEOREM GraphInvariance == Spec => []GInv
<1>1. Init => GInv
  BY InitInv DEF GInv, Init, Provenance, Grounded
<1>2. GInv /\ [Next]_vars => GInv'
  BY TypeStep, CommittedStep, InFlightStep, ProvenanceStep, GroundedStep DEF GInv, IInv
<1>. QED BY <1>1, <1>2, PTL DEF Spec

\* A record that is committed and did not fail has its feedback edge's cycle too.
LEMMA EdgesAnchoredMeans ==
    ASSUME GInv
    PROVE  EdgesAnchored
<1>1. SUFFICES ASSUME NEW w \in DOMAIN graph, w.kind = "edge", w.id[1] = "HAS_FEEDBACK",
                      graph[w] \in Committed, graph[w] \notin failed
               PROVE  UpsertNode(w.id[2]) \in DOMAIN graph /\ UpsertNode(w.id[3]) \in DOMAIN graph
  BY DEF EdgesAnchored, GInv, Grounded
<1> DEFINE s == graph[w]
           P == Writes(s[1], s[2])
<1>2. InGraph(s[1], s[2])
  BY <1>1, CommittedMeans DEF CommittedIsWrittenUnlessFailed, GInv, IInv
<1>3. s \in Records /\ \E i \in 1..Len(P) : P[i] = w
  BY MakesMeans DEF GInv, Provenance
<1>4. log[s[1]][s[2]] \in Envelope
  BY <1>3, IngestAssumption DEF Records, Source, GInv, IInv, TypeOK
<1>5. Anchored(P)
  BY <1>4, RecordCalls DEF Writes
<1>6. \A i \in 1..Len(P) : P[i] \in DOMAIN graph
  BY <1>2 DEF InGraph
<1> HIDE DEF P
<1>. QED BY <1>1, <1>3, <1>5, <1>6 DEF Anchored

\* No dangling edge: at every moment every ingested edge has both endpoints, but
\* for the feedback edge of a record not committed yet or failed.
THEOREM NoDanglingEdge == Spec => []EdgesAnchored
<1>1. GInv => EdgesAnchored
  BY EdgesAnchoredMeans
<1>. QED BY <1>1, GraphInvariance, PTL

\* When all is ingested, messages and message records correspond one to one.
LEMMA OneMessageMeans ==
    ASSUME GInv
    PROVE  OneMessagePerRecord
<1> DEFINE MsgTypes == {"request", "response", "skill_request", "skill_response"}
           R == {s \in Records : log[s[1]][s[2]].type \in MsgTypes /\ log[s[1]][s[2]].payload # BadPayload}
           M == {w \in DOMAIN graph : w.kind = "node" /\ w.id[1] = "Message"}
           f == [s \in R |-> UpsertNode(MessageNodeID(s))]
<1>1. SUFFICES ASSUME CaughtUp PROVE Cardinality(M) = Cardinality(R)
  BY DEF OneMessagePerRecord
<1>2. ASSUME NEW s \in Records
      PROVE  log[s[1]][s[2]] \in Envelope /\ s = <<s[1], s[2]>> /\ s[1] \in TP
  BY IngestAssumption DEF Records, Source, GInv, IInv, TypeOK
<1>3. ASSUME NEW s \in R PROVE f[s] \in M
  <2>1. s \in Committed /\ s \notin failed
    BY <1>1 DEF CaughtUp
  <2>2. InGraph(s[1], s[2])
    BY <2>1, CommittedMeans DEF CommittedIsWrittenUnlessFailed, GInv, IInv
  <2>3. \E i \in 1..Len(Writes(s[1], s[2])) : Writes(s[1], s[2])[i] = UpsertNode(MessageNodeID(s))
    BY <1>2, RecordCalls DEF Writes
  <2>4. UpsertNode(MessageNodeID(s)) \in DOMAIN graph
    BY <2>2, <2>3 DEF InGraph
  <2>. QED BY <2>4 DEF UpsertNode, MessageNodeID
<1>4. ASSUME NEW w \in M PROVE \E s \in R : f[s] = w
  <2> DEFINE s == graph[w]
  <2>1. s \in Records /\ \E i \in 1..Len(Writes(s[1], s[2])) : Writes(s[1], s[2])[i] = w
    BY MakesMeans DEF GInv, Provenance
  <2> HIDE DEF s
  <2>2. OwnMessages(Writes(s[1], s[2]), log[s[1]][s[2]], s)
    BY <1>2, <2>1, RecordCalls DEF Writes
  <2>3. s \in R /\ w = UpsertNode(MessageNodeID(s))
    BY <2>1, <2>2 DEF OwnMessages
  <2>. QED BY <2>3
<1>5. \A s, t \in R : f[s] = f[t] => s = t
  BY DEF UpsertNode, MessageNodeID
<1>6. f \in Bijection(R, M)
  <2>1. f \in [R -> M]
    BY <1>3
  <2> HIDE DEF R, M, f
  <2>2. f \in Surjection(R, M)
    BY <1>4, <2>1 DEF Surjection
  <2>3. f \in Injection(R, M)
    BY <1>5, <2>1 DEF Injection, IsInjective
  <2>. QED BY <2>2, <2>3 DEF Bijection
<1>7. IsFiniteSet(R)
  <2>1. IsFiniteSet(Source)
    <3>1. IsFiniteSet(1..MaxLog)
      BY IngestAssumption, FS_Interval
    <3>. QED BY <3>1, IngestAssumption, FS_Product DEF Source
  <2>2. R \in SUBSET Source
    BY DEF Records
  <2>. QED BY <2>1, <2>2, FS_Subset
<1> HIDE DEF R, M, f
<1>. QED BY <1>6, <1>7, FS_Bijection DEF ExistsBijection

\* Exactly once for messages: however often records are replayed, when all is
\* ingested there is one Message node per message record.
THEOREM ExactlyOneMessage == Spec => []OneMessagePerRecord
<1>1. GInv => OneMessagePerRecord
  BY OneMessageMeans
<1>. QED BY <1>1, GraphInvariance, PTL

-----------------------------------------------------------------------------
(* Replays in order: without a lost checkpoint read, the last record stands.  *)

\* The record in flight is the first uncommitted one, and its calls so far are
\* the last word on what they wrote.
InOrder ==
    pc = "record" =>
        /\ next = checkpoint[cur] + 1
        /\ \A i \in 1..wpos : graph[Writes(cur, next)[i]] = <<cur, next>>

\* No committed record of an entity's partition wrote it after its last writer.
Newest ==
    \A w \in DOMAIN graph : \A o \in 1..checkpoint[graph[w][1]] :
        graph[w][2] < o /\ <<graph[w][1], o>> \notin failed => ~Makes(log, <<graph[w][1], o>>, w)

\* The record in flight stays the first uncommitted one when no checkpoint read is lost.
LEMMA InOrderStep ==
    ASSUME IInv, InOrder, [Next]_vars, "load" \notin FaultKinds
    PROVE  InOrder'
<1>1. TypeOK /\ TypeOK'
  BY TypeStep DEF IInv
<1>2. CASE pc' # "record"
  BY <1>2 DEF InOrder
<1>3. ASSUME UNCHANGED <<checkpoint, graph, pc, cur, next, wpos>>, pc = "record" PROVE InOrder'
  <2>1. <<cur, next>> \in Records /\ next = checkpoint[cur] + 1
        /\ \A i \in 1..wpos : graph[Writes(cur, next)[i]] = <<cur, next>>
    BY <1>1, <1>3, CurrentRecord DEF InOrder
  <2>2. cur \in TP /\ next \in 1..Len(log[cur])
    BY <1>1, <1>3, CurrentRecord
  <2>3. Writes(cur, next)' = Writes(cur, next)
    BY <1>1, <1>3, <2>2, GraphGrows DEF Writes
  <2>. QED BY <1>3, <2>1, <2>3 DEF InOrder
<1>4. ASSUME NEW tp \in TP, Visit(tp), pc' = "record" PROVE InOrder'
  <2>1. cur' = tp /\ next' = checkpoint[tp] + 1 /\ wpos' = 0 /\ checkpoint' = checkpoint
    BY <1>4 DEF Visit, ReadRecords, disk
  <2>. QED BY <2>1 DEF InOrder
<1>5. CASE Write
  <2>1. /\ pc = "record" /\ wpos + 1 \in 1..Len(Writes(cur, next))
        /\ graph'[Writes(cur, next)[wpos + 1]] = <<cur, next>>
        /\ \A x \in DOMAIN graph : x # Writes(cur, next)[wpos + 1] => graph'[x] = graph[x]
        /\ UNCHANGED <<log, checkpoint, pc, cur, next, failed>> /\ wpos' = wpos + 1
    BY <1>1, <1>5, WriteMeans
  <2>2. Writes(cur, next)' = Writes(cur, next)
    BY <2>1 DEF Writes
  <2>3. /\ next = checkpoint[cur] + 1
        /\ \A i \in 1..wpos : graph[Writes(cur, next)[i]] = <<cur, next>>
        /\ \A i \in 1..wpos : Writes(cur, next)[i] \in DOMAIN graph
    BY <2>1 DEF InOrder, IInv, InFlight
  <2>4. \A i \in 1..(wpos + 1) : i \in 1..wpos \/ i = wpos + 1
    BY <1>1 DEF TypeOK
  <2>5. \A i \in 1..(wpos + 1) : graph'[Writes(cur, next)[i]] = <<cur, next>>
    BY <2>1, <2>3, <2>4
  <2>. QED BY <2>1, <2>2, <2>3, <2>5 DEF InOrder
<1>6. CASE Commit /\ pc' = "record"
  <2>1. /\ next' = next + 1 /\ wpos' = 0 /\ cur' = cur /\ cur \in TP
        /\ checkpoint' = [checkpoint EXCEPT ![cur] = next] /\ checkpoint \in [TP -> 0..MaxLog]
    BY <1>1, <1>6 DEF Commit, TypeOK
  <2>. QED BY <2>1 DEF InOrder
<1>7. ASSUME NEW tp \in TP PROVE ~VisitLoadError(tp)
  BY DEF VisitLoadError, Fault
<1>8. CASE StartPoll \/ EndPoll \/ CommitError \/ Crash
  BY <1>2, <1>8 DEF StartPoll, EndPoll, CommitError, Crash
<1>9. ASSUME NEW tp \in TP, VisitReadError(tp) PROVE InOrder'
  BY <1>2, <1>9 DEF VisitReadError
<1>10. CASE WriteError
  BY <1>2, <1>3, <1>10 DEF WriteError, disk
<1>11. ASSUME NEW tp \in TP, NEW env \in Envelope, Produce(tp, env) PROVE InOrder'
  BY <1>2, <1>3, <1>11 DEF Produce, loop
<1>12. CASE UNCHANGED vars
  BY <1>2, <1>3, <1>12 DEF vars, disk, loop
<1>. QED BY <1>2, <1>4, <1>5, <1>6, <1>7, <1>8, <1>9, <1>10, <1>11, <1>12 DEF Next, Poll

\* No write leaves an entity with an older record than a committed one.
LEMMA NewestStep ==
    ASSUME GInv, InOrder, Newest, [Next]_vars
    PROVE  Newest'
<1>1. TypeOK /\ TypeOK' /\ IInv
  BY TypeStep DEF GInv, IInv
<1>2. failed \subseteq failed'
  BY <1>1, GraphGrows
<1>3. ASSUME NEW w \in DOMAIN graph
      PROVE  graph[w] \in Source /\ graph[w] = <<graph[w][1], graph[w][2]>> /\ graph[w][1] \in TP
  BY <1>1 DEF TypeOK, Source
<1>4. ASSUME NEW tp \in TP, NEW o \in 1..checkpoint[tp], NEW w, Makes(log', <<tp, o>>, w)
      PROVE  Makes(log, <<tp, o>>, w)
  <2>1. <<tp, o>> \in Source /\ o <= Len(log[tp])
    BY <1>1, IngestAssumption DEF TypeOK, Source
  <2>2. <<tp, o>> \in Records
    BY <2>1 DEF Records
  <2>3. log'[tp][o] = log[tp][o]
    BY <1>1, <2>2, RecordsStable
  <2>. QED BY <1>4, <2>1, <2>3 DEF Makes
<1>5. ASSUME UNCHANGED <<graph, checkpoint>> PROVE Newest'
  <2> SUFFICES ASSUME NEW w \in DOMAIN graph, NEW o \in 1..checkpoint[graph[w][1]],
                      graph[w][2] < o, <<graph[w][1], o>> \notin failed', Makes(log', <<graph[w][1], o>>, w)
               PROVE  FALSE
    BY <1>5 DEF Newest
  <2>1. Makes(log, <<graph[w][1], o>>, w)
    BY <1>3, <1>4
  <2>. QED BY <1>2, <2>1 DEF Newest
<1>6. CASE Write
  <2> DEFINE v == Writes(cur, next)[wpos + 1]
  <2>1. /\ pc = "record" /\ wpos + 1 \in 1..Len(Writes(cur, next))
        /\ DOMAIN graph' = DOMAIN graph \cup {v} /\ graph'[v] = <<cur, next>>
        /\ \A x \in DOMAIN graph : x # v => graph'[x] = graph[x]
        /\ UNCHANGED <<log, checkpoint, pc, cur, next, failed>>
    BY <1>1, <1>6, WriteMeans
  <2>2. next = checkpoint[cur] + 1 /\ checkpoint[cur] \in Nat
    BY <1>1, <2>1 DEF InOrder, TypeOK
  <2> HIDE DEF v
  <2> SUFFICES ASSUME NEW w \in DOMAIN graph', NEW o \in 1..checkpoint[graph'[w][1]],
                      graph'[w][2] < o, <<graph'[w][1], o>> \notin failed, Makes(log, <<graph'[w][1], o>>, w)
               PROVE  FALSE
    BY <2>1 DEF Newest
  <2>3. w # v
    BY <2>1, <2>2
  <2>4. w \in DOMAIN graph /\ graph'[w] = graph[w]
    BY <2>1, <2>3
  <2>. QED BY <2>4 DEF Newest
<1>7. CASE Commit
  <2>1. /\ pc = "record" /\ Returned /\ checkpoint' = [checkpoint EXCEPT ![cur] = next]
        /\ UNCHANGED <<log, graph, failed>> /\ cur \in TP /\ checkpoint \in [TP -> 0..MaxLog]
        /\ wpos \in Nat
    BY <1>1, <1>7 DEF Commit, TypeOK
  <2>2. /\ next = checkpoint[cur] + 1
        /\ \A i \in 1..wpos : graph[Writes(cur, next)[i]] = <<cur, next>>
        /\ erred => <<cur, next>> \in failed
    BY <1>1, <2>1 DEF InOrder, IInv, InFlight
  <2> SUFFICES ASSUME NEW w \in DOMAIN graph, NEW o \in 1..checkpoint'[graph[w][1]],
                      graph[w][2] < o, <<graph[w][1], o>> \notin failed, Makes(log, <<graph[w][1], o>>, w)
               PROVE  FALSE
    BY <2>1 DEF Newest
  <2>3. CASE o \in 1..checkpoint[graph[w][1]]
    BY <2>3 DEF Newest
  <2>4. CASE o \notin 1..checkpoint[graph[w][1]]
    <3>1. graph[w][1] = cur /\ o = next
      BY <1>3, <2>1, <2>2, <2>4
    <3>2. wpos = Len(Writes(cur, next))
      BY <2>1, <2>2, <3>1 DEF Returned
    <3>3. \E i \in 1..Len(Writes(cur, next)) : Writes(cur, next)[i] = w
      BY <3>1, MakesMeans
    <3>4. graph[w] = <<cur, next>>
      BY <2>2, <3>2, <3>3
    <3>5. next \in Nat
      BY <2>1, <2>2
    <3>. QED BY <3>1, <3>4, <3>5
  <2>. QED BY <2>3, <2>4
<1>8. CASE UNCHANGED graph /\ UNCHANGED checkpoint
  BY <1>5, <1>8
<1>. QED BY <1>6, <1>7, <1>8, GraphStep, CheckpointStep DEF Write

\* The inductive invariant of a run without lost checkpoint reads.
LInv == GInv /\ InOrder /\ Newest

\* No replay leaves an older value behind: when all is committed each entity
\* carries the last record its writer's partition has for it.  A lost checkpoint
\* read replays from the beginning and is excluded.
THEOREM NewestRecordStands ==
    ASSUME "load" \notin FaultKinds
    PROVE  Spec => []LastWordStands
<1>1. Init => LInv
  <2>1. Init => GInv
    BY InitInv DEF GInv, Init, Provenance, Grounded
  <2>. QED BY <2>1 DEF LInv, InOrder, Newest, Init
<1>2. LInv /\ [Next]_vars => LInv'
  BY TypeStep, CommittedStep, InFlightStep, ProvenanceStep, GroundedStep, InOrderStep, NewestStep
     DEF LInv, GInv, IInv
<1>3. LInv => LastWordStands
  <2> SUFFICES ASSUME LInv, CaughtUp, NEW w \in DOMAIN graph, NEW s \in Records,
                      s[1] = graph[w][1], s[2] > graph[w][2],
                      NEW i \in 1..Len(Writes(s[1], s[2])), Writes(s[1], s[2])[i] = w
               PROVE  FALSE
    BY DEF LastWordStands
  <2>1. s \in Source /\ s = <<s[1], s[2]>> /\ s[2] <= Len(log[s[1]]) /\ s[2] \in Nat /\ s[2] >= 1
    BY IngestAssumption DEF Records, Source
  <2>2. Makes(log, s, w)
    BY <2>1 DEF Makes, Writes
  <2>3. s \in Committed /\ s \notin failed
    BY DEF CaughtUp
  <2>4. s[2] \in 1..checkpoint[s[1]] /\ graph[w][2] \in Nat
    <3>1. TypeOK
      BY DEF LInv, GInv, IInv
    <3>2. s[2] <= checkpoint[s[1]] /\ checkpoint[s[1]] \in Nat
      BY <2>1, <2>3, <3>1 DEF Committed, TypeOK, Source
    <3>3. graph[w] \in Source
      BY <3>1 DEF TypeOK
    <3>. QED BY <2>1, <3>2, <3>3 DEF Source
  <2>5. graph[w][2] < s[2]
    BY <2>1, <2>4
  <2>. QED BY <2>1, <2>2, <2>3, <2>4, <2>5 DEF LInv, Newest
<1>. QED BY <1>1, <1>2, <1>3, PTL DEF Spec
=============================================================================
