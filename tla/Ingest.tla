-------------------------------- MODULE Ingest --------------------------------
(***************************************************************************)
(* Package ingest: the Processor's poll loop over the topic-partitions of a *)
(* SegmentReader, the handlers' writes one graph call at a time, and the    *)
(* checkpoint node committed after every record.  Producers append to the  *)
(* log at any moment; the process may crash between any two graph calls.   *)
(*                                                                         *)
(* Offsets count from 1 here, and 0 stands for "no checkpoint" (-1 in the  *)
(* code).  The graph maps what was upserted to the record that wrote it    *)
(* last.  Nothing else writes to the graph.                                *)
(***************************************************************************)
EXTENDS Handlers, FiniteSets

CONSTANTS
    TP,             \* topic-partitions
    Envelope,       \* the envelopes producers may send
    BatchSize,      \* ProcessorConfig.BatchSize
    FaultKinds,     \* which faults may happen
    MaxLog,         \* bound on the records of one partition
    MaxFaults       \* bound on the faults of one behaviour

ASSUME IngestAssumption ==
    /\ BatchSize \in Nat \ {0} /\ MaxLog \in Nat /\ MaxFaults \in Nat
    /\ FaultKinds \subseteq {"crash", "write", "commit", "load", "read"}
    /\ IsFiniteSet(TP)

\* A payload that unmarshals has lists of a length: []string in envelope.go.
ASSUME EnvelopeAssumption ==
    \A env \in Envelope : env.payload # BadPayload =>
        /\ env.type = "memory" => Len(env.payload.refs) \in Nat
        /\ env.type = "roster" => Len(env.payload.skills) \in Nat

VARIABLES
    log,            \* records per partition, in offset order
    graph,          \* what was upserted -> source of its last write
    checkpoint,     \* the committed offset of each partition
    pc,             \* "idle" between polls, "scan" in poll's loop, "record"
    todo,           \* partitions this poll has still to visit
    cur,            \* the partition being read
    next, last,     \* the batch: the offset being processed and its end
    wpos,           \* graph calls of the current record that succeeded
    erred,          \* ProcessRecord returned an error
    failed,         \* history: records one of whose graph calls failed
    faults          \* faults so far

disk == <<log, graph, checkpoint>>
loop == <<pc, todo, cur, next, last, wpos, erred>>
vars == <<disk, loop, failed, faults>>

Source == TP \X (1..MaxLog)

\* The graph calls record o of partition tp makes.
Writes(tp, o) == ProcessRecord(log[tp][o], <<tp, o>>)

\* Type invariant.
TypeOK ==
    /\ log \in [TP -> Seq(Envelope)]
    /\ \A tp \in TP : Len(log[tp]) <= MaxLog
    /\ graph \in [DOMAIN graph -> Source]
    /\ checkpoint \in [TP -> 0..MaxLog]
    /\ \A tp \in TP : checkpoint[tp] <= Len(log[tp])
    /\ pc \in {"idle", "scan", "record"}
    /\ todo \subseteq TP
    /\ pc = "record" => /\ cur \in todo /\ 1 <= next /\ next <= last /\ last <= Len(log[cur])
                        /\ next \in Nat /\ last \in Nat
    /\ wpos \in Nat /\ erred \in BOOLEAN
    /\ failed \subseteq Source
    /\ faults \in 0..MaxFaults

Init ==
    /\ log = [tp \in TP |-> <<>>]
    /\ graph = [w \in {} |-> w]
    /\ checkpoint = [tp \in TP |-> 0]
    /\ pc = "idle" /\ todo = {} /\ cur \in TP /\ next = 0 /\ last = 0
    /\ wpos = 0 /\ erred = FALSE
    /\ failed = {} /\ faults = 0

\* A fault of the given kind may happen now, and is counted.
Fault(kind) ==
    /\ kind \in FaultKinds
    /\ faults < MaxFaults
    /\ faults' = faults + 1

-----------------------------------------------------------------------------
\* A producer appends a record.
Produce(tp, env) ==
    /\ Len(log[tp]) < MaxLog
    /\ log' = [log EXCEPT ![tp] = Append(@, env)]
    /\ UNCHANGED <<graph, checkpoint, loop, failed, faults>>

\* The ticker fires: list the partitions that have records.
StartPoll ==
    /\ pc = "idle"
    /\ pc' = "scan"
    /\ todo' = {tp \in TP : log[tp] # <<>>}
    /\ UNCHANGED <<disk, cur, next, last, wpos, erred, failed, faults>>

\* Faulty variant: a record that is alone in its batch is not returned.
ReadRecordsNotLast(tp, after) ==
    IF after + 1 < Len(log[tp])
    THEN /\ pc' = "record" /\ cur' = tp /\ next' = after + 1 /\ last' = after + 1
         /\ wpos' = 0 /\ erred' = FALSE
         /\ UNCHANGED todo
    ELSE /\ todo' = todo \ {tp}
         /\ UNCHANGED <<pc, cur, next, last, wpos, erred>>
\* ReadRecords: the offsets after+1 .. the end of the batch.  An empty batch
\* ends the visit, otherwise the first record is processed.
ReadRecords(tp, after) ==
    LET end == IF Len(log[tp]) < after + BatchSize THEN Len(log[tp]) ELSE after + BatchSize
    IN  IF after < end
        THEN /\ pc' = "record" /\ cur' = tp /\ next' = after + 1 /\ last' = end
             /\ wpos' = 0 /\ erred' = FALSE
             /\ UNCHANGED todo
        ELSE /\ todo' = todo \ {tp}
             /\ UNCHANGED <<pc, cur, next, last, wpos, erred>>

\* One turn of poll's loop, in the order a Go map iteration happens to give.
Visit(tp) ==
    /\ pc = "scan" /\ tp \in todo
    /\ ReadRecords(tp, checkpoint[tp])
    /\ UNCHANGED <<disk, failed, faults>>

\* checkpoint.Load answers -1 to any error of the graph read, not only to a
\* missing checkpoint: the partition is read again from its beginning.
VisitLoadError(tp) ==
    /\ pc = "scan" /\ tp \in todo
    /\ Fault("load")
    /\ ReadRecords(tp, 0)
    /\ UNCHANGED <<disk, failed>>

\* The reader fails: the partition is left for the next poll.
VisitReadError(tp) ==
    /\ pc = "scan" /\ tp \in todo
    /\ Fault("read")
    /\ todo' = todo \ {tp}
    /\ UNCHANGED <<disk, pc, cur, next, last, wpos, erred, failed>>

EndPoll ==
    /\ pc = "scan" /\ todo = {}
    /\ pc' = "idle"
    /\ UNCHANGED <<disk, todo, cur, next, last, wpos, erred, failed, faults>>

\* Faulty variant: an entity that exists keeps the value of its first writer.
FirstWriterWins(w) ==
    [x \in DOMAIN graph \cup {w} |-> IF x \in DOMAIN graph THEN graph[x] ELSE <<cur, next>>]
\* An upsert: the entity exists afterwards, with this record's properties on top.
Upserted(w) ==
    [x \in DOMAIN graph \cup {w} |-> IF x = w THEN <<cur, next>> ELSE graph[x]]

\* The next graph call of the record being processed.
Write ==
    /\ pc = "record" /\ ~erred /\ wpos < Len(Writes(cur, next))
    /\ graph' = Upserted(Writes(cur, next)[wpos + 1])
    /\ wpos' = wpos + 1
    /\ UNCHANGED <<log, checkpoint, pc, todo, cur, next, last, erred, failed, faults>>

\* The graph call fails: the handler returns the error, which poll only logs.
WriteError ==
    /\ pc = "record" /\ ~erred /\ wpos < Len(Writes(cur, next))
    /\ Fault("write")
    /\ erred' = TRUE
    /\ failed' = failed \cup {<<cur, next>>}
    /\ UNCHANGED <<disk, pc, todo, cur, next, last, wpos>>

\* ProcessRecord has returned, with or without an error.
\* Faulty variant: the commit does not wait for the record's last graph call.
ReturnedEarly == wpos + 1 >= Len(Writes(cur, next)) \/ erred
Returned == wpos = Len(Writes(cur, next)) \/ erred

\* Commit the offset of this record; go on to the next one of the batch.
Commit ==
    /\ pc = "record" /\ Returned
    /\ checkpoint' = [checkpoint EXCEPT ![cur] = next]
    /\ IF next < last
       THEN /\ next' = next + 1 /\ wpos' = 0 /\ erred' = FALSE
            /\ UNCHANGED <<pc, todo>>
       ELSE /\ pc' = "scan" /\ todo' = todo \ {cur}
            /\ UNCHANGED <<next, wpos, erred>>
    /\ UNCHANGED <<log, graph, cur, last, failed, faults>>

\* The commit fails: poll returns, and the next tick starts a new one.
CommitError ==
    /\ pc = "record" /\ Returned
    /\ Fault("commit")
    /\ pc' = "idle" /\ todo' = {}
    /\ UNCHANGED <<disk, cur, next, last, wpos, erred, failed>>

\* The process dies and is restarted; only what Badger holds survives.
Crash ==
    /\ Fault("crash")
    /\ pc' = "idle" /\ todo' = {}
    /\ UNCHANGED <<disk, cur, next, last, wpos, erred, failed>>

Poll ==
    \/ StartPoll
    \/ \E tp \in TP : Visit(tp)
    \/ EndPoll
    \/ Write
    \/ Commit

Next ==
    \/ \E tp \in TP, env \in Envelope : Produce(tp, env)
    \/ Poll
    \/ \E tp \in TP : VisitLoadError(tp) \/ VisitReadError(tp)
    \/ WriteError \/ CommitError \/ Crash

Spec == Init /\ [][Next]_vars

\* The poll goroutine is scheduled by the Go runtime and its ticker never stops.
FairSpec == Spec /\ WF_vars(Poll)

-----------------------------------------------------------------------------
(* Properties.                                                             *)

Records == {s \in Source : s[2] <= Len(log[s[1]])}
Committed == {s \in Records : s[2] <= checkpoint[s[1]]}
InGraph(tp, o) == \A i \in 1..Len(Writes(tp, o)) : Writes(tp, o)[i] \in DOMAIN graph
CaughtUp == Committed = Records /\ failed = {}

\* A committed record is wholly in the graph unless one of its own graph calls
\* failed: neither a crash, a failed commit nor a lost checkpoint read loses it.
CommittedIsWrittenUnlessFailed ==
    \A s \in Committed : s \in failed \/ InGraph(s[1], s[2])

\* Replays after crashes, failed commits and lost checkpoints make no duplicate
\* and no two records share a message: one Message node per message record.
OneMessagePerRecord ==
    CaughtUp =>
        Cardinality({w \in DOMAIN graph : w.kind = "node" /\ w.id[1] = "Message"})
        = Cardinality({s \in Records :
              /\ log[s[1]][s[2]].type \in {"request", "response", "skill_request", "skill_response"}
              /\ log[s[1]][s[2]].payload # BadPayload})

\* Every ingested edge has both endpoints at every moment, although UpsertEdge
\* does not check them.  The exception is the feedback edge of a record that is
\* not committed yet, or failed: its cycle is written after it.
EdgesAnchored ==
    \A w \in DOMAIN graph :
        w.kind = "edge" =>
            \/ UpsertNode(w.id[2]) \in DOMAIN graph /\ UpsertNode(w.id[3]) \in DOMAIN graph
            \/ /\ w.id[1] = "HAS_FEEDBACK"
               /\ graph[w] \notin Committed \/ graph[w] \in failed

\* Once everything is committed, each entity carries the properties of the last
\* record that some partition has for it: no replay leaves older values behind.
LastWordStands ==
    CaughtUp /\ pc = "idle" =>
        \A w \in DOMAIN graph :
            \A s \in Records :
                s[1] = graph[w][1] /\ s[2] > graph[w][2]
                    => \A i \in 1..Len(Writes(s[1], s[2])) : Writes(s[1], s[2])[i] # w

\* A commit never jumps over a record.
NoSkip == [][\A tp \in TP : checkpoint'[tp] <= checkpoint[tp] + 1]_vars

\* Once producers and faults have stopped, every record is committed for good.
CatchesUp == <>[](Committed = Records)
=============================================================================
