--------------------------- MODULE ReflectionProofs ---------------------------
(* Proofs about Reflection, for any agents, signals, requests, calendar and   *)
(* number of faults.                                                          *)
EXTENDS Reflection, TLAPS

\* An execution, a mark or a request in progress is about a cycle.
Busy ==
    /\ \A r \in Runner : run[r].pc = "score" => run[r].cycle \in Cycle
    /\ sched.pc = "mark" => sched.cycle \in Cycle
    /\ \A u \in User : req[u].pc # "idle" => req[u].cycle \in Cycle

\* The owner may still be asked about c without another execution: the cycle was
\* listed for it, or will be, unless it is the one just asked about.
Asking(c) ==
    \/ c \in sched.todo
    \/ node[c].fb \in {"PENDING", "NEEDS_FEEDBACK"} /\ ~(sched.pc = "mark" /\ sched.cycle = c)

\* Every request to come is paid for by an execution or by a fault.
Budget ==
    \A c \in Cycle :
        published[c] + (IF Asking(c) THEN 1 ELSE 0) <= schedRuns[c] + brainRuns[c] + faults

\* The grace period of c is over.
GraceOver(c) == firstDone[c] # Never /\ firstDone[c] + Grace <= clock

\* A recorded completion is not before the first one.
Completed(c, rec) ==
    rec.completedAt # Never => firstDone[c] # Never /\ firstDone[c] <= rec.completedAt

\* What every step of the waiting for feedback leaves behind.
Waiting ==
    \A c \in Cycle :
        /\ firstDone[c] <= clock
        /\ Completed(c, node[c])
        /\ node[c].status = "COMPLETED" => node[c].completedAt # Never
        /\ node[c].fb = "NEEDS_FEEDBACK" => GraceOver(c)
        /\ node[c].fb = "REQUESTED" => published[c] > 0
        /\ published[c] > 0 => GraceOver(c)
        /\ c \in sched.todo => /\ Completed(c, snap[c]) /\ snap[c].completedAt # Never
                               /\ snap[c].fb = "NEEDS_FEEDBACK" => GraceOver(c)

\* The listing is not of the future, and a marked cycle was asked about.
Listing ==
    /\ sched.now <= clock
    /\ sched.pc = "mark" => published[sched.cycle] > 0

\* The inductive invariant.
IInv == TypeOK /\ Busy /\ Budget /\ Waiting /\ Listing

-----------------------------------------------------------------------------
\* The records of the executions, of the scheduler and of the requests.
RunRec   == [pc : {"idle", "score"}, cycle : Cycle \cup {NoCycle}, todo : SUBSET Signal]
SchedRec == [pc : {"idle", "cycles", "list", "check", "mark"}, now : Time,
             agents : SUBSET Agent, cycle : Cycle \cup {NoCycle}, todo : SUBSET Cycle]
ReqRec   == [pc : {"idle", "attached", "received", "override", "waive"},
             cycle : Cycle \cup {NoCycle}, topic : BOOLEAN, todo : SUBSET Signal]

\* The type invariant, by the named sets of records.
LEMMA TypeParts ==
    TypeOK <=> /\ clock \in Time
               /\ node \in [Cycle -> NodeRec]
               /\ links \in [Cycle -> [Signal -> {"none", "scored", "override"}]]
               /\ run \in [Runner -> RunRec]
               /\ sched \in SchedRec
               /\ lastRun \in Time \cup {Never}
               /\ snap \in [Cycle -> NodeRec]
               /\ req \in [User -> ReqRec]
               /\ published \in [Cycle -> Nat]
               /\ schedRuns \in [Cycle -> Nat] /\ brainRuns \in [Cycle -> Nat]
               /\ firstDone \in [Cycle -> Time \cup {Never}]
               /\ requests \in 0..MaxRequests
               /\ faults \in 0..MaxFaults
BY Zenon DEF TypeOK, RunRec, SchedRec, ReqRec

\* The cycle of an agent's day is one of the cycles.
LEMMA CycleOf ==
    ASSUME NEW a \in Agent, NEW t \in Time
    PROVE  CycleNodeID(a, t) \in Cycle
<1>1. t \in Nat /\ t <= MaxClock /\ DayLen \in Nat \ {0} /\ MaxClock \in Nat
  BY ReflectionAssumption DEF Time
<1>2. t \div DayLen \in Nat /\ MaxClock \div DayLen \in Nat
  BY <1>1
<1>3. t \div DayLen <= MaxClock \div DayLen
  BY <1>1
<1>4. t \div DayLen \in 0..(MaxClock \div DayLen)
  BY <1>2, <1>3
<1>. QED BY <1>4 DEF CycleNodeID, Cycle

\* What an upsert stores is a node.
LEMMA NodeTypes ==
    ASSUME TypeOK, NEW rec \in {NoNode} \cup {node[c] : c \in Cycle}
    PROVE  /\ \A f \in FBStatus : [rec EXCEPT !.fb = f] \in NodeRec
           /\ [rec EXCEPT !.status = "RUNNING", !.fb = "PENDING"] \in NodeRec
           /\ [rec EXCEPT !.status = "COMPLETED", !.completedAt = clock] \in NodeRec
<1>1. NoNode \in NodeRec
  BY DEF NoNode, NodeRec, FBStatus
<1>2. rec \in NodeRec /\ clock \in Time
  BY <1>1 DEF TypeOK
<1>. QED BY <1>2 DEF NodeRec, FBStatus

\* Faults are bounded.
LEMMA FaultType ==
    ASSUME TypeOK, Fault
    PROVE  faults' \in 0..MaxFaults
BY ReflectionAssumption DEF Fault, TypeOK

\* A write that may fail keeps the types.
LEMMA UpsertType ==
    ASSUME TypeOK, NEW c \in Cycle, NEW merged \in NodeRec, NEW alone \in NodeRec,
           UpsertNode(c, merged, alone)
    PROVE  node' \in [Cycle -> NodeRec] /\ faults' \in 0..MaxFaults
<1>1. CASE node' = [node EXCEPT ![c] = merged] /\ UNCHANGED faults
  BY <1>1 DEF TypeOK
<1>2. CASE node' = [node EXCEPT ![c] = alone] /\ Fault
  BY <1>2, FaultType DEF TypeOK
<1>. QED BY <1>1, <1>2 DEF UpsertNode

LEMMA BestEffortType ==
    ASSUME TypeOK, NEW c \in Cycle, NEW f \in FBStatus, BestEffort(c, f)
    PROVE  node' \in [Cycle -> NodeRec] /\ faults' \in 0..MaxFaults
<1>1. CASE UpsertNode(c, [node[c] EXCEPT !.fb = f], [NoNode EXCEPT !.fb = f])
  BY <1>1, NodeTypes, UpsertType
<1>2. CASE Fault /\ UNCHANGED node
  BY <1>2, FaultType DEF TypeOK
<1>. QED BY <1>1, <1>2 DEF BestEffort

\* The invariant holds at first.
LEMMA InitInv == Init => IInv
<1> SUFFICES ASSUME Init PROVE IInv
  OBVIOUS
<1>1. NoNode \in NodeRec /\ 0 \in Time /\ 0 \in 0..MaxRequests /\ 0 \in 0..MaxFaults
  BY ReflectionAssumption DEF NoNode, NodeRec, FBStatus, Never, Time
<1>2. TypeOK
  BY <1>1 DEF Init, TypeOK, AtRest, NoRun, NoReq
<1>3. Busy
  BY DEF Init, Busy, AtRest, NoRun, NoReq
<1>4. Budget /\ Waiting /\ Listing
  BY DEF Init, Budget, Asking, Waiting, Listing, Completed, AtRest, NoNode, Never
<1>. QED BY <1>2, <1>3, <1>4 DEF IInv

\* Type correctness of each step.
LEMMA TypeStep ==
    ASSUME TypeOK, Busy, [Next]_vars
    PROVE  TypeOK'
<1> USE ReflectionAssumption
<1>1. CASE Advance
  <2>1. clock' \in Time
    BY <1>1 DEF Advance, TypeOK, Time
  <2>. QED BY <1>1, <2>1 DEF Advance, store, history, TypeOK, RunRec, SchedRec, ReqRec
<1>2. CASE StartTick
  <2>1. sched' \in SchedRec
    <3>1. [AtRest EXCEPT !.pc = "list"] \in SchedRec
      BY DEF AtRest, SchedRec, Time
    <3>2. [AtRest EXCEPT !.pc = "cycles", !.now = clock, !.agents = Agent] \in SchedRec
      BY DEF AtRest, SchedRec, TypeOK
    <3>. QED BY <1>2, <3>1, <3>2 DEF StartTick
  <2>. QED BY <1>2, <2>1 DEF StartTick, store, history, TypeOK, RunRec, SchedRec, ReqRec
<1>3. CASE EndCycles
  <2>1. sched' \in SchedRec
    BY <1>3 DEF EndCycles, AtRest, Time, SchedRec
  <2>2. lastRun' \in Time \cup {Never}
    BY <1>3 DEF EndCycles, TypeOK
  <2>. QED BY <1>3, <2>1, <2>2 DEF EndCycles, store, history, TypeOK, RunRec, SchedRec, ReqRec
<1>4. CASE ListCycles
  <2>1. sched' \in SchedRec
    BY <1>4 DEF ListCycles, AtRest, Time, TypeOK, SchedRec
  <2>2. NoNode \in NodeRec
    BY DEF NoNode, NodeRec, FBStatus
  <2>3. snap' \in [Cycle -> NodeRec]
    BY <1>4, <2>2 DEF ListCycles, TypeOK
  <2>. QED BY <1>4, <2>1, <2>3 DEF ListCycles, store, history, TypeOK, RunRec, SchedRec, ReqRec
<1>5. CASE MarkRequested
  <2>1. sched' \in SchedRec
    BY <1>5, TypeParts DEF MarkRequested, SchedRec
  <2>2. node' \in [Cycle -> NodeRec] /\ faults' \in 0..MaxFaults
    <3>1. sched.cycle \in Cycle
      BY <1>5 DEF MarkRequested, Busy
    <3>2. "REQUESTED" \in FBStatus
      BY DEF FBStatus
    <3>. QED BY <1>5, <3>1, <3>2, BestEffortType DEF MarkRequested
  <2>. QED BY <1>5, <2>1, <2>2 DEF MarkRequested, history, TypeOK, RunRec, SchedRec, ReqRec
<1>6. CASE EndTick
  <2>1. sched' \in SchedRec
    BY <1>6 DEF EndTick, AtRest, Time, SchedRec
  <2>2. NoNode \in NodeRec
    BY DEF NoNode, NodeRec, FBStatus
  <2>. QED BY <1>6, <2>1, <2>2 DEF EndTick, store, history, TypeOK, RunRec, SchedRec, ReqRec
<1>7. ASSUME NEW r \in Runner, NEW c \in Cycle, NEW found \in SUBSET Signal, ExecuteBegin(r, c, found)
      PROVE  /\ node' \in [Cycle -> NodeRec] /\ faults' \in 0..MaxFaults
             /\ run' \in [Runner -> RunRec]
  <2>0. /\ [node[c] EXCEPT !.status = "RUNNING", !.fb = "PENDING"] \in NodeRec
        /\ [NoNode EXCEPT !.status = "RUNNING", !.fb = "PENDING"] \in NodeRec
    BY NodeTypes
  <2>1. CASE /\ Fault /\ UNCHANGED run
             /\ node' \in {node, [node EXCEPT ![c] = [node[c] EXCEPT !.status = "RUNNING", !.fb = "PENDING"]]}
    BY <2>0, <2>1, FaultType, TypeParts
  <2>2. CASE /\ UpsertNode(c, [node[c] EXCEPT !.status = "RUNNING", !.fb = "PENDING"],
                              [NoNode EXCEPT !.status = "RUNNING", !.fb = "PENDING"])
             /\ run' = [run EXCEPT ![r] = [pc |-> "score", cycle |-> c, todo |-> found]]
    <3>1. [pc |-> "score", cycle |-> c, todo |-> found] \in RunRec
      BY DEF RunRec
    <3>2. run' \in [Runner -> RunRec]
      BY <2>2, <3>1, TypeParts
    <3>. QED BY <2>0, <2>2, <3>2, UpsertType
  <2>. QED BY <1>7, <2>1, <2>2 DEF ExecuteBegin
<1>8. ASSUME NEW a \in Agent, NEW found \in SUBSET Signal, RunAgent(a, found) PROVE TypeOK'
  <2> DEFINE c == CycleNodeID(a, sched.now)
  <2>1. c \in Cycle
    BY CycleOf DEF TypeOK
  <2> HIDE DEF c
  <2>2. ExecuteBegin("scheduler", c, found) /\ "scheduler" \in Runner
    BY <1>8 DEF RunAgent, Runner, c
  <2>3. /\ node' \in [Cycle -> NodeRec] /\ faults' \in 0..MaxFaults
        /\ run' \in [Runner -> RunRec]
    BY <1>7, <2>1, <2>2
  <2>4. schedRuns' \in [Cycle -> Nat]
    BY <1>8, <2>1 DEF RunAgent, TypeOK, c
  <2>5. sched' \in SchedRec
    BY <1>8, TypeParts DEF RunAgent, SchedRec
  <2>. QED BY <1>8, <2>3, <2>4, <2>5 DEF RunAgent, TypeOK, RunRec, SchedRec, ReqRec
<1>9. ASSUME NEW r \in Brain, NEW a \in Agent, NEW found \in SUBSET Signal, Reflect(r, a, found) PROVE TypeOK'
  <2> DEFINE c == CycleNodeID(a, clock)
  <2>1. c \in Cycle
    BY CycleOf DEF TypeOK
  <2> HIDE DEF c
  <2>2. ExecuteBegin(r, c, found) /\ r \in Runner
    BY <1>9 DEF Reflect, Runner, c
  <2>3. /\ node' \in [Cycle -> NodeRec] /\ faults' \in 0..MaxFaults
        /\ run' \in [Runner -> RunRec]
    BY <1>7, <2>1, <2>2
  <2>4. brainRuns' \in [Cycle -> Nat]
    BY <1>9, <2>1 DEF Reflect, TypeOK, c
  <2>. QED BY <1>9, <2>3, <2>4 DEF Reflect, TypeOK, RunRec, SchedRec, ReqRec
<1>10. ASSUME NEW r \in Runner, NEW s \in Signal, ScoreNode(r, s) PROVE TypeOK'
  <2>1. run' \in [Runner -> RunRec]
    BY <1>10, TypeParts DEF ScoreNode, RunRec
  <2>2. links' \in [Cycle -> [Signal -> {"none", "scored", "override"}]] /\ faults' \in 0..MaxFaults
    <3>1. CASE links' = [links EXCEPT ![run[r].cycle][s] = "scored"] /\ UNCHANGED faults
      BY <3>1 DEF TypeOK
    <3>2. CASE Fault /\ UNCHANGED links
      BY <3>2, FaultType DEF TypeOK
    <3>. QED BY <1>10, <3>1, <3>2 DEF ScoreNode
  <2>. QED BY <1>10, <2>1, <2>2 DEF ScoreNode, history, TypeOK, RunRec, SchedRec, ReqRec
<1>11. ASSUME NEW r \in Runner, Complete(r) PROVE TypeOK'
  <2>1. run' \in [Runner -> RunRec]
    BY <1>11, TypeParts DEF Complete, NoRun, RunRec
  <2>2. run[r].cycle \in Cycle
    BY <1>11 DEF Complete, Busy
  <2>3. node' \in [Cycle -> NodeRec] /\ faults' \in 0..MaxFaults
    <3>1. CASE UpsertNode(run[r].cycle,
                          [node[run[r].cycle] EXCEPT !.status = "COMPLETED", !.completedAt = clock],
                          [NoNode EXCEPT !.status = "COMPLETED", !.completedAt = clock])
      BY <2>2, <3>1, NodeTypes, UpsertType
    <3>2. CASE Fault /\ UNCHANGED node
      BY <3>2, FaultType DEF TypeOK
    <3>. QED BY <1>11, <3>1, <3>2 DEF Complete
  <2>4. firstDone' \in [Cycle -> Time \cup {Never}]
    BY <1>11, <2>2 DEF Complete, TypeOK
  <2>. QED BY <1>11, <2>1, <2>3, <2>4 DEF Complete, TypeOK, RunRec, SchedRec, ReqRec
<1>12. ASSUME NEW c \in Cycle, CheckGrace(c) PROVE TypeOK'
  <2>1. sched' \in SchedRec
    BY <1>12, TypeParts DEF CheckGrace, SchedRec
  <2>2. "NEEDS_FEEDBACK" \in FBStatus
    BY DEF FBStatus
  <2>3. node' \in [Cycle -> NodeRec] /\ faults' \in 0..MaxFaults
    BY <1>12, <2>2, BestEffortType, TypeParts DEF CheckGrace
  <2>. QED BY <1>12, <2>1, <2>3 DEF CheckGrace, history, TypeOK, RunRec, SchedRec, ReqRec
<1>13. ASSUME NEW c \in Cycle, Publish(c) PROVE TypeOK'
  <2>1. sched' \in SchedRec
    <3>1. sched.todo \ {c} \subseteq Cycle
      BY DEF TypeOK
    <3>. QED BY <1>13, <3>1, TypeParts DEF Publish, SchedRec
  <2>2. published' \in [Cycle -> Nat] /\ faults' \in 0..MaxFaults
    <3>1. CASE Fault /\ UNCHANGED published
      BY <3>1, FaultType DEF TypeOK
    <3>2. CASE published' = [published EXCEPT ![c] = @ + 1] /\ UNCHANGED faults
      BY <3>2 DEF TypeOK
    <3>. QED BY <1>13, <3>1, <3>2 DEF Publish
  <2>. QED BY <1>13, <2>1, <2>2 DEF Publish, store, TypeOK, RunRec, SchedRec, ReqRec
<1>14. ASSUME NEW u \in User, NEW c \in Cycle, WaiveRead(u, c) \/ \E topic \in BOOLEAN : AttachFeedback(u, c, topic)
       PROVE  TypeOK'
  <2>1. req' \in [User -> ReqRec]
    <3>1. \A topic \in BOOLEAN : /\ [pc |-> "waive", cycle |-> c, topic |-> topic, todo |-> {}] \in ReqRec
                                 /\ [pc |-> "attached", cycle |-> c, topic |-> topic, todo |-> {}] \in ReqRec
      BY DEF ReqRec
    <3>. QED BY <1>14, <3>1, TypeParts DEF WaiveRead, AttachFeedback
  <2>2. requests' \in 0..MaxRequests
    BY <1>14 DEF WaiveRead, AttachFeedback, NewRequest, TypeOK
  <2>. QED BY <1>14, <2>1, <2>2 DEF WaiveRead, AttachFeedback, store, TypeOK, RunRec, SchedRec, ReqRec
<1>15. ASSUME NEW u \in User, Receive(u) PROVE TypeOK'
  <2>1. req' \in [User -> ReqRec]
    <3>1. req[u] \in ReqRec /\ req \in [User -> ReqRec]
      BY TypeParts
    <3>2. NoReq \in ReqRec /\ [req[u] EXCEPT !.pc = "received"] \in ReqRec
      BY <3>1 DEF NoReq, ReqRec
    <3>3. \/ req' = [req EXCEPT ![u] = [req[u] EXCEPT !.pc = "received"]]
          \/ req' = [req EXCEPT ![u] = NoReq]
      BY <1>15, <3>1 DEF Receive
    <3>. QED BY <3>1, <3>2, <3>3
  <2>2. req[u].cycle \in Cycle
    BY <1>15 DEF Receive, Busy
  <2>3. node' \in [Cycle -> NodeRec] /\ faults' \in 0..MaxFaults
    <3>1. CASE Fault /\ UNCHANGED node
      BY <3>1, FaultType DEF TypeOK
    <3>2. CASE UpsertNode(req[u].cycle, [node[req[u].cycle] EXCEPT !.fb = "RECEIVED"],
                          [NoNode EXCEPT !.fb = "RECEIVED"])
      BY <2>2, <3>2, NodeTypes, UpsertType DEF FBStatus
    <3>. QED BY <1>15, <3>1, <3>2 DEF Receive
  <2>. QED BY <1>15, <2>1, <2>3 DEF Receive, history, TypeOK, RunRec, SchedRec, ReqRec
<1>16. ASSUME NEW u \in User, ReadLinks(u) \/ EndFeedback(u) PROVE TypeOK'
  <2>1. req' \in [User -> ReqRec]
    <3>1. req[u] \in ReqRec /\ req \in [User -> ReqRec]
      BY TypeParts
    <3>2. NoReq \in ReqRec
      BY DEF NoReq, ReqRec
    <3>3. \A over \in SUBSET Signal : [req[u] EXCEPT !.pc = "override", !.todo = over] \in ReqRec
      BY <3>1 DEF ReqRec
    <3>4. CASE EndFeedback(u)
      BY <3>1, <3>2, <3>4 DEF EndFeedback
    <3>5. CASE ReadLinks(u)
      <4>1. PICK over \in SUBSET Signal :
                req' = [req EXCEPT ![u] = [req[u] EXCEPT !.pc = "override", !.todo = over]]
        BY <3>1, <3>5 DEF ReadLinks
      <4>. QED BY <3>1, <3>3, <4>1
    <3>. QED BY <1>16, <3>4, <3>5
  <2>. QED BY <1>16, <2>1 DEF ReadLinks, EndFeedback, store, history, TypeOK, RunRec, SchedRec, ReqRec
<1>17. ASSUME NEW u \in User, NEW s \in Signal, Override(u, s) PROVE TypeOK'
  <2>1. req' \in [User -> ReqRec]
    BY <1>17, TypeParts DEF Override, ReqRec
  <2>2. links' \in [Cycle -> [Signal -> {"none", "scored", "override"}]] /\ faults' \in 0..MaxFaults
    <3>1. CASE links' = [links EXCEPT ![req[u].cycle][s] = "override"] /\ UNCHANGED faults
      BY <3>1 DEF TypeOK
    <3>2. CASE Fault /\ UNCHANGED links
      BY <3>2, FaultType DEF TypeOK
    <3>. QED BY <1>17, <3>1, <3>2 DEF Override
  <2>. QED BY <1>17, <2>1, <2>2 DEF Override, history, TypeOK, RunRec, SchedRec, ReqRec
<1>18. ASSUME NEW u \in User, WaiveWrite(u) PROVE TypeOK'
  <2>1. req' \in [User -> ReqRec]
    BY <1>18, TypeParts DEF WaiveWrite, NoReq, ReqRec
  <2>2. req[u].cycle \in Cycle
    BY <1>18 DEF WaiveWrite, Busy
  <2>3. "WAIVED" \in FBStatus
    BY DEF FBStatus
  <2>4. node' \in [Cycle -> NodeRec] /\ faults' \in 0..MaxFaults
    BY <1>18, <2>2, <2>3, BestEffortType DEF WaiveWrite
  <2>. QED BY <1>18, <2>1, <2>4 DEF WaiveWrite, history, TypeOK, RunRec, SchedRec, ReqRec
<1>19. CASE Crash
  <2>1. NoNode \in NodeRec /\ 0 \in Time
    BY DEF NoNode, NodeRec, FBStatus, Time
  <2>. QED BY <1>19, <2>1, FaultType DEF Crash, store, history, NoRun, NoReq, AtRest, TypeOK, RunRec, SchedRec, ReqRec
<1>20. CASE UNCHANGED vars
  BY <1>20 DEF vars, store, history, TypeOK
<1>21. \A r \in Brain : r \in Runner
  BY DEF Runner
<1>22. "scheduler" \in Runner
  BY DEF Runner
<1>. QED BY <1>1, <1>2, <1>3, <1>4, <1>5, <1>6, <1>8, <1>9, <1>10, <1>11, <1>12, <1>13, <1>14,
            <1>15, <1>16, <1>17, <1>18, <1>19, <1>20, <1>21, <1>22
         DEF Next, SchedulerStep, BrainStep, UserStep

-----------------------------------------------------------------------------
\* Every step keeps the cycles in progress.
LEMMA BusyStep ==
    ASSUME TypeOK, Busy, [Next]_vars
    PROVE  Busy'
<1>1. CASE UNCHANGED <<run, sched, req>>
  BY <1>1 DEF Busy
<1>2. CASE Crash
  BY <1>2 DEF Crash, Busy, NoRun, AtRest, NoReq
<1>3. ASSUME NEW r \in Runner, NEW c \in Cycle, NEW found, ExecuteBegin(r, c, found)
      PROVE  \A q \in Runner : run'[q].pc = "score" => run'[q].cycle \in Cycle
  <2>1. \A q \in Runner : run'[q] = run[q] \/ run'[q] = [pc |-> "score", cycle |-> c, todo |-> found]
    BY <1>3, TypeParts DEF ExecuteBegin
  <2>. QED BY <1>3, <2>1 DEF Busy
<1>4. ASSUME NEW a \in Agent, NEW found \in SUBSET Signal, RunAgent(a, found) PROVE Busy'
  <2>1. CycleNodeID(a, sched.now) \in Cycle /\ "scheduler" \in Runner
    BY CycleOf DEF TypeOK, Runner
  <2>2. ExecuteBegin("scheduler", CycleNodeID(a, sched.now), found)
    BY <1>4 DEF RunAgent
  <2>3. \A q \in Runner : run'[q].pc = "score" => run'[q].cycle \in Cycle
    BY <1>3, <2>1, <2>2
  <2>4. sched' = [sched EXCEPT !.agents = @ \ {a}] /\ req' = req /\ sched \in SchedRec
    BY <1>4, TypeParts DEF RunAgent
  <2>5. sched'.pc = sched.pc /\ sched'.cycle = sched.cycle
    BY <2>4 DEF SchedRec
  <2>. QED BY <2>3, <2>4, <2>5 DEF Busy
<1>5. ASSUME NEW r \in Brain, NEW a \in Agent, NEW found \in SUBSET Signal, Reflect(r, a, found) PROVE Busy'
  <2>1. CycleNodeID(a, clock) \in Cycle /\ r \in Runner
    BY CycleOf DEF TypeOK, Runner
  <2>2. ExecuteBegin(r, CycleNodeID(a, clock), found)
    BY <1>5 DEF Reflect
  <2>3. \A q \in Runner : run'[q].pc = "score" => run'[q].cycle \in Cycle
    BY <1>3, <2>1, <2>2
  <2>4. sched' = sched /\ req' = req
    BY <1>5 DEF Reflect
  <2>. QED BY <2>3, <2>4 DEF Busy
<1>6. ASSUME NEW r \in Runner, NEW s \in Signal, ScoreNode(r, s) PROVE Busy'
  <2>1. \A q \in Runner : run'[q].pc = run[q].pc /\ run'[q].cycle = run[q].cycle
    BY <1>6, TypeParts DEF ScoreNode, RunRec
  <2>2. sched' = sched /\ req' = req
    BY <1>6 DEF ScoreNode
  <2>. QED BY <2>1, <2>2 DEF Busy
<1>7. ASSUME NEW r \in Runner, Complete(r) PROVE Busy'
  <2>1. \A q \in Runner : run'[q] = run[q] \/ run'[q] = NoRun
    BY <1>7, TypeParts DEF Complete
  <2>2. sched' = sched /\ req' = req
    BY <1>7 DEF Complete
  <2>. QED BY <2>1, <2>2 DEF Busy, NoRun
<1>8. CASE StartTick \/ EndCycles \/ ListCycles \/ EndTick
  <2>1. sched'.pc # "mark"
    <3>1. CASE StartTick \/ EndCycles
      BY <3>1 DEF StartTick, EndCycles, AtRest
    <3>2. CASE ListCycles
      BY <3>2 DEF ListCycles, AtRest
    <3>3. CASE EndTick
      BY <3>3 DEF EndTick, AtRest
    <3>. QED BY <1>8, <3>1, <3>2, <3>3
  <2>2. run' = run /\ req' = req
    BY <1>8 DEF StartTick, EndCycles, ListCycles, EndTick
  <2>. QED BY <2>1, <2>2 DEF Busy
<1>9. CASE MarkRequested \/ \E c \in Cycle : CheckGrace(c)
  <2>1. sched'.pc = "check"
    BY <1>9, TypeParts DEF MarkRequested, CheckGrace, SchedRec
  <2>2. run' = run /\ req' = req
    BY <1>9 DEF MarkRequested, CheckGrace
  <2>. QED BY <2>1, <2>2 DEF Busy
<1>10. ASSUME NEW c \in Cycle, Publish(c) PROVE Busy'
  <2>1. sched'.pc = "mark" => sched'.cycle \in Cycle
    BY <1>10, TypeParts DEF Publish, SchedRec
  <2>2. run' = run /\ req' = req
    BY <1>10 DEF Publish
  <2>. QED BY <2>1, <2>2 DEF Busy
<1>11. ASSUME NEW u \in User, NEW c \in Cycle, WaiveRead(u, c) \/ \E topic \in BOOLEAN : AttachFeedback(u, c, topic)
       PROVE  Busy'
  <2>1. \A v \in User : req'[v] = req[v] \/ req'[v].cycle = c
    BY <1>11, TypeParts DEF WaiveRead, AttachFeedback
  <2>2. run' = run /\ sched' = sched
    BY <1>11 DEF WaiveRead, AttachFeedback
  <2>. QED BY <2>1, <2>2 DEF Busy
<1>12. ASSUME NEW u \in User, Receive(u) \/ ReadLinks(u) \/ \E s \in Signal : Override(u, s) PROVE Busy'
  <2>1. req[u].pc # "idle" /\ run' = run /\ sched' = sched /\ req \in [User -> ReqRec]
    BY <1>12, TypeParts DEF Receive, ReadLinks, Override
  <2>2. \A v \in User : v # u => req'[v] = req[v]
    BY <1>12, <2>1 DEF Receive, ReadLinks, Override
  <2>3. req'[u].cycle = req[u].cycle \/ req'[u].pc = "idle"
    <3>1. CASE Receive(u)
      BY <2>1, <3>1 DEF Receive, NoReq, ReqRec
    <3>2. CASE ReadLinks(u)
      BY <2>1, <3>2 DEF ReadLinks, ReqRec
    <3>3. CASE \E s \in Signal : Override(u, s)
      BY <2>1, <3>3 DEF Override, ReqRec
    <3>. QED BY <1>12, <3>1, <3>2, <3>3
  <2>. QED BY <2>1, <2>2, <2>3 DEF Busy
<1>13. ASSUME NEW u \in User, EndFeedback(u) \/ WaiveWrite(u) PROVE Busy'
  <2>1. \A v \in User : req'[v] = req[v] \/ req'[v] = NoReq
    BY <1>13, TypeParts DEF EndFeedback, WaiveWrite
  <2>2. run' = run /\ sched' = sched
    BY <1>13 DEF EndFeedback, WaiveWrite
  <2>. QED BY <2>1, <2>2 DEF Busy, NoReq
<1>14. CASE Advance \/ UNCHANGED vars
  BY <1>1, <1>14 DEF Advance, vars
<1>15. "scheduler" \in Runner /\ \A r \in Brain : r \in Runner
  BY DEF Runner
<1>. QED BY <1>2, <1>4, <1>5, <1>6, <1>7, <1>8, <1>9, <1>10, <1>11, <1>12, <1>13, <1>14, <1>15
         DEF Next, SchedulerStep, BrainStep, UserStep

-----------------------------------------------------------------------------
(* The kinds of steps, by what they do to a cycle and to what is asked.      *)

asked == <<snap, published>>
runs  == <<schedRuns, brainRuns>>

\* Nothing of it changes, but a fault may have happened.
Quiet ==
    /\ UNCHANGED <<clock, node, sched, asked, runs, firstDone>>
    /\ faults' \in {faults, faults + 1}

\* The same scheduler state but for the agents it has still to run.
SameSched == /\ sched'.todo = sched.todo /\ sched'.pc = sched.pc
             /\ sched'.cycle = sched.cycle /\ sched'.now = sched.now

\* An execution of c begins, or fails to.
Begun(c) ==
    /\ UNCHANGED <<clock, asked, firstDone>> /\ SameSched
    /\ \/ schedRuns' = [schedRuns EXCEPT ![c] = @ + 1] /\ UNCHANGED brainRuns
       \/ brainRuns' = [brainRuns EXCEPT ![c] = @ + 1] /\ UNCHANGED schedRuns
    /\ faults' \in {faults, faults + 1}
    /\ \/ UNCHANGED node
       \/ \E t \in {node[c].completedAt, Never} :
             node' = [node EXCEPT ![c] = [status |-> "RUNNING", fb |-> "PENDING", completedAt |-> t]]

\* An execution of c completes.
Done(c) ==
    /\ UNCHANGED <<clock, sched, asked, runs>> /\ faults' \in {faults, faults + 1}
    /\ \E f \in {node[c].fb, "none"} :
          node' = [node EXCEPT ![c] = [status |-> "COMPLETED", fb |-> f, completedAt |-> clock]]
    /\ firstDone' = [firstDone EXCEPT ![c] = IF @ = Never THEN clock ELSE @]

\* The feedback status of c becomes f; the rest of the node may be lost.
Marked(c, f) ==
    node' \in {[node EXCEPT ![c] = [node[c] EXCEPT !.fb = f]], [node EXCEPT ![c] = [NoNode EXCEPT !.fb = f]]}

\* Feedback or a waiver on c is written.
Answered(c) ==
    /\ UNCHANGED <<clock, sched, asked, runs, firstDone>> /\ faults' \in {faults, faults + 1}
    /\ \E f \in {"RECEIVED", "WAIVED"} : Marked(c, f)

\* The scheduler is between two rounds of CheckPending.
Rested ==
    /\ sched.pc # "mark" /\ sched'.todo = {} /\ sched'.pc # "mark" /\ sched'.now \in {0, clock}
    /\ UNCHANGED <<clock, node, published, runs, firstDone, faults>>

\* The records that the executions store, field by field.
LEMMA StoredRecord ==
    ASSUME NEW n \in NodeRec, NEW t \in Time
    PROVE  /\ [n EXCEPT !.status = "RUNNING", !.fb = "PENDING"]
                 = [status |-> "RUNNING", fb |-> "PENDING", completedAt |-> n.completedAt]
           /\ [n EXCEPT !.status = "COMPLETED", !.completedAt = t]
                 = [status |-> "COMPLETED", fb |-> n.fb, completedAt |-> t]
<1>1. \A m \in NodeRec : m = [status |-> m.status, fb |-> m.fb, completedAt |-> m.completedAt]
  BY DEF NodeRec
<1>2. PICK a : a = [n EXCEPT !.status = "RUNNING", !.fb = "PENDING"]
  OBVIOUS
<1>3. a \in NodeRec /\ a.status = "RUNNING" /\ a.fb = "PENDING" /\ a.completedAt = n.completedAt
  BY <1>2 DEF NodeRec, FBStatus
<1>4. PICK b : b = [n EXCEPT !.status = "COMPLETED", !.completedAt = t]
  OBVIOUS
<1>5. b \in NodeRec /\ b.status = "COMPLETED" /\ b.fb = n.fb /\ b.completedAt = t
  BY <1>4 DEF NodeRec
<1>6. /\ a = [status |-> a.status, fb |-> a.fb, completedAt |-> a.completedAt]
      /\ b = [status |-> b.status, fb |-> b.fb, completedAt |-> b.completedAt]
  BY <1>1, <1>3, <1>5
<1>7. a = [status |-> "RUNNING", fb |-> "PENDING", completedAt |-> n.completedAt]
  BY <1>3, <1>6
<1>8. b = [status |-> "COMPLETED", fb |-> n.fb, completedAt |-> t]
  BY <1>5, <1>6
<1>. QED BY <1>2, <1>4, <1>7, <1>8

\* A step is of one of these kinds, or one of CheckPending's own.
LEMMA StepKinds ==
    ASSUME TypeOK, Busy, [Next]_vars
    PROVE  \/ Quiet \/ Advance \/ Rested \/ Crash \/ ListCycles \/ MarkRequested
           \/ \E c \in Cycle : Begun(c) \/ Done(c) \/ Answered(c) \/ CheckGrace(c) \/ Publish(c)
<1>1. ASSUME NEW r \in Runner, NEW s \in Signal, ScoreNode(r, s) PROVE Quiet
  BY <1>1 DEF ScoreNode, Quiet, asked, runs, history, Fault
<1>r. /\ \A c \in Cycle : /\ [node[c] EXCEPT !.status = "RUNNING", !.fb = "PENDING"]
                                = [status |-> "RUNNING", fb |-> "PENDING", completedAt |-> node[c].completedAt]
                          /\ [node[c] EXCEPT !.status = "COMPLETED", !.completedAt = clock]
                                = [status |-> "COMPLETED", fb |-> node[c].fb, completedAt |-> clock]
      /\ [NoNode EXCEPT !.status = "RUNNING", !.fb = "PENDING"]
            = [status |-> "RUNNING", fb |-> "PENDING", completedAt |-> Never]
      /\ [NoNode EXCEPT !.status = "COMPLETED", !.completedAt = clock]
            = [status |-> "COMPLETED", fb |-> "none", completedAt |-> clock]
  <2>1. NoNode \in NodeRec /\ (\A c \in Cycle : node[c] \in NodeRec) /\ clock \in Time
    BY DEF TypeOK, NoNode, NodeRec, FBStatus
  <2>. QED BY <2>1, StoredRecord DEF NoNode
<1>2. ASSUME NEW r \in Runner, Complete(r) PROVE Quiet \/ Done(run[r].cycle)
  <2>1. CASE Fault /\ UNCHANGED <<node, firstDone>>
    BY <1>2, <2>1 DEF Complete, Quiet, asked, runs, Fault
  <2>2. CASE /\ UpsertNode(run[r].cycle,
                    [node[run[r].cycle] EXCEPT !.status = "COMPLETED", !.completedAt = clock],
                    [NoNode EXCEPT !.status = "COMPLETED", !.completedAt = clock])
             /\ firstDone' = [firstDone EXCEPT ![run[r].cycle] = IF @ = Never THEN clock ELSE @]
    <3>1. run[r].cycle \in Cycle
      BY <1>2 DEF Busy, Complete
    <3>2. /\ faults' \in {faults, faults + 1}
          /\ \E f \in {node[run[r].cycle].fb, "none"} :
                node' = [node EXCEPT ![run[r].cycle] = [status |-> "COMPLETED", fb |-> f, completedAt |-> clock]]
      BY <1>r, <2>2, <3>1 DEF UpsertNode, Fault
    <3>. QED BY <1>2, <2>2, <3>2 DEF Complete, Done, asked, runs
  <2>. QED BY <1>2, <2>1, <2>2 DEF Complete
<1>e. ASSUME NEW r \in Runner, NEW c \in Cycle, NEW found \in SUBSET Signal, ExecuteBegin(r, c, found)
      PROVE  /\ faults' \in {faults, faults + 1}
             /\ \/ UNCHANGED node
                \/ \E t \in {node[c].completedAt, Never} :
                      node' = [node EXCEPT ![c] = [status |-> "RUNNING", fb |-> "PENDING", completedAt |-> t]]
  BY <1>e, <1>r DEF ExecuteBegin, UpsertNode, Fault
<1>c. \A a \in Agent : CycleNodeID(a, sched.now) \in Cycle /\ CycleNodeID(a, clock) \in Cycle
  BY CycleOf DEF TypeOK
<1>3. ASSUME NEW a \in Agent, NEW found \in SUBSET Signal, RunAgent(a, found)
      PROVE  Begun(CycleNodeID(a, sched.now))
  <2>1. SameSched
    BY <1>3, TypeParts DEF RunAgent, SameSched, SchedRec
  <2> DEFINE c == CycleNodeID(a, sched.now)
  <2>2. c \in Cycle /\ ExecuteBegin("scheduler", c, found) /\ "scheduler" \in Runner
    BY <1>3, <1>c DEF RunAgent, Runner
  <2>3. /\ faults' \in {faults, faults + 1}
        /\ \/ UNCHANGED node
           \/ \E t \in {node[c].completedAt, Never} :
                 node' = [node EXCEPT ![c] = [status |-> "RUNNING", fb |-> "PENDING", completedAt |-> t]]
    BY <1>e, <2>2
  <2>. QED BY <1>3, <2>1, <2>3 DEF RunAgent, Begun, asked
<1>4. ASSUME NEW r \in Brain, NEW a \in Agent, NEW found \in SUBSET Signal, Reflect(r, a, found)
      PROVE  Begun(CycleNodeID(a, clock))
  <2> DEFINE c == CycleNodeID(a, clock)
  <2>2. c \in Cycle /\ ExecuteBegin(r, c, found) /\ r \in Runner
    BY <1>4, <1>c DEF Reflect, Runner
  <2>3. /\ faults' \in {faults, faults + 1}
        /\ \/ UNCHANGED node
           \/ \E t \in {node[c].completedAt, Never} :
                 node' = [node EXCEPT ![c] = [status |-> "RUNNING", fb |-> "PENDING", completedAt |-> t]]
    BY <1>e, <2>2
  <2>. QED BY <1>4, <2>3 DEF Reflect, Begun, asked, SameSched
<1>5. CASE StartTick \/ EndCycles \/ EndTick
  <2>1. CASE StartTick
    BY <2>1 DEF StartTick, AtRest, Rested, store, history, runs
  <2>2. CASE EndCycles
    BY <2>2 DEF EndCycles, AtRest, Rested, store, history, runs
  <2>3. CASE EndTick
    BY <2>3 DEF EndTick, AtRest, Rested, store, history, runs
  <2>. QED BY <1>5, <2>1, <2>2, <2>3
<1>6. ASSUME NEW u \in User, NEW c \in Cycle, WaiveRead(u, c) \/ \E topic \in BOOLEAN : AttachFeedback(u, c, topic)
      PROVE  Quiet
  BY <1>6 DEF WaiveRead, AttachFeedback, Quiet, asked, runs, store
<1>7. ASSUME NEW u \in User, ReadLinks(u) \/ EndFeedback(u) \/ \E s \in Signal : Override(u, s)
      PROVE  Quiet
  BY <1>7 DEF ReadLinks, EndFeedback, Override, Quiet, asked, runs, store, history, Fault
<1>8. ASSUME NEW u \in User, Receive(u) PROVE Quiet \/ Answered(req[u].cycle)
  BY <1>8 DEF Receive, UpsertNode, Quiet, Answered, Marked, asked, runs, history, Fault
<1>9. ASSUME NEW u \in User, WaiveWrite(u) PROVE Quiet \/ Answered(req[u].cycle)
  BY <1>9 DEF WaiveWrite, BestEffort, UpsertNode, Quiet, Answered, Marked, asked, runs, history, Fault
<1>10. CASE UNCHANGED vars
  BY <1>10 DEF vars, Quiet, asked, runs, store, history
<1>11. "scheduler" \in Runner /\ \A r \in Brain : r \in Runner
  BY DEF Runner
<1>12. \A a \in Agent : CycleNodeID(a, sched.now) \in Cycle /\ CycleNodeID(a, clock) \in Cycle
  BY CycleOf DEF TypeOK
<1>13. /\ \A r \in Runner : Complete(r) => run[r].cycle \in Cycle
       /\ \A u \in User : Receive(u) \/ WaiveWrite(u) => req[u].cycle \in Cycle
  BY DEF Busy, Complete, Receive, WaiveWrite
<1>. QED BY <1>1, <1>2, <1>3, <1>4, <1>5, <1>6, <1>7, <1>8, <1>9, <1>10, <1>11, <1>12, <1>13
         DEF Next, SchedulerStep, BrainStep, UserStep

-----------------------------------------------------------------------------
\* What a step owes the budget of one cycle: whoever may newly be asked about,
\* and every request, is paid for.
LEMMA BudgetAt ==
    ASSUME TypeOK, TypeOK', NEW c \in Cycle, Budget,
           \/ /\ published'[c] = published[c]
              /\ Asking(c)' => Asking(c)
              /\ schedRuns[c] + brainRuns[c] + faults <= schedRuns'[c] + brainRuns'[c] + faults'
           \/ /\ published'[c] = published[c]
              /\ schedRuns[c] + brainRuns[c] + faults + 1 <= schedRuns'[c] + brainRuns'[c] + faults'
           \/ /\ published'[c] = published[c] + 1
              /\ Asking(c) /\ ~Asking(c)'
              /\ schedRuns[c] + brainRuns[c] + faults <= schedRuns'[c] + brainRuns'[c] + faults'
    PROVE  published'[c] + (IF Asking(c)' THEN 1 ELSE 0) <= schedRuns'[c] + brainRuns'[c] + faults'
<1>1. /\ published[c] \in Nat /\ schedRuns[c] \in Nat /\ brainRuns[c] \in Nat /\ faults \in Nat
      /\ published'[c] \in Nat /\ schedRuns'[c] \in Nat /\ brainRuns'[c] \in Nat /\ faults' \in Nat
  BY ReflectionAssumption DEF TypeOK
<1>2. published[c] + (IF Asking(c) THEN 1 ELSE 0) <= schedRuns[c] + brainRuns[c] + faults
  BY DEF Budget
<1>3. /\ Asking(c) => published[c] + 1 <= schedRuns[c] + brainRuns[c] + faults
      /\ published[c] <= schedRuns[c] + brainRuns[c] + faults
  BY <1>1, <1>2
<1>. QED BY <1>1, <1>3

\* Every step keeps the budget.
LEMMA BudgetStep ==
    ASSUME TypeOK, Busy, Budget, [Next]_vars
    PROVE  Budget'
<1>0. TypeOK' /\ TypeOK
  BY TypeStep
<1>t. /\ published \in [Cycle -> Nat] /\ schedRuns \in [Cycle -> Nat] /\ brainRuns \in [Cycle -> Nat]
      /\ faults \in Nat /\ node \in [Cycle -> NodeRec] /\ sched \in SchedRec
  BY TypeParts, ReflectionAssumption
<1> SUFFICES ASSUME NEW d \in Cycle
             PROVE  published'[d] + (IF Asking(d)' THEN 1 ELSE 0) <= schedRuns'[d] + brainRuns'[d] + faults'
  BY DEF Budget
<1> DEFINE Same == schedRuns[d] + brainRuns[d] + faults <= schedRuns'[d] + brainRuns'[d] + faults'
           More == schedRuns[d] + brainRuns[d] + faults + 1 <= schedRuns'[d] + brainRuns'[d] + faults'
<1>1. CASE Quiet
  <2>1. published'[d] = published[d] /\ (Asking(d)' => Asking(d)) /\ Same
    BY <1>1, <1>t DEF Quiet, asked, runs, Asking
  <2>. QED BY <1>0, <2>1, BudgetAt
<1>2. CASE Advance
  <2>1. published'[d] = published[d] /\ (Asking(d)' => Asking(d)) /\ Same
    BY <1>2, <1>t DEF Advance, store, history, Asking
  <2>. QED BY <1>0, <2>1, BudgetAt
<1>3. CASE Rested
  <2>1. published'[d] = published[d] /\ (Asking(d)' => Asking(d)) /\ Same
    BY <1>3, <1>t DEF Rested, runs, Asking
  <2>. QED BY <1>0, <2>1, BudgetAt
<1>4. CASE Crash
  <2>1. published'[d] = published[d] /\ More
    BY <1>4, <1>t DEF Crash, Fault, history
  <2>. QED BY <1>0, <2>1, BudgetAt
<1>5. CASE ListCycles
  <2>1. published'[d] = published[d] /\ Same /\ sched.pc = "list" /\ node' = node
    BY <1>5, <1>t DEF ListCycles, history, store
  <2>2. d \in sched'.todo => node[d].fb \in {"PENDING", "NEEDS_FEEDBACK"}
    BY <1>5 DEF ListCycles, AtRest
  <2>3. Asking(d)' => Asking(d)
    BY <2>1, <2>2 DEF Asking
  <2>. QED BY <1>0, <2>1, <2>3, BudgetAt
<1>6. CASE MarkRequested
  <2>1. /\ published'[d] = published[d] /\ sched.pc = "mark"
        /\ sched' = [sched EXCEPT !.pc = "check", !.cycle = NoCycle]
        /\ schedRuns' = schedRuns /\ brainRuns' = brainRuns
    BY <1>6 DEF MarkRequested, history
  <2>2. CASE Fault
    <3>1. More
      BY <1>t, <2>1, <2>2 DEF Fault
    <3>. QED BY <1>0, <2>1, <3>1, BudgetAt
  <2>3. CASE ~Fault
    <3>1. sched.cycle \in Cycle
      BY <2>1 DEF Busy
    <3>2. node' = [node EXCEPT ![sched.cycle] = [node[sched.cycle] EXCEPT !.fb = "REQUESTED"]]
          /\ faults' = faults
      BY <1>6, <2>3 DEF MarkRequested, BestEffort, UpsertNode
    <3>3. sched'.todo = sched.todo
      BY <1>t, <2>1 DEF SchedRec
    <3>4. IF d = sched.cycle THEN node'[d].fb = "REQUESTED" ELSE node'[d] = node[d]
      BY <1>t, <3>1, <3>2 DEF NodeRec
    <3>5. Asking(d)' => Asking(d)
      BY <2>1, <3>3, <3>4 DEF Asking
    <3>6. Same
      BY <1>t, <2>1, <3>2
    <3>. QED BY <1>0, <2>1, <3>5, <3>6, BudgetAt
  <2>. QED BY <2>2, <2>3
<1>7. ASSUME NEW c \in Cycle, Begun(c)
      PROVE  published'[d] + (IF Asking(d)' THEN 1 ELSE 0) <= schedRuns'[d] + brainRuns'[d] + faults'
  <2>1. published'[d] = published[d]
    BY <1>7 DEF Begun, asked
  <2>2. CASE d = c
    <3>1. More
      BY <1>7, <1>t, <2>2 DEF Begun
    <3>. QED BY <1>0, <2>1, <3>1, BudgetAt
  <2>3. CASE d # c
    <3>1. Same /\ node'[d] = node[d]
      BY <1>7, <1>t, <2>3 DEF Begun
    <3>2. Asking(d)' => Asking(d)
      BY <1>7, <3>1 DEF Begun, SameSched, Asking
    <3>. QED BY <1>0, <2>1, <3>1, <3>2, BudgetAt
  <2>. QED BY <2>2, <2>3
<1>8. ASSUME NEW c \in Cycle, Done(c)
      PROVE  published'[d] + (IF Asking(d)' THEN 1 ELSE 0) <= schedRuns'[d] + brainRuns'[d] + faults'
  <2>1. published'[d] = published[d] /\ Same /\ sched' = sched
    BY <1>8, <1>t DEF Done, asked, runs
  <2>2. node'[d].fb \in {node[d].fb, "none"}
    BY <1>8, <1>t DEF Done
  <2>3. Asking(d)' => Asking(d)
    BY <2>1, <2>2 DEF Asking
  <2>. QED BY <1>0, <2>1, <2>3, BudgetAt
<1>9. ASSUME NEW c \in Cycle, Answered(c)
      PROVE  published'[d] + (IF Asking(d)' THEN 1 ELSE 0) <= schedRuns'[d] + brainRuns'[d] + faults'
  <2>1. published'[d] = published[d] /\ Same /\ sched' = sched
    BY <1>9, <1>t DEF Answered, asked, runs
  <2>2. node'[d].fb = node[d].fb \/ node'[d].fb \in {"RECEIVED", "WAIVED"}
    <3>1. CASE d # c
      BY <1>9, <1>t, <3>1 DEF Answered, Marked
    <3>2. CASE d = c
      BY <1>9, <1>t, <3>2 DEF Answered, Marked, NodeRec, NoNode
    <3>. QED BY <3>1, <3>2
  <2>3. Asking(d)' => Asking(d)
    BY <2>1, <2>2 DEF Asking
  <2>. QED BY <1>0, <2>1, <2>3, BudgetAt
<1>10. ASSUME NEW c \in Cycle, CheckGrace(c)
       PROVE  published'[d] + (IF Asking(d)' THEN 1 ELSE 0) <= schedRuns'[d] + brainRuns'[d] + faults'
  <2>1. /\ published'[d] = published[d] /\ c \in sched.todo /\ sched.pc = "check"
        /\ schedRuns' = schedRuns /\ brainRuns' = brainRuns
        /\ sched' = [sched EXCEPT !.todo = @ \ {c}]
    BY <1>10 DEF CheckGrace, history
  <2>2. faults' \in {faults, faults + 1} /\ (d # c => node'[d] = node[d])
    BY <1>10, <1>t DEF CheckGrace, BestEffort, UpsertNode, Fault
  <2>3. Same
    BY <1>t, <2>1, <2>2
  <2>4. sched'.todo = sched.todo \ {c} /\ sched'.pc = "check"
    BY <1>t, <2>1 DEF SchedRec
  <2>5. Asking(d)' => Asking(d)
    BY <2>1, <2>2, <2>4 DEF Asking
  <2>. QED BY <1>0, <2>1, <2>3, <2>5, BudgetAt
<1>11. ASSUME NEW c \in Cycle, Publish(c)
       PROVE  published'[d] + (IF Asking(d)' THEN 1 ELSE 0) <= schedRuns'[d] + brainRuns'[d] + faults'
  <2>1. /\ c \in sched.todo /\ sched.pc = "check" /\ node' = node
        /\ schedRuns' = schedRuns /\ brainRuns' = brainRuns
    BY <1>11 DEF Publish, store
  <2>2. CASE /\ published' = [published EXCEPT ![c] = @ + 1] /\ UNCHANGED faults
             /\ sched' = [sched EXCEPT !.pc = "mark", !.cycle = c, !.todo = @ \ {c}]
    <3>1. sched'.todo = sched.todo \ {c} /\ sched'.pc = "mark" /\ sched'.cycle = c
      BY <1>t, <2>2 DEF SchedRec
    <3>2. Same
      BY <1>t, <2>1, <2>2
    <3>3. CASE d = c
      <4>1. published'[d] = published[d] + 1 /\ Asking(d) /\ ~Asking(d)'
        BY <1>t, <2>1, <2>2, <3>1, <3>3 DEF Asking
      <4>. QED BY <1>0, <3>2, <4>1, BudgetAt
    <3>4. CASE d # c
      <4>1. published'[d] = published[d] /\ (Asking(d)' => Asking(d))
        BY <1>t, <2>1, <2>2, <3>1, <3>4 DEF Asking
      <4>. QED BY <1>0, <3>2, <4>1, BudgetAt
    <3>. QED BY <3>3, <3>4
  <2>3. CASE Fault /\ UNCHANGED published
    <3>1. More /\ published'[d] = published[d]
      BY <1>t, <2>1, <2>3 DEF Fault
    <3>. QED BY <1>0, <3>1, BudgetAt
  <2>. QED BY <1>11, <2>2, <2>3 DEF Publish
<1>. QED BY <1>1, <1>2, <1>3, <1>4, <1>5, <1>6, <1>7, <1>8, <1>9, <1>10, <1>11, StepKinds

-----------------------------------------------------------------------------
\* A first completion is never forgotten and time does not go back, so a grace
\* period that is over stays over.
LEMMA Forward ==
    ASSUME TypeOK, Busy, [Next]_vars, NEW c \in Cycle
    PROVE  /\ clock <= clock' /\ clock \in Nat /\ clock' \in Nat
           /\ firstDone[c] # Never => firstDone'[c] = firstDone[c]
           /\ GraceOver(c) => GraceOver(c)'
<1>0. /\ TypeOK' /\ clock \in Nat /\ clock' \in Nat /\ firstDone \in [Cycle -> Time \cup {Never}]
      /\ Grace \in Nat
  BY TypeStep, ReflectionAssumption DEF TypeOK, Time
<1>1. clock <= clock' /\ (firstDone[c] # Never => firstDone'[c] = firstDone[c])
  <2>1. CASE Quiet \/ Rested
    BY <1>0, <2>1 DEF Quiet, Rested
  <2>2. CASE Advance \/ Crash \/ ListCycles \/ MarkRequested
    BY <1>0, <2>2 DEF Advance, Crash, ListCycles, MarkRequested, history
  <2>3. CASE \E d \in Cycle : Begun(d) \/ Answered(d) \/ CheckGrace(d) \/ Publish(d)
    BY <1>0, <2>3 DEF Begun, Answered, CheckGrace, Publish, history
  <2>4. ASSUME NEW d \in Cycle, Done(d) PROVE clock <= clock' /\ (firstDone[c] # Never => firstDone'[c] = firstDone[c])
    BY <1>0, <2>4 DEF Done
  <2>. QED BY <2>1, <2>2, <2>3, <2>4, StepKinds
<1>2. GraceOver(c) => GraceOver(c)'
  <2>1. firstDone[c] # Never => firstDone[c] \in Nat
    BY <1>0, ReflectionAssumption DEF Time
  <2>. QED BY <1>0, <1>1, <2>1 DEF GraceOver
<1>. QED BY <1>0, <1>1, <1>2

\* Every step keeps what is said of each cycle.
LEMMA WaitingStep ==
    ASSUME TypeOK, Busy, Waiting, Listing, [Next]_vars
    PROVE  Waiting'
<1>t. /\ published \in [Cycle -> Nat] /\ clock \in Nat /\ Grace \in Nat
      /\ node \in [Cycle -> NodeRec] /\ sched \in SchedRec /\ snap \in [Cycle -> NodeRec]
      /\ firstDone \in [Cycle -> Time \cup {Never}]
  BY TypeParts, ReflectionAssumption DEF Time
<1> SUFFICES ASSUME NEW d \in Cycle
             PROVE  /\ firstDone'[d] <= clock'
                    /\ Completed(d, node[d])'
                    /\ node'[d].status = "COMPLETED" => node'[d].completedAt # Never
                    /\ node'[d].fb = "NEEDS_FEEDBACK" => GraceOver(d)'
                    /\ node'[d].fb = "REQUESTED" => published'[d] > 0
                    /\ published'[d] > 0 => GraceOver(d)'
                    /\ d \in sched'.todo => /\ Completed(d, snap[d])' /\ snap'[d].completedAt # Never
                                            /\ snap'[d].fb = "NEEDS_FEEDBACK" => GraceOver(d)'
  BY DEF Waiting
<1>w. /\ firstDone[d] <= clock
      /\ Completed(d, node[d])
      /\ node[d].status = "COMPLETED" => node[d].completedAt # Never
      /\ node[d].fb = "NEEDS_FEEDBACK" => GraceOver(d)
      /\ node[d].fb = "REQUESTED" => published[d] > 0
      /\ published[d] > 0 => GraceOver(d)
      /\ d \in sched.todo => /\ Completed(d, snap[d]) /\ snap[d].completedAt # Never
                             /\ snap[d].fb = "NEEDS_FEEDBACK" => GraceOver(d)
  BY DEF Waiting
<1>f. /\ clock <= clock' /\ clock \in Nat /\ clock' \in Nat
      /\ firstDone[d] # Never => firstDone'[d] = firstDone[d]
      /\ GraceOver(d) => GraceOver(d)'
  BY Forward
<1>n. firstDone[d] \in Int /\ (firstDone[d] = Never \/ firstDone[d] \in Nat)
  BY <1>t, ReflectionAssumption DEF Time, Never
<1> DEFINE Goal == /\ firstDone'[d] <= clock'
                   /\ Completed(d, node[d])'
                   /\ node'[d].status = "COMPLETED" => node'[d].completedAt # Never
                   /\ node'[d].fb = "NEEDS_FEEDBACK" => GraceOver(d)'
                   /\ node'[d].fb = "REQUESTED" => published'[d] > 0
                   /\ published'[d] > 0 => GraceOver(d)'
                   /\ d \in sched'.todo => /\ Completed(d, snap[d])' /\ snap'[d].completedAt # Never
                                           /\ snap'[d].fb = "NEEDS_FEEDBACK" => GraceOver(d)'
<1>a. ASSUME UNCHANGED firstDone, \/ node'[d] = node[d]
                                  \/ /\ node'[d].completedAt \in {node[d].completedAt, Never}
                                     /\ \/ node'[d].status # "COMPLETED"
                                        \/ /\ node'[d].status = node[d].status
                                           /\ node'[d].completedAt = node[d].completedAt
                                     /\ node'[d].fb = "NEEDS_FEEDBACK" => GraceOver(d)
                                     /\ node'[d].fb = "REQUESTED" => published[d] > 0,
             \/ published'[d] = published[d]
             \/ GraceOver(d) /\ published'[d] = published[d] + 1,
             \/ d \notin sched'.todo
             \/ d \in sched.todo /\ snap'[d] = snap[d]
             \/ snap'[d] = node[d] /\ node[d].status = "COMPLETED"
      PROVE  Goal
  <2>1. firstDone'[d] <= clock'
    BY <1>a, <1>f, <1>w, <1>n
  <2>2. Completed(d, node[d])'
    BY <1>a, <1>w DEF Completed
  <2>3. d \in sched'.todo => Completed(d, snap[d])'
    BY <1>a, <1>w DEF Completed
  <2>4. published'[d] > 0 => GraceOver(d)'
    BY <1>a, <1>f, <1>w
  <2>5. published[d] > 0 => published'[d] > 0
    BY <1>a, <1>t
  <2>6. node'[d].fb = "REQUESTED" => published'[d] > 0
    BY <1>a, <1>w, <2>5
  <2>7. d \in sched'.todo => snap'[d].completedAt # Never /\ (snap'[d].fb = "NEEDS_FEEDBACK" => GraceOver(d)')
    BY <1>a, <1>f, <1>w
  <2>8. node'[d].status = "COMPLETED" => node'[d].completedAt # Never
    BY <1>a, <1>w
  <2>9. node'[d].fb = "NEEDS_FEEDBACK" => GraceOver(d)'
    BY <1>a, <1>f, <1>w
  <2>. QED BY <2>1, <2>2, <2>3, <2>4, <2>6, <2>7, <2>8, <2>9
<1>1. CASE Quiet
  BY <1>1, <1>a DEF Quiet, asked
<1>2. CASE Advance
  BY <1>2, <1>a DEF Advance, store, history
<1>3. CASE Rested
  BY <1>3, <1>a DEF Rested
<1>4. CASE Crash
  BY <1>4, <1>a DEF Crash, store, history, AtRest
<1>5. CASE ListCycles
  <2>1. UNCHANGED <<firstDone, node, published>>
    BY <1>5 DEF ListCycles, store, history
  <2>2. d \in sched'.todo => snap'[d] = node[d] /\ node[d].status = "COMPLETED"
    BY <1>5 DEF ListCycles, AtRest
  <2>. QED BY <1>a, <2>1, <2>2
<1>6. CASE MarkRequested
  <2>1. sched'.todo = sched.todo /\ UNCHANGED <<firstDone, published, snap>>
    BY <1>6, <1>t DEF MarkRequested, history, SchedRec
  <2>2. \/ node'[d] = node[d]
        \/ d = sched.cycle /\ node'[d] \in {[node[d] EXCEPT !.fb = "REQUESTED"], [NoNode EXCEPT !.fb = "REQUESTED"]}
    BY <1>6, <1>t DEF MarkRequested, BestEffort, UpsertNode
  <2>3. d = sched.cycle => published[d] > 0
    BY <1>6 DEF MarkRequested, Listing
  <2>4. \/ node'[d] = node[d]
        \/ /\ \/ node'[d].completedAt = node[d].completedAt /\ node'[d].status = node[d].status
              \/ node'[d].completedAt = Never /\ node'[d].status = "none"
           /\ node'[d].fb = "REQUESTED" /\ published[d] > 0
    BY <1>t, <2>2, <2>3 DEF NodeRec, NoNode
  <2>. QED BY <1>a, <2>1, <2>4
<1>7. ASSUME NEW c \in Cycle, Begun(c) PROVE Goal
  <2>1. UNCHANGED <<firstDone, published, snap>> /\ sched'.todo = sched.todo
    BY <1>7 DEF Begun, asked, SameSched
  <2>2. \/ node'[d] = node[d]
        \/ /\ node'[d].completedAt \in {node[d].completedAt, Never} /\ node'[d].status = "RUNNING"
           /\ node'[d].fb = "PENDING"
    BY <1>7, <1>t DEF Begun
  <2>. QED BY <1>a, <2>1, <2>2
<1>8. ASSUME NEW c \in Cycle, Done(c) PROVE Goal
  <2>1. UNCHANGED <<clock, published, snap, sched>>
    BY <1>8 DEF Done, asked
  <2>2. CASE d # c
    <3>1. node'[d] = node[d] /\ firstDone'[d] = firstDone[d]
      BY <1>8, <1>t, <2>2 DEF Done
    <3>2. Completed(d, node[d])' /\ (d \in sched'.todo => Completed(d, snap[d])')
      BY <1>w, <2>1, <3>1 DEF Completed
    <3>. QED BY <1>f, <1>w, <2>1, <3>1, <3>2
  <2>3. CASE d = c
    <3>1. /\ node'[d].completedAt = clock /\ node'[d].fb \in {node[d].fb, "none"}
          /\ firstDone'[d] = IF firstDone[d] = Never THEN clock ELSE firstDone[d]
      BY <1>8, <1>t, <2>3 DEF Done, NodeRec
    <3>2. firstDone'[d] <= clock /\ firstDone'[d] # Never /\ clock # Never
      BY <1>t, <1>w, <1>n, <3>1 DEF Never
    <3>3. Completed(d, node[d])'
      BY <3>1, <3>2 DEF Completed
    <3>4. d \in sched'.todo => Completed(d, snap[d])'
      BY <1>w, <1>f, <2>1 DEF Completed
    <3>. QED BY <1>f, <1>w, <2>1, <3>1, <3>2, <3>3, <3>4
  <2>. QED BY <2>2, <2>3
<1>9. ASSUME NEW c \in Cycle, Answered(c) PROVE Goal
  <2>1. UNCHANGED <<firstDone, published, snap, sched>>
    BY <1>9 DEF Answered, asked
  <2>2. \/ node'[d] = node[d]
        \/ /\ \/ node'[d].completedAt = node[d].completedAt /\ node'[d].status = node[d].status
              \/ node'[d].completedAt = Never /\ node'[d].status = "none"
           /\ node'[d].fb \in {"RECEIVED", "WAIVED"}
    <3>1. CASE d # c
      BY <1>9, <1>t, <3>1 DEF Answered, Marked
    <3>2. CASE d = c
      BY <1>9, <1>t, <3>2 DEF Answered, Marked, NodeRec, NoNode
    <3>. QED BY <3>1, <3>2
  <2>. QED BY <1>a, <2>1, <2>2
<1>10. ASSUME NEW c \in Cycle, CheckGrace(c) PROVE Goal
  <2>1. UNCHANGED <<firstDone, published, snap>> /\ sched'.todo = sched.todo \ {c} /\ c \in sched.todo
    BY <1>10, <1>t DEF CheckGrace, history, SchedRec
  <2>2. \/ node'[d] = node[d]
        \/ /\ d = c /\ sched.now - snap[c].completedAt >= Grace
           /\ node'[d] \in {[node[d] EXCEPT !.fb = "NEEDS_FEEDBACK"], [NoNode EXCEPT !.fb = "NEEDS_FEEDBACK"]}
    BY <1>10, <1>t DEF CheckGrace, BestEffort, UpsertNode
  <2>3. CASE node'[d] = node[d]
    BY <1>a, <2>1, <2>3
  <2>4. CASE /\ d = c /\ sched.now - snap[c].completedAt >= Grace
             /\ node'[d] \in {[node[d] EXCEPT !.fb = "NEEDS_FEEDBACK"], [NoNode EXCEPT !.fb = "NEEDS_FEEDBACK"]}
    <3>1. /\ firstDone[d] # Never /\ firstDone[d] <= snap[d].completedAt /\ snap[d].completedAt # Never
      BY <1>w, <2>1, <2>4 DEF Completed
    <3>2. snap[d].completedAt \in Int /\ sched.now \in Int /\ sched.now <= clock
      BY <1>t, ReflectionAssumption DEF NodeRec, SchedRec, Time, Never, Listing
    <3>3. GraceOver(d)
      BY <1>t, <1>n, <2>4, <3>1, <3>2 DEF GraceOver
    <3>4. /\ \/ node'[d].completedAt = node[d].completedAt /\ node'[d].status = node[d].status
             \/ node'[d].completedAt = Never /\ node'[d].status = "none"
          /\ node'[d].fb = "NEEDS_FEEDBACK"
      BY <1>t, <2>4 DEF NodeRec, NoNode
    <3>. QED BY <1>a, <2>1, <3>3, <3>4
  <2>. QED BY <2>2, <2>3, <2>4
<1>11. ASSUME NEW c \in Cycle, Publish(c) PROVE Goal
  <2>1. /\ UNCHANGED <<firstDone, node, snap>> /\ sched'.todo = sched.todo \ {c} /\ c \in sched.todo
        /\ snap[c].fb = "NEEDS_FEEDBACK"
    BY <1>11, <1>t DEF Publish, store, SchedRec
  <2>2. published'[d] = published[d] \/ (d = c /\ published'[d] = published[d] + 1)
    BY <1>11, <1>t DEF Publish
  <2>3. d = c => GraceOver(d)
    BY <1>w, <2>1
  <2>. QED BY <1>a, <2>1, <2>2, <2>3
<1>. QED BY <1>1, <1>2, <1>3, <1>4, <1>5, <1>6, <1>7, <1>8, <1>9, <1>10, <1>11, StepKinds

\* The listing stays in the past, and a cycle is marked after it was asked about.
LEMMA ListingStep ==
    ASSUME TypeOK, Busy, Listing, [Next]_vars
    PROVE  Listing'
<1>t. clock \in Nat /\ sched \in SchedRec /\ published \in [Cycle -> Nat] /\ sched.now \in Nat
  BY TypeParts, ReflectionAssumption DEF Time, SchedRec
<1>1. CASE Quiet \/ Advance
  BY <1>1, <1>t DEF Quiet, Advance, Listing, history, asked
<1>2. CASE Rested
  BY <1>2, <1>t DEF Rested, Listing
<1>3. CASE Crash \/ ListCycles
  <2>1. sched'.pc # "mark" /\ sched'.now \in {0, clock} /\ clock' = clock
    <3>1. CASE Crash
      BY <3>1 DEF Crash, AtRest
    <3>2. CASE ListCycles
      BY <3>2 DEF ListCycles, AtRest
    <3>. QED BY <1>3, <3>1, <3>2
  <2>. QED BY <1>t, <2>1 DEF Listing
<1>4. CASE MarkRequested
  <2>1. sched'.pc = "check" /\ sched'.now = sched.now /\ clock' = clock
    BY <1>4, <1>t DEF MarkRequested, SchedRec
  <2>. QED BY <2>1 DEF Listing
<1>5. ASSUME NEW c \in Cycle, Begun(c) \/ Done(c) \/ Answered(c) PROVE Listing'
  <2>1. published' = published /\ clock' = clock /\ SameSched
    BY <1>5 DEF Begun, Done, Answered, asked, SameSched
  <2>. QED BY <2>1 DEF Listing, SameSched
<1>6. ASSUME NEW c \in Cycle, CheckGrace(c) PROVE Listing'
  <2>1. sched'.pc = "check" /\ sched'.now = sched.now /\ clock' = clock
    BY <1>6, <1>t DEF CheckGrace, SchedRec
  <2>. QED BY <2>1 DEF Listing
<1>7. ASSUME NEW c \in Cycle, Publish(c) PROVE Listing'
  <2>1. /\ sched'.now = sched.now /\ clock' = clock
        /\ sched'.pc = "mark" => sched'.cycle = c /\ published'[c] = published[c] + 1
    BY <1>7, <1>t DEF Publish, SchedRec
  <2>. QED BY <1>t, <2>1 DEF Listing
<1>. QED BY <1>1, <1>2, <1>3, <1>4, <1>5, <1>6, <1>7, StepKinds

-----------------------------------------------------------------------------
(* The theorems.                                                             *)

\* Executions, listings and requests stay related in every reachable state.
THEOREM Invariance == Spec => []IInv
<1>1. IInv /\ [Next]_vars => IInv'
  BY TypeStep, BusyStep, BudgetStep, WaitingStep, ListingStep DEF IInv
<1>. QED BY <1>1, InitInv, PTL DEF Spec

\* Nodes, executions, requests and counters stay well typed.
THEOREM TypeCorrect == Spec => []TypeOK
<1>1. IInv => TypeOK
  BY DEF IInv
<1>. QED BY <1>1, Invariance, PTL

\* However executions, feedback, waivers and crashes interleave with CheckPending,
\* the owner is asked at most once per execution and once more per fault.
THEOREM AskedOncePerExecution == Spec => []RequestsBounded
<1>1. IInv => RequestsBounded
  <2> SUFFICES ASSUME IInv, NEW c \in Cycle
               PROVE  published[c] <= schedRuns[c] + brainRuns[c] + faults
    BY DEF RequestsBounded
  <2>1. published[c] \in Nat /\ schedRuns[c] \in Nat /\ brainRuns[c] \in Nat /\ faults \in Nat
    BY ReflectionAssumption DEF IInv, TypeOK
  <2>2. published[c] + (IF Asking(c) THEN 1 ELSE 0) <= schedRuns[c] + brainRuns[c] + faults
    BY DEF IInv, Budget
  <2>. QED BY <2>1, <2>2
<1>. QED BY <1>1, Invariance, PTL

\* Nobody is asked before the grace period is over, and no cycle is marked as
\* asked about before it was.
THEOREM NobodyAskedEarly == Spec => []GraceRespected
<1>1. IInv => GraceRespected
  <2> SUFFICES ASSUME IInv, NEW c \in Cycle
               PROVE  /\ published[c] > 0 => firstDone[c] # Never /\ clock >= firstDone[c] + Grace
                      /\ node[c].fb = "REQUESTED" => published[c] > 0
    BY DEF GraceRespected
  <2>1. firstDone[c] # Never => firstDone[c] \in Nat
    BY ReflectionAssumption DEF IInv, TypeOK, Time
  <2>2. clock \in Nat /\ Grace \in Nat
    BY ReflectionAssumption DEF IInv, TypeOK, Time
  <2>. QED BY <2>1, <2>2 DEF IInv, Waiting, GraceOver
<1>. QED BY <1>1, Invariance, PTL
=============================================================================
