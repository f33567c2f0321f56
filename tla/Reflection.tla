------------------------------ MODULE Reflection ------------------------------
(***************************************************************************)
(* Package reflect: daily reflection cycles and the human feedback on them.*)
(* The scheduler goroutine executes due cycles and then checks feedback    *)
(* grace periods; at any moment brain_reflect executes today's cycle of an *)
(* agent, people submit feedback through the Kafka topic or brain_feedback,*)
(* or waive it over HTTP.  All of them read and upsert the same            *)
(* ReflectionCycle nodes, one graph call at a time and without a lock      *)
(* around a read and the write that follows it.                            *)
(*                                                                         *)
(* A cycle's ID is its agent and the day its window starts, so every       *)
(* execution of the same agent's day writes to the same node.  A day has   *)
(* DayLen moments, and IsDue's hour and minute is the moment DueTime.      *)
(* Agents are the strings Execute is called with; brain_reflect and the    *)
(* scheduler meet on one cycle when both use the same string.              *)
(***************************************************************************)
EXTENDS Integers, FiniteSets

CONSTANTS
    Agent,
    Signal,         \* nodes a cycle may find in its window
    Brain,          \* concurrent brain_reflect requests
    User,           \* concurrent feedback and waive requests
    DayLen, DueTime, MinGap, Grace,
    MaxClock,       \* bound on time
    MaxBrainRuns,   \* bound on brain_reflect executions per cycle
    MaxRequests,    \* bound on feedback and waive requests
    MaxFaults       \* bound on failed graph calls, failed publishes and crashes

ASSUME ReflectionAssumption ==
    /\ DayLen \in Nat \ {0} /\ DueTime \in 0..(DayLen - 1)
    /\ MinGap \in 1..DayLen /\ Grace \in Nat
    /\ MaxClock \in Nat /\ MaxBrainRuns \in Nat /\ MaxRequests \in Nat /\ MaxFaults \in Nat
    /\ "scheduler" \notin Brain

\* CycleNodeID: agent and start of the daily window.
Cycle  == Agent \X (0..(MaxClock \div DayLen))
CycleNodeID(a, t) == <<a, t \div DayLen>>      \* t \div DayLen is DailyWindowStart(t)
NoCycle == <<>>
Runner == Brain \cup {"scheduler"}
Never  == -1

VARIABLES
    clock,
    node,           \* properties of each cycle's node; "none" where there is none
    links,          \* score on the LINKS_TO edge of each signal to each cycle
    run,            \* executions of CycleRunner.Execute in progress
    sched,          \* the scheduler goroutine: tick and CheckPending
    lastRun,        \* Scheduler.lastRun[daily], in memory only
    snap,           \* the nodes CheckPending listed
    req,            \* feedback and waive requests in progress
    published,      \* feedback-request events published per cycle
    schedRuns,      \* history: executions of each cycle by the scheduler
    brainRuns,      \* history: executions of each cycle by brain_reflect
    firstDone,      \* history: when each cycle completed first
    requests,       \* requests so far
    faults          \* faults so far

store   == <<node, links>>
history == <<published, schedRuns, brainRuns, firstDone, requests>>
vars == <<clock, store, run, sched, lastRun, snap, req, history, faults>>

FBStatus == {"none", "PENDING", "NEEDS_FEEDBACK", "REQUESTED", "RECEIVED", "WAIVED"}
Time     == 0..MaxClock
NodeRec  == [status : {"none", "RUNNING", "COMPLETED"}, fb : FBStatus,
             completedAt : Time \cup {Never}]
NoNode   == [status |-> "none", fb |-> "none", completedAt |-> Never]
NoRun    == [pc |-> "idle", cycle |-> NoCycle, todo |-> {}]
NoReq    == [pc |-> "idle", cycle |-> NoCycle, topic |-> FALSE, todo |-> {}]
AtRest   == [pc |-> "idle", now |-> 0, agents |-> {}, cycle |-> NoCycle, todo |-> {}]

\* Type invariant.
TypeOK ==
    /\ clock \in Time
    /\ node \in [Cycle -> NodeRec]
    /\ links \in [Cycle -> [Signal -> {"none", "scored", "override"}]]
    /\ run \in [Runner -> [pc : {"idle", "score"}, cycle : Cycle \cup {NoCycle}, todo : SUBSET Signal]]
    /\ sched \in [pc : {"idle", "cycles", "list", "check", "mark"}, now : Time,
                  agents : SUBSET Agent, cycle : Cycle \cup {NoCycle}, todo : SUBSET Cycle]
    /\ lastRun \in Time \cup {Never}
    /\ snap \in [Cycle -> NodeRec]
    /\ req \in [User -> [pc : {"idle", "attached", "received", "override", "waive"},
                         cycle : Cycle \cup {NoCycle}, topic : BOOLEAN, todo : SUBSET Signal]]
    /\ published \in [Cycle -> Nat]
    /\ schedRuns \in [Cycle -> Nat] /\ brainRuns \in [Cycle -> Nat]
    /\ firstDone \in [Cycle -> Time \cup {Never}]
    /\ requests \in 0..MaxRequests
    /\ faults \in 0..MaxFaults

Init ==
    /\ clock = 0
    /\ node = [c \in Cycle |-> NoNode]
    /\ links = [c \in Cycle |-> [s \in Signal |-> "none"]]
    /\ run = [r \in Runner |-> NoRun]
    /\ sched = AtRest
    /\ lastRun = Never
    /\ snap = [c \in Cycle |-> NoNode]
    /\ req = [u \in User |-> NoReq]
    /\ published = [c \in Cycle |-> 0]
    /\ schedRuns = [c \in Cycle |-> 0] /\ brainRuns = [c \in Cycle |-> 0]
    /\ firstDone = [c \in Cycle |-> Never]
    /\ requests = 0 /\ faults = 0

Advance ==
    /\ clock < MaxClock
    /\ clock' = clock + 1
    /\ UNCHANGED <<store, run, sched, lastRun, snap, req, history, faults>>

Fault == faults < MaxFaults /\ faults' = faults + 1

\* UpsertNode of cycle c merges the given properties into the node that is
\* there; when it fails to read that node, it stores the given ones alone.
UpsertNode(c, merged, alone) ==
    \/ node' = [node EXCEPT ![c] = merged] /\ UNCHANGED faults
    \/ node' = [node EXCEPT ![c] = alone] /\ Fault

\* ... and when nobody looks at its error, it may also do nothing.
BestEffort(c, fb) ==
    \/ UpsertNode(c, [node[c] EXCEPT !.fb = fb], [NoNode EXCEPT !.fb = fb])
    \/ Fault /\ UNCHANGED node

-----------------------------------------------------------------------------
(* cycle.go: Execute, by the scheduler or by brain_reflect.                *)

\* Upsert the node as RUNNING and PENDING, whatever it was, and gather the
\* nodes of the window.  If either fails, Execute returns.
ExecuteBegin(r, c, found) ==
    LET begun == [node[c] EXCEPT !.status = "RUNNING", !.fb = "PENDING"]
    IN  \/ /\ UpsertNode(c, begun, [NoNode EXCEPT !.status = "RUNNING", !.fb = "PENDING"])
           /\ run' = [run EXCEPT ![r] = [pc |-> "score", cycle |-> c, todo |-> found]]
        \/ /\ Fault
           /\ node' \in {node, [node EXCEPT ![c] = begun]}
           /\ UNCHANGED run

\* Score one node: the signal and its LINKS_TO edge are upserted.
ScoreNode(r, s) ==
    /\ run[r].pc = "score" /\ s \in run[r].todo
    /\ run' = [run EXCEPT ![r].todo = @ \ {s}]
    /\ \/ links' = [links EXCEPT ![run[r].cycle][s] = "scored"] /\ UNCHANGED faults
       \/ Fault /\ UNCHANGED links
    /\ UNCHANGED <<clock, node, sched, lastRun, snap, req, history>>

\* Upsert the node as COMPLETED; nobody looks at the error.  The time is stored
\* in whole seconds, less than a moment of this clock.
Complete(r) ==
    /\ run[r].pc = "score" /\ run[r].todo = {}
    /\ \/ /\ UpsertNode(run[r].cycle,
                         [node[run[r].cycle] EXCEPT !.status = "COMPLETED", !.completedAt = clock],
                         [NoNode EXCEPT !.status = "COMPLETED", !.completedAt = clock])
          /\ firstDone' = [firstDone EXCEPT ![run[r].cycle] = IF @ = Never THEN clock ELSE @]
       \/ Fault /\ UNCHANGED <<node, firstDone>>
    /\ run' = [run EXCEPT ![r] = NoRun]
    /\ UNCHANGED <<clock, links, sched, lastRun, snap, req, published, schedRuns, brainRuns, requests>>

\* brain_reflect: ExecuteForBrain takes today's daily window.
Reflect(r, a, found) ==
    LET c == CycleNodeID(a, clock)
    IN  /\ run[r].pc = "idle" /\ brainRuns[c] < MaxBrainRuns
        /\ ExecuteBegin(r, c, found)
        /\ brainRuns' = [brainRuns EXCEPT ![c] = @ + 1]
        /\ UNCHANGED <<clock, links, sched, lastRun, snap, req, published, schedRuns, firstDone, requests>>

-----------------------------------------------------------------------------
(* scheduler.go and schedule.go: one tick.                                 *)

IsDue(now) ==
    /\ now % DayLen = DueTime
    /\ lastRun # Never => now - lastRun >= MinGap

StartTick ==
    /\ sched.pc = "idle"
    /\ sched' = IF IsDue(clock)
                THEN [AtRest EXCEPT !.pc = "cycles", !.now = clock, !.agents = Agent]
                ELSE [AtRest EXCEPT !.pc = "list"]
    /\ UNCHANGED <<clock, store, run, lastRun, snap, req, history, faults>>

\* The agents one after the other; an error only skips the agent.
RunAgent(a, found) ==
    LET c == CycleNodeID(a, sched.now)
    IN  /\ sched.pc = "cycles" /\ a \in sched.agents /\ run["scheduler"].pc = "idle"
        /\ sched' = [sched EXCEPT !.agents = @ \ {a}]
        /\ ExecuteBegin("scheduler", c, found)
        /\ schedRuns' = [schedRuns EXCEPT ![c] = @ + 1]
        /\ UNCHANGED <<clock, links, lastRun, snap, req, published, brainRuns, firstDone, requests>>

EndCycles ==
    /\ sched.pc = "cycles" /\ sched.agents = {} /\ run["scheduler"].pc = "idle"
    /\ lastRun' = sched.now
    /\ sched' = [AtRest EXCEPT !.pc = "list"]
    /\ UNCHANGED <<clock, store, run, snap, req, history, faults>>

-----------------------------------------------------------------------------
(* feedback.go: CheckPending, after the cycles of the same tick.           *)

\* NodesByLabel, and the cycles of it that need something.
ListCycles ==
    /\ sched.pc = "list"
    /\ LET due == {c \in Cycle : /\ node[c].status = "COMPLETED"
                                  /\ node[c].fb \in {"PENDING", "NEEDS_FEEDBACK"}}
       IN  /\ sched' = [AtRest EXCEPT !.pc = "check", !.now = clock, !.todo = due]
           /\ snap' = [c \in Cycle |-> IF c \in due THEN node[c] ELSE NoNode]
    /\ UNCHANGED <<clock, store, run, lastRun, req, history, faults>>

\* Faulty variants: the grace period is not awaited; it never ends.
CheckGraceAtOnce(c) ==
    /\ sched.pc = "check" /\ c \in sched.todo /\ snap[c].fb = "PENDING"
    /\ BestEffort(c, "NEEDS_FEEDBACK")
    /\ sched' = [sched EXCEPT !.todo = @ \ {c}]
    /\ UNCHANGED <<clock, links, run, lastRun, snap, req, history>>
CheckGraceLate(c) ==
    /\ sched.pc = "check" /\ c \in sched.todo /\ snap[c].fb = "PENDING"
    /\ IF sched.now - snap[c].completedAt > Grace
       THEN BestEffort(c, "NEEDS_FEEDBACK")
       ELSE UNCHANGED <<node, faults>>
    /\ sched' = [sched EXCEPT !.todo = @ \ {c}]
    /\ UNCHANGED <<clock, links, run, lastRun, snap, req, history>>
\* checkGracePeriod: decided on the listed node, written to the current one.
CheckGrace(c) ==
    /\ sched.pc = "check" /\ c \in sched.todo /\ snap[c].fb = "PENDING"
    /\ IF sched.now - snap[c].completedAt >= Grace
       THEN BestEffort(c, "NEEDS_FEEDBACK")
       ELSE UNCHANGED <<node, faults>>
    /\ sched' = [sched EXCEPT !.todo = @ \ {c}]
    /\ UNCHANGED <<clock, links, run, lastRun, snap, req, history>>

\* requestFeedback: publish; if that fails, the cycle waits for the next tick.
Publish(c) ==
    /\ sched.pc = "check" /\ c \in sched.todo /\ snap[c].fb = "NEEDS_FEEDBACK"
    /\ \/ /\ published' = [published EXCEPT ![c] = @ + 1]
          /\ sched' = [sched EXCEPT !.pc = "mark", !.cycle = c, !.todo = @ \ {c}]
          /\ UNCHANGED faults
       \/ /\ Fault
          /\ sched' = [sched EXCEPT !.todo = @ \ {c}]
          /\ UNCHANGED published
    /\ UNCHANGED <<clock, store, run, lastRun, snap, req, schedRuns, brainRuns, firstDone, requests>>

\* Faulty variant: the cycle is left as it is, to be asked about again.
MarkNothing ==
    /\ sched.pc = "mark"
    /\ sched' = [sched EXCEPT !.pc = "check", !.cycle = NoCycle]
    /\ UNCHANGED <<clock, store, run, lastRun, snap, req, history, faults>>
\* ... then the upsert to REQUESTED, over whatever the status is by now.
MarkRequested ==
    /\ sched.pc = "mark"
    /\ BestEffort(sched.cycle, "REQUESTED")
    /\ sched' = [sched EXCEPT !.pc = "check", !.cycle = NoCycle]
    /\ UNCHANGED <<clock, links, run, lastRun, snap, req, history>>

EndTick ==
    /\ sched.pc = "check" /\ sched.todo = {}
    /\ sched' = AtRest
    /\ snap' = [c \in Cycle |-> NoNode]
    /\ UNCHANGED <<clock, store, run, lastRun, req, history, faults>>

-----------------------------------------------------------------------------
(* Feedback and waivers.                                                   *)

NewRequest(u) ==
    /\ req[u].pc = "idle"
    /\ requests < MaxRequests
    /\ requests' = requests + 1

\* HandleHumanFeedback (topic) or brain.Feedback (which insists that the cycle
\* exists): the HumanFeedback node and its edge are written.
AttachFeedback(u, c, topic) ==
    /\ NewRequest(u)
    /\ topic \/ node[c] # NoNode
    /\ req' = [req EXCEPT ![u] = [pc |-> "attached", cycle |-> c, topic |-> topic, todo |-> {}]]
    /\ UNCHANGED <<clock, store, run, sched, lastRun, snap, published, schedRuns, brainRuns, firstDone, faults>>

\* The cycle becomes RECEIVED.  If the upsert fails, the handler returns; the
\* brain tool goes on.
Receive(u) ==
    /\ req[u].pc = "attached"
    /\ \/ /\ UpsertNode(req[u].cycle, [node[req[u].cycle] EXCEPT !.fb = "RECEIVED"],
                         [NoNode EXCEPT !.fb = "RECEIVED"])
          /\ req' = [req EXCEPT ![u].pc = "received"]
       \/ /\ Fault
          /\ req' = [req EXCEPT ![u] = IF @.topic THEN NoReq ELSE [@ EXCEPT !.pc = "received"]]
          /\ UNCHANGED node
    /\ UNCHANGED <<clock, links, run, sched, lastRun, snap, history>>

\* applyScoreOverrides: the cycle's LINKS_TO edges, none if all scores are zero.
ReadLinks(u) ==
    /\ req[u].pc = "received"
    /\ LET linked == {s \in Signal : links[req[u].cycle][s] # "none"}
       IN  \E over \in {linked, {}} :
              req' = [req EXCEPT ![u] = [@ EXCEPT !.pc = "override", !.todo = over]]
    /\ UNCHANGED <<clock, store, run, sched, lastRun, snap, history, faults>>

Override(u, s) ==
    /\ req[u].pc = "override" /\ s \in req[u].todo
    /\ \/ links' = [links EXCEPT ![req[u].cycle][s] = "override"] /\ UNCHANGED faults
       \/ Fault /\ UNCHANGED links
    /\ req' = [req EXCEPT ![u].todo = @ \ {s}]
    /\ UNCHANGED <<clock, node, run, sched, lastRun, snap, history>>

EndFeedback(u) ==
    /\ req[u].pc = "override" /\ req[u].todo = {}
    /\ req' = [req EXCEPT ![u] = NoReq]
    /\ UNCHANGED <<clock, store, run, sched, lastRun, snap, history, faults>>

\* handleWaiveCycle: read and check the status (else 409) ...
WaiveRead(u, c) ==
    /\ NewRequest(u)
    /\ node[c].fb \in {"NEEDS_FEEDBACK", "REQUESTED"}
    /\ req' = [req EXCEPT ![u] = [pc |-> "waive", cycle |-> c, topic |-> FALSE, todo |-> {}]]
    /\ UNCHANGED <<clock, store, run, sched, lastRun, snap, published, schedRuns, brainRuns, firstDone, faults>>

\* ... then upsert, over whatever the status is by now.
WaiveWrite(u) ==
    /\ req[u].pc = "waive"
    /\ BestEffort(req[u].cycle, "WAIVED")
    /\ req' = [req EXCEPT ![u] = NoReq]
    /\ UNCHANGED <<clock, links, run, sched, lastRun, snap, history>>

\* The process dies and is restarted.
Crash ==
    /\ Fault
    /\ run' = [r \in Runner |-> NoRun]
    /\ sched' = AtRest /\ lastRun' = Never /\ snap' = [c \in Cycle |-> NoNode]
    /\ req' = [u \in User |-> NoReq]
    /\ UNCHANGED <<clock, store, history>>

SchedulerStep ==
    \/ StartTick \/ EndCycles \/ ListCycles \/ MarkRequested \/ EndTick
    \/ \E a \in Agent, found \in SUBSET Signal : RunAgent(a, found)
    \/ \E s \in Signal : ScoreNode("scheduler", s)
    \/ Complete("scheduler")
    \/ \E c \in Cycle : CheckGrace(c) \/ Publish(c)

BrainStep ==
    \E r \in Brain :
        \/ \E a \in Agent, found \in SUBSET Signal : Reflect(r, a, found)
        \/ \E s \in Signal : ScoreNode(r, s)
        \/ Complete(r)

UserStep ==
    \E u \in User :
        \/ \E c \in Cycle : WaiveRead(u, c) \/ \E topic \in BOOLEAN : AttachFeedback(u, c, topic)
        \/ Receive(u) \/ ReadLinks(u) \/ EndFeedback(u) \/ WaiveWrite(u)
        \/ \E s \in Signal : Override(u, s)

Next == Advance \/ SchedulerStep \/ BrainStep \/ UserStep \/ Crash

Spec == Init /\ [][Next]_vars

\* Time passes, and the scheduler goroutine's ticker never stops.
FairSpec == Spec /\ WF_vars(Advance) /\ WF_vars(SchedulerStep)

-----------------------------------------------------------------------------
(* Properties.                                                             *)

\* The owner is asked about a cycle at most once per execution of it, whatever
\* feedback, waivers and other executions come between CheckPending's listing
\* and its writes; only a fault (a crash or a failed write between the publish
\* and the mark) makes it ask again.
RequestsBounded ==
    \A c \in Cycle : published[c] <= schedRuns[c] + brainRuns[c] + faults

\* No request goes out before the grace period has passed since the cycle first
\* completed, and a cycle is marked REQUESTED only after a request went out.
GraceRespected ==
    \A c \in Cycle :
        /\ published[c] > 0 => firstDone[c] # Never /\ clock >= firstDone[c] + Grace
        /\ node[c].fb = "REQUESTED" => published[c] > 0

\* A completed cycle whose grace period ends is eventually asked about, unless
\* feedback or a waiver comes first: no lost update leaves it forgotten.  Only a
\* completion that could not read its node does: it stores a cycle without any
\* feedback status, which CheckPending passes over.
EventuallyAsked ==
    <>[](\A c \in Cycle :
            /\ node[c].status = "COMPLETED" /\ node[c].fb # "none"
            /\ node[c].completedAt + Grace <= MaxClock
            => node[c].fb \in {"REQUESTED", "RECEIVED", "WAIVED"})
=============================================================================
