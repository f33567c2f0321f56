------------------------------- MODULE Schedule -------------------------------
(***************************************************************************)
(* Package reflect on the calendar: which cycles the scheduler starts,     *)
(* what window each of them covers, and which earlier cycles a weekly or   *)
(* monthly cycle rolls up.  Module Reflection looks inside one cycle and   *)
(* lets its steps interleave, best-effort writes fail and feedback be      *)
(* asked for; here an execution is one step, all its writes take effect,   *)
(* and the time runs over weeks and months.                                *)
(*                                                                         *)
(* Time is counted in hours from midnight of day 0, the first of a month.  *)
(* A time stands for the minute HH:00: several ticks, or none, may fall in *)
(* it.  The clock stops at the schedules' hours and at OtherHours, where   *)
(* agents work and brain_reflect is called.  A node created at a time is   *)
(* created after the ticks of that minute began.                           *)
(***************************************************************************)
EXTENDS Integers, FiniteSets, Sequences

CONSTANTS
    Named, Ingested,  \* agents with and without a "name" property
    BrainAgents,      \* agent identifiers brain_reflect is called with
    BrainHours,       \* its windowHours
    Scenarios,        \* configured schedules, with the first and last day looked at
                      \* and the bound on everything but ticks: work, reflections, faults
    MonthStart,       \* the day each month starts on; the last one ends the calendar
    FirstWeekday,     \* weekday of day 0, Sunday is 0
    OtherHours

CycleType  == {"daily", "weekly", "monthly"}

\* Names are different; no month has fewer than 28 days; the days looked at are
\* in the calendar.
ASSUME ScheduleAssumption ==
    /\ Named \cap Ingested = {} /\ Named \cup Ingested \subseteq STRING
    /\ BrainAgents \subseteq Seq(STRING)
    /\ BrainHours \subseteq Nat \ {0}
    /\ MonthStart \in Seq(Nat) /\ Len(MonthStart) > 1 /\ MonthStart[1] = 0
    /\ \A m, n \in 1..Len(MonthStart) : m < n => MonthStart[m] + 28 <= MonthStart[n]
    /\ FirstWeekday \in 0..6
    /\ \A s \in Scenarios :
          /\ s.first \in Nat /\ s.last \in Nat /\ s.first <= s.last /\ s.last < MonthStart[Len(MonthStart)]
          /\ s.maxEvents \in Nat
          /\ \A ct \in CycleType : s[ct].hour \in 0..23 /\ s[ct].dow \in Int /\ s[ct].dom \in Int

-----------------------------------------------------------------------------
(* The calendar (package time).                                            *)

Day(t)     == t \div 24
Hour(t)    == t % 24
Weekday(t) == (FirstWeekday + Day(t)) % 7
MonthOf(t) == CHOOSE m \in 1..(Len(MonthStart) - 1) :
                  MonthStart[m] <= Day(t) /\ Day(t) < MonthStart[m + 1]
DayOfMonth(t) == Day(t) - MonthStart[MonthOf(t)] + 1

-----------------------------------------------------------------------------
(* schedule.go                                                             *)

AnyWeekday == -1
AnyDay     == 0
Never      == -1

\* Every schedule parsed from the configuration is enabled; a day of the month
\* that is not positive means every day.
ParseSchedule(hour, weekday, dayOfMonth) ==
    [hour |-> hour, dow |-> weekday, dom |-> IF dayOfMonth > 0 THEN dayOfMonth ELSE AnyDay]

\* The time of day, the weekday and the day of the month match.
Matches(s, now) ==
    /\ Hour(now) = s.hour
    /\ s.dow # AnyWeekday => Weekday(now) = s.dow
    /\ s.dom # AnyDay => DayOfMonth(now) = s.dom

\* Faulty variants: a month has 30 days; there is no gap.
MinGapMonth(s) ==
    IF s.dom # AnyDay THEN 30 * 24 ELSE IF s.dow # AnyWeekday THEN 6 * 24 ELSE 23
MinGapNone(s)  == 0
MinGap(s) ==
    IF s.dom # AnyDay THEN 27 * 24 ELSE IF s.dow # AnyWeekday THEN 6 * 24 ELSE 23

IsDue(s, now, last) == Matches(s, now) /\ (last # Never => now - last >= MinGap(s))

-----------------------------------------------------------------------------
(* cycleid.go                                                              *)

Midnight(d) == 24 * d

\* Faulty variants: the last 24 hours; Sunday is the day before Monday.
WindowStartRolling(ct, t) == t - 24
WindowStartSunday(ct, t) ==
    CASE ct = "daily"   -> Midnight(Day(t))
      [] ct = "weekly"  -> Midnight(Day(t) - (Weekday(t) - 1))
      [] ct = "monthly" -> Midnight(MonthStart[MonthOf(t)])
\* DailyWindowStart, WeeklyWindowStart, MonthlyWindowStart: midnight, the most
\* recent Monday, the first of the month.
WindowStart(ct, t) ==
    CASE ct = "daily"   -> Midnight(Day(t))
      [] ct = "weekly"  -> LET weekday == IF Weekday(t) = 0 THEN 7 ELSE Weekday(t)
                           IN  Midnight(Day(t) - (weekday - 1))
      [] ct = "monthly" -> Midnight(MonthStart[MonthOf(t)])

\* Node IDs as the sequence of their parts.
CycleNodeID(ct, agent, ws) == [type |-> ct, agent |-> agent, ws |-> ws]
AgentNodeID(agent) == <<"n", "Agent">> \o agent

-----------------------------------------------------------------------------
VARIABLES
    clock,
    conf,       \* the scenario: the configuration of the process, and the bounds
    lastRun,    \* Scheduler.lastRun, in memory only
    cycles,     \* ReflectionCycle nodes: windowEnd; history: first and number
                \* of executions by the scheduler
    rollups,    \* ROLLUP_OF edges
    signals,    \* LINKS_TO edges: the cycle and the node its signal is about
    work,       \* messages and conversations linked to an agent
    ticked,     \* history: a tick without a fault fell into this minute
    missed,     \* history: the times no such tick fell into
    failed,     \* history: calls that failed during a tick
    restarts,   \* history: number of restarts
    events      \* events so far

graph == <<cycles, rollups, signals, work>>
vars == <<clock, conf, lastRun, graph, ticked, missed, failed, restarts, events>>

Agent == Named \cup Ingested

\* An agent's node, and the identifier tick takes from it: its name, else
\* the ID of the node.
NodeOf(a)  == AgentNodeID(<<a>>)
AgentID(a) == IF a \in Named THEN <<a>> ELSE NodeOf(a)

\* Times the clock stops at.
Hours == OtherHours \cup {conf[ct].hour : ct \in CycleType}
Start == Midnight(conf.first)
End   == Midnight(conf.last + 1)
Later == {t \in (clock + 1)..(clock + 24) : Hour(t) \in Hours /\ t < End}

CycleIDs == [type : CycleType, agent : {AgentID(a) : a \in Agent} \cup BrainAgents,
             ws : {Midnight(d) : d \in -6..conf.last}]
WorkNode == [at : 0..End, agent : {NodeOf(a) : a \in Agent}]

\* Type invariant.
TypeOK ==
    /\ clock \in Start..End
    /\ conf \in Scenarios
    /\ lastRun \in [CycleType -> (0..End) \cup {Never}]
    /\ \A id \in DOMAIN cycles :
          /\ id \in CycleIDs
          /\ cycles[id] \in [we : 0..End, at : (0..End) \cup {Never}, runs : Nat]
    /\ work \subseteq WorkNode
    /\ signals \subseteq (DOMAIN cycles) \X work
    /\ rollups \subseteq (DOMAIN cycles) \X (DOMAIN cycles)
    /\ ticked \in BOOLEAN
    /\ missed \subseteq 0..End
    /\ failed \subseteq [at : 0..End, type : CycleType, call : {"list", "execute"}, agent : {<<>>} \cup {AgentID(a) : a \in Agent}]
    /\ restarts \in 0..events /\ events \in 0..conf.maxEvents

Init ==
    /\ conf \in Scenarios
    /\ clock = Start
    /\ lastRun = [ct \in CycleType |-> Never]
    /\ cycles = <<>> /\ rollups = {} /\ signals = {} /\ work = {}
    /\ ticked = FALSE /\ missed = {} /\ failed = {}
    /\ restarts = 0 /\ events = 0

Event == events < conf.maxEvents /\ events' = events + 1

-----------------------------------------------------------------------------
(* cycle.go                                                                *)

\* aggregatePriorCycles: the cycles one level below that start in the window,
\* of every agent.
PriorType == [weekly |-> "daily", monthly |-> "weekly"]
PriorCycles(known, ct, ws, we) ==
    IF ct \in DOMAIN PriorType
    THEN {p \in known : p.type = PriorType[ct] /\ ws <= p.ws /\ p.ws < we}
    ELSE {}

\* AgentNodesInWindow: a node linked to the agent and created in the window.
InWindow(n, agent, ws, we) == n.agent = AgentNodeID(agent) /\ ws <= n.at /\ n.at < we

\* What a step sees of the graph, and of the scheduler.
Current == [cycles |-> cycles, rollups |-> rollups, signals |-> signals, lastRun |-> lastRun]

\* Execute for some agents: cycles of one type do not see each other.  by says
\* who calls it.
Execute(s, ct, agents, ws, we, by) ==
    LET ids == {CycleNodeID(ct, a, ws) : a \in agents}
        old(id) == IF id \in DOMAIN s.cycles THEN s.cycles[id]
                   ELSE [we |-> we, at |-> Never, runs |-> 0]
        new(id) == [we   |-> we,
                    at   |-> IF by = "scheduler" /\ old(id).at = Never THEN clock ELSE old(id).at,
                    runs |-> IF by = "scheduler" THEN old(id).runs + 1 ELSE old(id).runs]
        all == [id \in DOMAIN s.cycles \cup ids |-> IF id \in ids THEN new(id) ELSE s.cycles[id]]
    IN  [cycles  |-> all,
         signals |-> s.signals \cup {p \in ids \X work : InWindow(p[2], p[1].agent, ws, we)},
         rollups |-> s.rollups \cup (ids \X PriorCycles(DOMAIN all, ct, ws, we)),
         lastRun |-> s.lastRun]

Became(s) == cycles' = s.cycles /\ rollups' = s.rollups /\ signals' = s.signals /\ lastRun' = s.lastRun

\* brain_reflect: ExecuteForBrain takes the first hours of the day, up to now.
ExecuteForBrain(agent, windowHours) ==
    LET ws == WindowStart("daily", clock)
        we == IF ws + windowHours > clock THEN clock ELSE ws + windowHours
    IN  /\ Event
        /\ Became(Execute(Current, "daily", {agent}, ws, we, "brain"))
        /\ UNCHANGED <<clock, conf, work, ticked, missed, failed, restarts>>

-----------------------------------------------------------------------------
(* scheduler.go                                                            *)

\* Faulty variant: the longest schedule first.
SchedulesLongest == <<"monthly", "weekly", "daily">>
\* tick goes through the schedules in this order.
Schedules == <<"daily", "weekly", "monthly">>

\* A fault of a tick: NodesByLabel fails for a schedule, or the first upsert
\* of Execute fails for an agent of it.
NoFault == [type |-> "none", call |-> "none", agent |-> <<>>]
Faults  == [type : {ct \in CycleType : IsDue(conf[ct], clock, lastRun[ct])},
            call : {"list"}, agent : {<<>>}]
           \cup [type : {ct \in CycleType : IsDue(conf[ct], clock, lastRun[ct])},
                 call : {"execute"}, agent : {AgentID(a) : a \in Agent}]

\* One schedule: the cycles of all agents.  A failed listing leaves lastRun
\* alone, a failed cycle does not.
RunSchedule(s, ct, fault) ==
    IF \/ ~IsDue(conf[ct], clock, s.lastRun[ct])
       \/ fault.type = ct /\ fault.call = "list"
    THEN s
    ELSE LET able == {AgentID(a) : a \in Agent} \ (IF fault.type = ct THEN {fault.agent} ELSE {})
         IN  [Execute(s, ct, able, WindowStart(ct, clock), clock, "scheduler") EXCEPT
                 !.lastRun = [s.lastRun EXCEPT ![ct] = clock]]

Tick(fault) ==
    LET first  == RunSchedule(Current, Schedules[1], fault)
        second == RunSchedule(first, Schedules[2], fault)
    IN  /\ Became(RunSchedule(second, Schedules[3], fault))
        /\ \/ fault = NoFault /\ ticked' = TRUE /\ UNCHANGED <<failed, events>>
           \/ /\ fault # NoFault /\ Event
              /\ failed' = failed \cup {[at |-> clock, type |-> fault.type, call |-> fault.call, agent |-> fault.agent]}
              /\ UNCHANGED ticked
        /\ UNCHANGED <<clock, conf, work, missed, restarts>>

\* Time passes.  The ticker drops a tick that finds the scheduler busy, and
\* there is none while the process is down.
Advance ==
    /\ Later # {}
    /\ clock' = CHOOSE t \in Later : \A u \in Later : t <= u
    /\ \/ ticked /\ UNCHANGED <<missed, events>>
       \/ ~ticked /\ Event /\ missed' = missed \cup {clock}
    /\ ticked' = FALSE
    /\ UNCHANGED <<conf, lastRun, graph, failed, restarts>>

\* The process stops and starts again: NewScheduler.
Restart ==
    /\ Event
    /\ lastRun' = [ct \in CycleType |-> Never]
    /\ restarts' = restarts + 1
    /\ UNCHANGED <<clock, conf, graph, ticked, missed, failed>>

\* Ingest writes a node and links it to the agent's node.
Work(a) ==
    /\ Event
    /\ work' = work \cup {[at |-> clock, agent |-> NodeOf(a)]}
    /\ UNCHANGED <<clock, conf, lastRun, cycles, rollups, signals, ticked, missed, failed, restarts>>

Next ==
    \/ Advance
    \/ \E fault \in Faults \cup {NoFault} : Tick(fault)
    \/ \E agent \in BrainAgents, h \in BrainHours : ExecuteForBrain(agent, h)
    \/ Restart
    \/ \E a \in Agent : Work(a)

Spec == Init /\ [][Next]_vars

-----------------------------------------------------------------------------
(* Properties.                                                             *)

\* The times up to now at which a schedule is due, by its configuration alone.
DueTimes(ct) ==
    {t \in {Midnight(d) + conf[ct].hour : d \in conf.first..Day(clock)} :
        t <= clock /\ Matches(conf[ct], t)}

ListFailed(t, ct) == \E f \in failed : f.at = t /\ f.type = ct /\ f.call = "list"
CycleFailed(t, id) == \E f \in failed : f.at = t /\ f.type = id.type /\ f.call = "execute" /\ f.agent = id.agent

\* "Minimum gap guard to prevent double-firing" never suppresses a due cycle:
\* if a tick without a fault falls into the due minute, every agent has the
\* cycle once the minute is over unless its own execution failed, in a February
\* as in any month, after restarts and missed ticks, and when an earlier tick of
\* the same minute could not list the agents.
NothingMissed ==
    \A ct \in CycleType : \A t \in DueTimes(ct) \ missed : \A a \in Agent :
        LET id == CycleNodeID(ct, AgentID(a), WindowStart(ct, t))
        IN  (t < clock \/ ticked) /\ ~CycleFailed(t, id) => id \in DOMAIN cycles /\ cycles[id].at # Never

\* However many ticks fall into the due minute, the scheduler executes a cycle
\* once per due time in its period; only a restart in that minute repeats it.
OncePerDueTime ==
    \A id \in DOMAIN cycles :
        cycles[id].runs <=
            restarts + Cardinality({t \in DueTimes(id.type) : WindowStart(id.type, t) = id.ws})

\* The windows of an agent's cycles of one type never overlap, whoever
\* executed them last and however short the window brain_reflect asked for;
\* none starts after it ends or ends in the future.
WindowsDisjoint ==
    \A i \in DOMAIN cycles :
        /\ i.ws <= cycles[i].we /\ cycles[i].we <= clock
        /\ \A j \in DOMAIN cycles :
              i.ws < j.ws /\ j.ws < cycles[i].we => i.type # j.type \/ i.agent # j.agent

\* A message is scored by one cycle of each type at most: executing a cycle
\* again, by the scheduler or by brain_reflect, yields the same signal.
CountedOnce ==
    \A p, q \in signals : p[2] = q[2] /\ p[1].type = q[1].type => p[1] = q[1]

\* A weekly or monthly cycle rolls up only cycles of the level below that start
\* in its window, and every one of them that the scheduler has executed by then:
\* on a day when both are due the shorter one is there first, unless listing the
\* agents failed for it, or its own execution.
RollupsRight ==
    /\ \A p \in rollups :
          /\ p[1].type \in DOMAIN PriorType /\ p[2].type = PriorType[p[1].type]
          /\ p[1].ws <= p[2].ws /\ p[2].ws < cycles[p[1]].we
    /\ \A i \in {c \in DOMAIN cycles : c.type \in DOMAIN PriorType} :
       \A j \in {c \in DOMAIN cycles : i.ws <= c.ws /\ c.ws < cycles[i].we} :
          /\ j.type = PriorType[i.type]
          /\ cycles[j].at # Never /\ cycles[j].at <= cycles[i].at
          /\ ~ListFailed(cycles[i].at, j.type) /\ ~CycleFailed(cycles[i].at, j)
          => <<i, j>> \in rollups
=============================================================================
