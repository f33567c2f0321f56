---------------------------- MODULE ScheduleProofs ----------------------------
(***************************************************************************)
(* Proofs about Schedule, for any agents, any calendar whose months have   *)
(* 28 days or more, any configured schedules and any number of events.     *)
(***************************************************************************)
EXTENDS Schedule, FiniteSetTheorems, SequenceTheorems, WellFoundedInduction, TLAPS

-----------------------------------------------------------------------------
(* The calendar.                                                           *)

\* A time of the calendar.
Cal(t) == t \in Nat /\ Day(t) < MonthStart[Len(MonthStart)]

\* A set of natural numbers that is not empty has a least one.
LEMMA LeastNat ==
    ASSUME NEW S, S \subseteq Nat, S # {}
    PROVE  \E m \in S : \A n \in S : m <= n
<1>1. PICK m \in S : \A n \in S : ~(<<n, m>> \in OpToRel(<, Nat))
  BY WFMin, NatLessThanWellFounded
<1>2. \A n \in S : ~(n < m)
  BY <1>1 DEF OpToRel
<1> QED
  BY <1>2

\* The time of day.
LEMMA DayAndHour ==
    ASSUME NEW t \in Int
    PROVE  /\ Day(t) \in Int /\ Hour(t) \in 0..23
           /\ t = 24 * Day(t) + Hour(t)
           /\ t \in Nat => Day(t) \in Nat
BY DEF Day, Hour

\* A time before midnight is on the day before, or an earlier one.
LEMMA DayBelow ==
    ASSUME NEW t \in Nat, NEW n \in Nat
    PROVE  /\ Day(t) \in Nat /\ (t < 24 * (n + 1) => Day(t) <= n)
           /\ t = 24 * n => Day(t) = n
BY DEF Day

\* Later times are on the same day or a later one.
LEMMA DayGrows ==
    ASSUME NEW t \in Int, NEW u \in Int, t <= u
    PROVE  Day(t) <= Day(u)
BY DEF Day

\* A time belongs to one month.
LEMMA MonthFacts ==
    ASSUME NEW t, Cal(t)
    PROVE  /\ MonthOf(t) \in 1..(Len(MonthStart) - 1)
           /\ MonthStart[MonthOf(t)] \in Nat /\ MonthStart[MonthOf(t)] <= Day(t)
           /\ Day(t) < MonthStart[MonthOf(t) + 1]
<1> DEFINE L == Len(MonthStart)
           S == {m \in 1..L : Day(t) < MonthStart[m]}
<1>1. L \in Nat /\ L > 1 /\ (\A m \in 1..L : MonthStart[m] \in Nat) /\ MonthStart[1] = 0
  BY ScheduleAssumption
<1>2. Day(t) \in Nat /\ Day(t) < MonthStart[L]
  BY DayAndHour DEF Cal
<1>3. L \in S /\ S \subseteq Nat
  BY <1>1, <1>2
<1>4. PICK m \in S : \A n \in S : m <= n
  BY <1>3, LeastNat
<1>5. m # 1
  BY <1>1, <1>2, <1>4
<1> DEFINE k == m - 1
<1>6. k \in 1..(L - 1) /\ k + 1 = m /\ k \in 1..L /\ k < m
  BY <1>1, <1>4, <1>5
<1>7. k \notin S
  BY <1>4, <1>6, <1>1
<1>8. MonthStart[k] <= Day(t) /\ Day(t) < MonthStart[k + 1]
  BY <1>1, <1>2, <1>4, <1>6, <1>7
<1>9. MonthOf(t) \in 1..(L - 1) /\ MonthStart[MonthOf(t)] <= Day(t) /\ Day(t) < MonthStart[MonthOf(t) + 1]
  <2> HIDE DEF k, S
  <2>1. \E x \in 1..(L - 1) : MonthStart[x] <= Day(t) /\ Day(t) < MonthStart[x + 1]
    BY <1>6, <1>8
  <2> QED
    BY <2>1 DEF MonthOf
<1> QED
  BY <1>1, <1>9

\* Months follow each other.
LEMMA MonthGrows ==
    ASSUME NEW m \in 1..Len(MonthStart), NEW n \in 1..Len(MonthStart), m <= n
    PROVE  MonthStart[m] <= MonthStart[n]
<1>1. Len(MonthStart) \in Nat /\ \A x \in 1..Len(MonthStart) : MonthStart[x] \in Nat
  BY ScheduleAssumption
<1>2. CASE m = n
  BY <1>1, <1>2
<1>3. CASE m < n
  BY <1>1, <1>3, ScheduleAssumption
<1> QED
  BY <1>1, <1>2, <1>3

\* A window starts before the time it is taken for, and no window of the same
\* type starts between the two.
LEMMA Period ==
    ASSUME NEW ct \in CycleType, NEW t, Cal(t), NEW u, Cal(u)
    PROVE  /\ WindowStart(ct, t) \in Int /\ WindowStart(ct, t) <= t
           /\ WindowStart(ct, u) <= t => WindowStart(ct, u) <= WindowStart(ct, t)
<1>0. t \in Nat /\ u \in Nat /\ t \in Int /\ u \in Int
  BY DEF Cal
<1> DEFINE d == Day(t)
           e == Day(u)
<1>1. d \in Nat /\ Hour(t) \in 0..23 /\ t = 24 * d + Hour(t) /\ e \in Nat /\ Hour(u) \in 0..23 /\ u = 24 * e + Hour(u)
  BY <1>0, DayAndHour
<1>2. CASE ct = "daily"
  <2>1. WindowStart(ct, t) = 24 * d /\ WindowStart(ct, u) = 24 * e
    BY <1>2 DEF WindowStart, Midnight
  <2> HIDE DEF d, e
  <2> QED
    BY <1>0, <1>1, <2>1
<1>3. CASE ct = "weekly"
  <2> DEFINE w(x) == IF (FirstWeekday + x) % 7 = 0 THEN 7 ELSE (FirstWeekday + x) % 7
  <2>1. WindowStart(ct, t) = 24 * (d - (w(d) - 1)) /\ WindowStart(ct, u) = 24 * (e - (w(e) - 1))
    BY <1>3 DEF WindowStart, Midnight, Weekday
  <2>2. FirstWeekday \in 0..6
    BY ScheduleAssumption
  <2> HIDE DEF d, e
  <2>3. w(d) \in 1..7 /\ w(e) \in 1..7
    BY <1>1, <2>2
  <2>4. e - (w(e) - 1) <= d => e - (w(e) - 1) <= d - (w(d) - 1)
    BY <1>1, <2>2
  <2> HIDE DEF w
  <2> QED
    BY <1>0, <1>1, <2>1, <2>3, <2>4
<1>4. CASE ct = "monthly"
  <2> DEFINE m == MonthOf(t)
             n == MonthOf(u)
             L == Len(MonthStart)
  <2>1. WindowStart(ct, t) = 24 * MonthStart[m] /\ WindowStart(ct, u) = 24 * MonthStart[n]
    BY <1>4 DEF WindowStart, Midnight
  <2>2. /\ m \in 1..(L - 1) /\ MonthStart[m] \in Nat /\ MonthStart[m] <= d /\ d < MonthStart[m + 1]
        /\ n \in 1..(L - 1) /\ MonthStart[n] \in Nat
    BY MonthFacts
  <2>3. L \in Nat /\ \A x \in 1..L : MonthStart[x] \in Nat
    BY ScheduleAssumption
  <2> HIDE DEF d, m, n, L
  <2>4. m + 1 \in 1..L /\ m \in 1..L /\ n \in 1..L
    BY <2>2, <2>3
  <2>5. ASSUME MonthStart[n] <= d PROVE MonthStart[n] <= MonthStart[m]
    <3>1. CASE n <= m
      BY <2>4, <3>1, MonthGrows DEF L
    <3>2. CASE m + 1 <= n
      <4>1. MonthStart[m + 1] <= MonthStart[n]
        BY <2>4, <3>2, MonthGrows DEF L
      <4> QED
        BY <1>1, <2>2, <2>3, <2>4, <2>5, <4>1
    <3> QED
      BY <2>2, <2>3, <3>1, <3>2
  <2>6. 24 * MonthStart[n] <= t => MonthStart[n] <= d
    BY <1>1, <2>2
  <2>7. 24 * MonthStart[m] <= t
    BY <1>1, <2>2
  <2> QED
    BY <2>1, <2>2, <2>5, <2>6, <2>7
<1> QED
  BY <1>2, <1>3, <1>4 DEF CycleType

\* All times from the start of a window to a time in it are in that window.
LEMMA SameWindow ==
    ASSUME NEW ct \in CycleType, NEW t, Cal(t), NEW u, Cal(u), WindowStart(ct, u) <= t, t <= u
    PROVE  WindowStart(ct, t) = WindowStart(ct, u)
<1>1. WindowStart(ct, t) \in Int /\ WindowStart(ct, u) \in Int /\ t \in Nat /\ u \in Nat
  BY Period DEF Cal
<1>2. WindowStart(ct, u) <= WindowStart(ct, t) /\ WindowStart(ct, t) <= t
  BY Period
<1>3. WindowStart(ct, t) <= u
  BY <1>1, <1>2
<1>4. WindowStart(ct, t) <= WindowStart(ct, u)
  BY <1>3, Period
<1> QED
  BY <1>1, <1>2, <1>4

\* The minimum gap is shorter than the time between two times a schedule matches,
\* in a February too.
LEMMA GapIsShort ==
    ASSUME NEW s, s.hour \in Int, s.dow \in Int, s.dom \in Int, NEW t, Cal(t), NEW u, Cal(u),
           Matches(s, u), Matches(s, t), u < t
    PROVE  t - u >= MinGap(s)
<1>0. t \in Nat /\ u \in Nat /\ t \in Int /\ u \in Int
  BY DEF Cal
<1> DEFINE d == Day(t)
           e == Day(u)
<1>1. d \in Nat /\ Hour(t) \in 0..23 /\ t = 24 * d + Hour(t) /\ e \in Nat /\ Hour(u) \in 0..23 /\ u = 24 * e + Hour(u)
  BY <1>0, DayAndHour
<1>2. Hour(t) = Hour(u)
  BY DEF Matches
<1>3. e < d /\ t - u = 24 * (d - e)
  <2> HIDE DEF d, e
  <2> QED
    BY <1>1, <1>2
<1>4. CASE s.dom # AnyDay
  <2> DEFINE m == MonthOf(t)
             n == MonthOf(u)
             L == Len(MonthStart)
  <2>1. d - MonthStart[m] + 1 = e - MonthStart[n] + 1
    BY <1>4 DEF Matches, DayOfMonth
  <2>2. /\ m \in 1..(L - 1) /\ MonthStart[m] \in Nat /\ MonthStart[m] <= d /\ d < MonthStart[m + 1]
        /\ n \in 1..(L - 1) /\ MonthStart[n] \in Nat /\ MonthStart[n] <= e /\ e < MonthStart[n + 1]
    BY MonthFacts
  <2>3. L \in Nat /\ \A x \in 1..L : MonthStart[x] \in Nat
    BY ScheduleAssumption
  <2> HIDE DEF d, e, m, n, L
  <2>4. m \in 1..L /\ n \in 1..L
    BY <2>2, <2>3
  <2>5. MonthStart[n] < MonthStart[m]
    BY <1>1, <1>3, <2>1, <2>2
  <2>6. n < m
    <3>1. CASE m <= n
      <4>1. MonthStart[m] <= MonthStart[n]
        BY <2>4, <3>1, MonthGrows DEF L
      <4> QED
        BY <2>2, <2>5, <4>1
    <3> QED
      BY <2>2, <2>3, <3>1
  <2>7. MonthStart[n] + 28 <= MonthStart[m]
    BY <2>4, <2>6, ScheduleAssumption DEF L
  <2>8. d - e >= 28
    BY <1>1, <2>1, <2>2, <2>7
  <2>9. MinGap(s) = 27 * 24
    BY <1>4 DEF MinGap
  <2> QED
    BY <1>1, <1>3, <2>8, <2>9
<1>5. CASE s.dom = AnyDay /\ s.dow # AnyWeekday
  <2>1. (FirstWeekday + d) % 7 = (FirstWeekday + e) % 7
    BY <1>5 DEF Matches, Weekday
  <2>2. FirstWeekday \in 0..6
    BY ScheduleAssumption
  <2> HIDE DEF d, e
  <2>3. d - e >= 7
    BY <1>1, <1>3, <2>1, <2>2
  <2>4. MinGap(s) = 6 * 24
    BY <1>5 DEF MinGap
  <2> QED
    BY <1>1, <1>3, <2>3, <2>4
<1>6. CASE s.dom = AnyDay /\ s.dow = AnyWeekday
  <2>1. MinGap(s) = 23
    BY <1>6 DEF MinGap
  <2> HIDE DEF d, e
  <2> QED
    BY <1>1, <1>3, <2>1
<1> QED
  BY <1>4, <1>5, <1>6

\* There is a gap.
LEMMA GapIsPositive ==
    ASSUME NEW s
    PROVE  MinGap(s) \in Nat /\ MinGap(s) > 0
BY DEF MinGap

-----------------------------------------------------------------------------
(* The inductive invariant, over cycles cs, roll-ups ru, signals sg, last    *)
(* runs lr, failures fl, restarts rs, a configuration cf and a time now.     *)

\* The parts of identifiers: the strings.  The provers do not know that a literal is one.
Part == STRING \cup {"n", "Agent"}

IdRec  == [type : CycleType, agent : Seq(Part), ws : Int]
CycRec == [we : Int, at : Int, runs : Nat]

\* A cycle ends in the window it starts, and was first executed in it.
CyclesOK(cs, now) ==
    \A id \in DOMAIN cs :
        LET c == cs[id]
        IN  /\ id \in IdRec /\ c \in CycRec
            /\ Cal(c.we) /\ c.we <= now /\ id.ws = WindowStart(id.type, c.we)
            /\ c.at # Never => Cal(c.at) /\ c.at <= now /\ id.ws = WindowStart(id.type, c.at)
            /\ id.type # "daily" => c.at # Never

\* An agent's cycle for time t was executed, or its execution failed.
IdOf(a, ct, t) == CycleNodeID(ct, AgentID(a), WindowStart(ct, t))
Failed(fl, t, id) == \E f \in fl : f.at = t /\ f.type = id.type /\ f.call = "execute" /\ f.agent = id.agent
NotListed(fl, t, ct) == \E f \in fl : f.at = t /\ f.type = ct /\ f.call = "list"
Executed(cs, id) == id \in DOMAIN cs /\ cs[id].at # Never
Done(cs, fl, ct, a, t) == Executed(cs, IdOf(a, ct, t)) \/ Failed(fl, t, IdOf(a, ct, t))

\* A schedule that is due now was run for all agents, or could not list them.
Ran(cs, fl, cf, ct, now) ==
    Matches(cf[ct], now) => (\A a \in Agent : Done(cs, fl, ct, a, now)) \/ NotListed(fl, now, ct)

\* The last run of a schedule was at a due time, for all agents.
LastOK(lr, cs, fl, cf, now) ==
    /\ lr \in [CycleType -> Int]
    /\ \A ct \in CycleType :
          lr[ct] # Never =>
              /\ Cal(lr[ct]) /\ lr[ct] <= now /\ Matches(cf[ct], lr[ct])
              /\ \A a \in Agent : Done(cs, fl, ct, a, lr[ct])

\* A signal is about work of the cycle's agent in the cycle's window.
SignalsOK(sg) ==
    \A p \in sg : /\ p[1] \in IdRec /\ p[2].agent = AgentNodeID(p[1].agent)
                  /\ p[1].ws = WindowStart(p[1].type, p[2].at)

\* The two parts of RollupsRight.
RollsUp(i, j, cs) == i.type \in DOMAIN PriorType /\ j.type = PriorType[i.type] /\ i.ws <= j.ws /\ j.ws < cs[i].we

RollsOK(ru, cs) == \A p \in ru : p[1] \in DOMAIN cs /\ p[2] \in DOMAIN cs /\ RollsUp(p[1], p[2], cs)

Complete(ru, cs, fl) ==
    \A i, j \in DOMAIN cs :
        /\ RollsUp(i, j, cs)
        /\ cs[j].at # Never /\ cs[j].at <= cs[i].at
        /\ ~NotListed(fl, cs[i].at, j.type) /\ ~Failed(fl, cs[i].at, j)
        => <<i, j>> \in ru

\* A cycle was not executed for the first time now before the shorter schedule was run.
Covered(cs, fl, cf, now) ==
    \A i \in DOMAIN cs :
        i.type \in DOMAIN PriorType /\ cs[i].at = now => Ran(cs, fl, cf, PriorType[i.type], now)

\* The due times of a schedule up to now, and those at which a cycle was executed.
Due(cf, ct, now) ==
    {t \in {Midnight(d) + cf[ct].hour : d \in cf.first..Day(now)} : t <= now /\ Matches(cf[ct], t)}
Past(lr, cf, id, now) ==
    {t \in Due(cf, id.type, now) : WindowStart(id.type, t) = id.ws /\ (t < now \/ lr[id.type] = now)}

Counted(cs, lr, rs, cf, now) ==
    \A id \in DOMAIN cs : cs[id].runs <= rs + Cardinality(Past(lr, cf, id, now))

\* All of it, for the graph and the last runs s.
Good(s, fl, rs, cf, now) ==
    /\ CyclesOK(s.cycles, now)
    /\ LastOK(s.lastRun, s.cycles, fl, cf, now)
    /\ SignalsOK(s.signals)
    /\ RollsOK(s.rollups, s.cycles)
    /\ Complete(s.rollups, s.cycles, fl)
    /\ Covered(s.cycles, fl, cf, now)
    /\ Counted(s.cycles, s.lastRun, rs, cf, now)

\* A due time at which a tick went well, or that is over, was not missed.
Timely(cs, fl, cf, now, ok, ms) ==
    \A ct \in CycleType : \A t \in Due(cf, ct, now) \ ms :
        t < now \/ ok => \A a \in Agent : Done(cs, fl, ct, a, t)

IInv ==
    /\ conf \in Scenarios /\ Cal(clock) /\ conf.first <= Day(clock) /\ Day(clock) <= conf.last
    /\ \A n \in work : Cal(n.at)
    /\ restarts \in Nat
    /\ Good(Current, failed, restarts, conf, clock)
    /\ Timely(cycles, failed, conf, clock, ticked, missed)

-----------------------------------------------------------------------------
(* What stays true as cycles and failures are added.                         *)

\* Nothing that was executed is undone.
Grows(cs, cs2) == \A id : Executed(cs, id) => Executed(cs2, id)

\* An agent that was served remains served.
LEMMA DoneGrows ==
    ASSUME NEW cs, NEW cs2, Grows(cs, cs2), NEW fl, NEW fl2, fl \subseteq fl2,
           NEW ct, NEW a, NEW t, Done(cs, fl, ct, a, t)
    PROVE  Done(cs2, fl2, ct, a, t)
BY DEF Grows, Done, Failed

\* A schedule that was run remains run.
LEMMA RanGrows ==
    ASSUME NEW cs, NEW cs2, Grows(cs, cs2), NEW fl, NEW fl2, fl \subseteq fl2,
           NEW cf, NEW ct, NEW now, Ran(cs, fl, cf, ct, now)
    PROVE  Ran(cs2, fl2, cf, ct, now)
<1>1. NotListed(fl, now, ct) => NotListed(fl2, now, ct)
  BY DEF NotListed
<1>2. \A a \in Agent : Done(cs, fl, ct, a, now) => Done(cs2, fl2, ct, a, now)
  BY DoneGrows
<1> QED
  BY <1>1, <1>2 DEF Ran

\* The invariant does not mind more failures: they only excuse more.
LEMMA GoodGrows ==
    ASSUME NEW s, NEW fl, NEW fl2, fl \subseteq fl2, NEW rs, NEW cf, NEW now, Good(s, fl, rs, cf, now)
    PROVE  Good(s, fl2, rs, cf, now)
<1>1. Grows(s.cycles, s.cycles)
  BY DEF Grows
<1>2. LastOK(s.lastRun, s.cycles, fl2, cf, now)
  <2>1. \A ct \in CycleType, a \in Agent :
          Done(s.cycles, fl, ct, a, s.lastRun[ct]) => Done(s.cycles, fl2, ct, a, s.lastRun[ct])
    BY <1>1, DoneGrows
  <2> QED
    BY <2>1 DEF Good, LastOK
<1>3. Complete(s.rollups, s.cycles, fl2)
  <2>1. \A t, x : (NotListed(fl, t, x) => NotListed(fl2, t, x)) /\ (Failed(fl, t, x) => Failed(fl2, t, x))
    BY DEF NotListed, Failed
  <2> QED
    BY <2>1 DEF Good, Complete
<1>4. Covered(s.cycles, fl2, cf, now)
  <2>1. \A ct : Ran(s.cycles, fl, cf, ct, now) => Ran(s.cycles, fl2, cf, ct, now)
    BY <1>1, RanGrows
  <2> QED
    BY <2>1 DEF Good, Covered
<1> QED
  BY <1>2, <1>3, <1>4 DEF Good

\* The due times are times of the calendar, and finitely many.
LEMMA DueFacts ==
    ASSUME NEW cf \in Scenarios, NEW ct \in CycleType, NEW now, Cal(now)
    PROVE  /\ \A t \in Due(cf, ct, now) : Cal(t) /\ t <= now /\ Matches(cf[ct], t)
           /\ IsFiniteSet(Due(cf, ct, now))
           /\ cf.first <= Day(now) /\ Matches(cf[ct], now) => now \in Due(cf, ct, now)
<1>1. cf.first \in Nat /\ cf[ct].hour \in 0..23 /\ now \in Nat /\ now \in Int
  BY ScheduleAssumption DEF Cal
<1>2. Day(now) \in Nat /\ Hour(now) \in 0..23 /\ now = 24 * Day(now) + Hour(now)
  BY <1>1, DayAndHour
<1>3. ASSUME NEW t \in Due(cf, ct, now) PROVE Cal(t) /\ t <= now /\ Matches(cf[ct], t)
  <2>1. PICK d \in cf.first..Day(now) : t = Midnight(d) + cf[ct].hour
    BY DEF Due
  <2>2. t \in Nat
    BY <1>1, <1>2, <2>1 DEF Midnight
  <2>3. t <= now /\ Matches(cf[ct], t)
    BY DEF Due
  <2>4. Day(t) <= Day(now) /\ Day(t) \in Int
    BY <1>1, <2>2, <2>3, DayGrows, DayAndHour
  <2>5. Day(t) < MonthStart[Len(MonthStart)]
    <3>1. MonthStart[Len(MonthStart)] \in Nat /\ Day(now) < MonthStart[Len(MonthStart)]
      BY ScheduleAssumption DEF Cal
    <3> QED
      BY <1>2, <2>4, <3>1
  <2> QED
    BY <2>2, <2>3, <2>5 DEF Cal
<1>4. IsFiniteSet(Due(cf, ct, now))
  <2>1. Due(cf, ct, now) \in SUBSET (0..now)
    BY <1>1, <1>3 DEF Cal
  <2>2. IsFiniteSet(0..now)
    BY <1>1, FS_Interval
  <2> QED
    BY <2>1, <2>2, FS_Subset
<1>5. ASSUME cf.first <= Day(now), Matches(cf[ct], now) PROVE now \in Due(cf, ct, now)
  <2>1. Hour(now) = cf[ct].hour
    BY <1>5 DEF Matches
  <2>2. Day(now) \in cf.first..Day(now) /\ now = Midnight(Day(now)) + cf[ct].hour /\ now <= now
    BY <1>1, <1>2, <1>5, <2>1 DEF Midnight
  <2> QED
    BY <1>5, <2>2 DEF Due
<1> QED
  BY <1>3, <1>4, <1>5

\* The executions of a cycle are finitely many.
LEMMA PastFacts ==
    ASSUME NEW cf \in Scenarios, NEW id, id.type \in CycleType, NEW now, Cal(now), NEW lr
    PROVE  IsFiniteSet(Past(lr, cf, id, now)) /\ Cardinality(Past(lr, cf, id, now)) \in Nat
<1>1. IsFiniteSet(Due(cf, id.type, now))
  BY DueFacts
<1>2. Past(lr, cf, id, now) \in SUBSET Due(cf, id.type, now)
  BY DEF Past
<1> QED
  BY <1>1, <1>2, FS_Subset, FS_CardinalityType

-----------------------------------------------------------------------------
(* Execute.                                                                  *)

\* The cycles that are executed.
Ids(ct, agents, ws) == {CycleNodeID(ct, a, ws) : a \in agents}

\* What Execute does, field by field.
Effect(s, ct, agents, ws, we, by, r) ==
    LET ids == Ids(ct, agents, ws)
    IN  /\ DOMAIN r.cycles = DOMAIN s.cycles \cup ids
        /\ \A id \in DOMAIN s.cycles \ ids : r.cycles[id] = s.cycles[id]
        /\ \A id \in ids \cap DOMAIN s.cycles :
              r.cycles[id] = [we   |-> we,
                              at   |-> IF by = "scheduler" /\ s.cycles[id].at = Never THEN clock ELSE s.cycles[id].at,
                              runs |-> IF by = "scheduler" THEN s.cycles[id].runs + 1 ELSE s.cycles[id].runs]
        /\ \A id \in ids \ DOMAIN s.cycles :
              r.cycles[id] = [we   |-> we,
                              at   |-> IF by = "scheduler" THEN clock ELSE Never,
                              runs |-> IF by = "scheduler" THEN 1 ELSE 0]
        /\ r.signals = s.signals \cup {p \in ids \X work : InWindow(p[2], p[1].agent, ws, we)}
        /\ r.rollups = s.rollups \cup (ids \X PriorCycles(DOMAIN s.cycles \cup ids, ct, ws, we))
        /\ r.lastRun = s.lastRun

\* Execute does just that.
LEMMA ExecuteFacts ==
    ASSUME NEW s, NEW ct, NEW agents, NEW ws, NEW we, NEW by, NEW r, r = Execute(s, ct, agents, ws, we, by)
    PROVE  Effect(s, ct, agents, ws, we, by, r)
<1> DEFINE ids == Ids(ct, agents, ws)
           old(id) == IF id \in DOMAIN s.cycles THEN s.cycles[id] ELSE [we |-> we, at |-> Never, runs |-> 0]
           new(id) == [we   |-> we,
                       at   |-> IF by = "scheduler" /\ old(id).at = Never THEN clock ELSE old(id).at,
                       runs |-> IF by = "scheduler" THEN old(id).runs + 1 ELSE old(id).runs]
           all == [id \in DOMAIN s.cycles \cup ids |-> IF id \in ids THEN new(id) ELSE s.cycles[id]]
<1>1. r = [cycles  |-> all,
           signals |-> s.signals \cup {p \in ids \X work : InWindow(p[2], p[1].agent, ws, we)},
           rollups |-> s.rollups \cup (ids \X PriorCycles(DOMAIN all, ct, ws, we)),
           lastRun |-> s.lastRun]
  BY DEF Execute, Ids
<1>2. r.cycles = all /\ DOMAIN all = DOMAIN s.cycles \cup ids
  BY <1>1
<1>3. \A id \in DOMAIN s.cycles \ ids : all[id] = s.cycles[id]
  OBVIOUS
<1>4. ASSUME NEW id \in ids \cap DOMAIN s.cycles
      PROVE  all[id] = [we   |-> we,
                        at   |-> IF by = "scheduler" /\ s.cycles[id].at = Never THEN clock ELSE s.cycles[id].at,
                        runs |-> IF by = "scheduler" THEN s.cycles[id].runs + 1 ELSE s.cycles[id].runs]
  <2>1. old(id) = s.cycles[id]
    OBVIOUS
  <2>2. all[id] = new(id)
    OBVIOUS
  <2> HIDE DEF all, old
  <2> QED
    BY <2>1, <2>2
<1>5. ASSUME NEW id \in ids \ DOMAIN s.cycles
      PROVE  all[id] = [we   |-> we,
                        at   |-> IF by = "scheduler" THEN clock ELSE Never,
                        runs |-> IF by = "scheduler" THEN 1 ELSE 0]
  <2>1. old(id).at = Never /\ old(id).runs = 0
    OBVIOUS
  <2>2. all[id] = new(id)
    OBVIOUS
  <2> HIDE DEF all, old
  <2> QED
    BY <2>1, <2>2
<1>6. /\ r.signals = s.signals \cup {p \in ids \X work : InWindow(p[2], p[1].agent, ws, we)}
      /\ r.rollups = s.rollups \cup (ids \X PriorCycles(DOMAIN all, ct, ws, we))
      /\ r.lastRun = s.lastRun
  BY <1>1
<1> HIDE DEF all
<1> QED
  BY <1>2, <1>3, <1>4, <1>5, <1>6 DEF Effect

\* An execution as the scheduler or brain_reflect asks for it.
Sound(ct, agents, ws, we, by) ==
    /\ ct \in CycleType /\ agents \subseteq Seq(Part)
    /\ Cal(we) /\ we <= clock /\ ws = WindowStart(ct, we)
    /\ by = "scheduler" => we = clock
    /\ by # "scheduler" => ct = "daily"

\* A cycle that was executed has its window, and its first time.
LEMMA ExecuteCycle ==
    ASSUME IInv, NEW s, CyclesOK(s.cycles, clock), NEW ct, NEW agents, NEW ws, NEW we, NEW by, Sound(ct, agents, ws, we, by),
           NEW r, r = Execute(s, ct, agents, ws, we, by), NEW id \in Ids(ct, agents, ws)
    PROVE  /\ id \in IdRec /\ id.type = ct /\ id.ws = ws
           /\ id \in DOMAIN r.cycles /\ r.cycles[id] \in CycRec /\ r.cycles[id].we = we
           /\ by = "scheduler" => r.cycles[id].at # Never
           /\ r.cycles[id].at \in {Never, clock} \/ (id \in DOMAIN s.cycles /\ r.cycles[id].at = s.cycles[id].at)
           /\ r.cycles[id].at = clock \/ (id \in DOMAIN s.cycles /\ r.cycles[id].at = s.cycles[id].at) \/ by # "scheduler"
           /\ Executed(s.cycles, id) => r.cycles[id].at = s.cycles[id].at
           /\ ~Executed(s.cycles, id) => r.cycles[id].at = IF by = "scheduler" THEN clock ELSE Never
<1> DEFINE ids == Ids(ct, agents, ws)
           c == r.cycles[id]
<1>0. clock \in Nat /\ clock # Never /\ clock \in Int
  BY DEF IInv, Cal, Never
<1>1. id \in IdRec /\ id.type = ct /\ id.ws = ws
  <2>1. PICK a \in agents : id = CycleNodeID(ct, a, ws)
    BY DEF Ids
  <2>2. ct \in CycleType /\ a \in Seq(Part) /\ ws \in Int
    BY Period DEF Sound
  <2> QED
    BY <2>1, <2>2 DEF CycleNodeID, IdRec
<1>2. we \in Int
  BY DEF Sound, Cal
<1>e. Effect(s, ct, agents, ws, we, by, r)
  BY ExecuteFacts
<1>3. DOMAIN r.cycles = DOMAIN s.cycles \cup ids
  BY <1>e DEF Effect
<1>4. CASE id \in DOMAIN s.cycles
  <2> DEFINE o == s.cycles[id]
  <2>1. o \in CycRec
    BY <1>4 DEF CyclesOK
  <2>2. c = [we |-> we, at |-> IF by = "scheduler" /\ o.at = Never THEN clock ELSE o.at,
             runs |-> IF by = "scheduler" THEN o.runs + 1 ELSE o.runs]
    BY <1>4, <1>e DEF Effect
  <2> HIDE DEF o, c
  <2>3. o.at \in Int /\ o.runs \in Nat
    BY <2>1 DEF CycRec
  <2>4. c.we = we /\ c.at = (IF by = "scheduler" /\ o.at = Never THEN clock ELSE o.at)
        /\ c.runs = (IF by = "scheduler" THEN o.runs + 1 ELSE o.runs)
    BY <2>2
  <2>5. c \in CycRec
    <3>1. c.at \in Int /\ c.runs \in Nat
      BY <1>0, <2>3, <2>4
    <3> QED
      BY <1>2, <2>2, <2>4, <3>1 DEF CycRec
  <2> QED
    BY <1>0, <1>1, <1>3, <1>4, <2>4, <2>5 DEF Executed, c, o
<1>5. CASE id \notin DOMAIN s.cycles
  <2>1. c = [we |-> we, at |-> IF by = "scheduler" THEN clock ELSE Never, runs |-> IF by = "scheduler" THEN 1 ELSE 0]
    BY <1>5, <1>e DEF Effect
  <2> HIDE DEF c
  <2>2. c.we = we /\ c.at = (IF by = "scheduler" THEN clock ELSE Never) /\ c.runs = (IF by = "scheduler" THEN 1 ELSE 0)
    BY <2>1
  <2>3. c \in CycRec
    <3>1. c.at \in Int /\ c.runs \in Nat
      BY <1>0, <2>2 DEF Never
    <3> QED
      BY <1>2, <2>1, <2>2, <3>1 DEF CycRec
  <2> QED
    BY <1>0, <1>1, <1>3, <1>5, <2>2, <2>3 DEF Executed, c
<1> QED
  BY <1>4, <1>5

\* Execution undoes nothing.
LEMMA ExecuteGrows ==
    ASSUME IInv, NEW s, CyclesOK(s.cycles, clock), NEW ct, NEW agents, NEW ws, NEW we, NEW by, Sound(ct, agents, ws, we, by),
           NEW r, r = Execute(s, ct, agents, ws, we, by)
    PROVE  Grows(s.cycles, r.cycles)
<1> DEFINE ids == Ids(ct, agents, ws)
<1> SUFFICES ASSUME NEW id, Executed(s.cycles, id) PROVE Executed(r.cycles, id)
  BY DEF Grows
<1>e. Effect(s, ct, agents, ws, we, by, r)
  BY ExecuteFacts
<1>1. CASE id \in ids
  BY <1>1, ExecuteCycle DEF Executed
<1>2. CASE id \notin ids
  BY <1>2, <1>e DEF Executed, Effect
<1> QED
  BY <1>1, <1>2

\* The cycles, signals and roll-ups after an execution.
LEMMA ExecuteWindows ==
    ASSUME IInv, NEW s, CyclesOK(s.cycles, clock), SignalsOK(s.signals), RollsOK(s.rollups, s.cycles),
           NEW ct, NEW agents, NEW ws, NEW we, NEW by, Sound(ct, agents, ws, we, by),
           NEW r, r = Execute(s, ct, agents, ws, we, by)
    PROVE  CyclesOK(r.cycles, clock) /\ SignalsOK(r.signals) /\ RollsOK(r.rollups, r.cycles)
<1> DEFINE ids == Ids(ct, agents, ws)
<1>0. Cal(clock) /\ clock \in Nat /\ clock # Never /\ ct \in CycleType /\ Cal(we) /\ we \in Nat /\ ws \in Int
  BY Period DEF IInv, Cal, Sound, Never
<1>1. /\ DOMAIN r.cycles = DOMAIN s.cycles \cup ids
      /\ \A id \in DOMAIN s.cycles \ ids : r.cycles[id] = s.cycles[id]
      /\ r.signals = s.signals \cup {p \in ids \X work : InWindow(p[2], p[1].agent, ws, we)}
      /\ r.rollups = s.rollups \cup (ids \X PriorCycles(DOMAIN s.cycles \cup ids, ct, ws, we))
  <2>1. Effect(s, ct, agents, ws, we, by, r)
    BY ExecuteFacts
  <2> QED
    BY <2>1 DEF Effect
<1>2. CyclesOK(r.cycles, clock)
  <2> SUFFICES ASSUME NEW id \in DOMAIN r.cycles
               PROVE  LET c == r.cycles[id]
                      IN  /\ id \in IdRec /\ c \in CycRec
                          /\ Cal(c.we) /\ c.we <= clock /\ id.ws = WindowStart(id.type, c.we)
                          /\ c.at # Never => Cal(c.at) /\ c.at <= clock /\ id.ws = WindowStart(id.type, c.at)
                          /\ id.type # "daily" => c.at # Never
    BY DEF CyclesOK
  <2>1. CASE id \notin ids
    <3>1. id \in DOMAIN s.cycles /\ r.cycles[id] = s.cycles[id]
      BY <1>1, <2>1
    <3> QED
      BY <3>1 DEF CyclesOK
  <2>2. CASE id \in ids
    <3> DEFINE c == r.cycles[id]
    <3>1. /\ id \in IdRec /\ id.type = ct /\ id.ws = ws /\ c \in CycRec /\ c.we = we
          /\ by = "scheduler" => c.at # Never
          /\ Executed(s.cycles, id) => c.at = s.cycles[id].at
          /\ ~Executed(s.cycles, id) => c.at = IF by = "scheduler" THEN clock ELSE Never
      BY <2>2, ExecuteCycle
    <3> HIDE DEF c
    <3>2. Cal(c.we) /\ c.we <= clock /\ id.ws = WindowStart(id.type, c.we)
      BY <3>1 DEF Sound
    <3>3. ASSUME c.at # Never PROVE Cal(c.at) /\ c.at <= clock /\ id.ws = WindowStart(id.type, c.at)
      <4>1. CASE Executed(s.cycles, id)
        <5>1. c.at = s.cycles[id].at /\ id \in DOMAIN s.cycles
          BY <3>1, <4>1 DEF Executed
        <5> QED
          BY <3>3, <5>1 DEF CyclesOK
      <4>2. CASE ~Executed(s.cycles, id)
        <5>1. by = "scheduler" /\ c.at = clock
          BY <3>1, <3>3, <4>2
        <5>2. we = clock /\ ws = WindowStart(ct, we)
          BY <5>1 DEF Sound
        <5>3. clock <= clock
          BY <1>0
        <5> QED
          BY <1>0, <3>1, <5>1, <5>2, <5>3
      <4> QED
        BY <4>1, <4>2
    <3>4. id.type # "daily" => c.at # Never
      BY <3>1 DEF Sound
    <3> QED
      BY <3>1, <3>2, <3>3, <3>4 DEF c
  <2> QED
    BY <2>1, <2>2
<1>3. SignalsOK(r.signals)
  <2> SUFFICES ASSUME NEW p \in r.signals
               PROVE  /\ p[1] \in IdRec /\ p[2].agent = AgentNodeID(p[1].agent)
                      /\ p[1].ws = WindowStart(p[1].type, p[2].at)
    BY DEF SignalsOK
  <2>1. CASE p \in s.signals
    BY <2>1 DEF SignalsOK
  <2>2. CASE p \in ids \X work /\ InWindow(p[2], p[1].agent, ws, we)
    <3>1. p[1] \in ids /\ p[2] \in work
      BY <2>2
    <3>2. p[1] \in IdRec /\ p[1].type = ct /\ p[1].ws = ws
      BY <3>1, ExecuteCycle
    <3>3. p[2].agent = AgentNodeID(p[1].agent) /\ ws <= p[2].at /\ p[2].at < we
      BY <2>2 DEF InWindow
    <3>4. Cal(p[2].at) /\ p[2].at \in Nat
      BY <3>1 DEF IInv, Cal
    <3>5. p[2].at <= we /\ WindowStart(ct, we) <= p[2].at
      BY <1>0, <3>3, <3>4 DEF Sound
    <3>6. WindowStart(ct, p[2].at) = WindowStart(ct, we)
      BY <1>0, <3>4, <3>5, SameWindow
    <3> QED
      BY <3>2, <3>3, <3>6 DEF Sound
  <2> QED
    BY <1>1, <2>1, <2>2
<1>4. RollsOK(r.rollups, r.cycles)
  <2> SUFFICES ASSUME NEW p \in r.rollups PROVE p[1] \in DOMAIN r.cycles /\ p[2] \in DOMAIN r.cycles /\ RollsUp(p[1], p[2], r.cycles)
    BY DEF RollsOK
  <2>1. CASE p \in s.rollups
    <3>1. p[1] \in DOMAIN s.cycles /\ p[2] \in DOMAIN s.cycles /\ RollsUp(p[1], p[2], s.cycles)
      BY <2>1 DEF RollsOK
    <3>2. CASE p[1] \notin ids
      BY <1>1, <3>1, <3>2 DEF RollsUp
    <3>3. CASE p[1] \in ids
      <4>1. p[1].type = ct /\ r.cycles[p[1]].we = we
        BY <3>3, ExecuteCycle
      <4>2. ct # "daily"
        BY <3>1, <4>1 DEF RollsUp, PriorType
      <4>3. we = clock
        BY <4>2 DEF Sound
      <4>4. s.cycles[p[1]].we <= clock /\ s.cycles[p[1]].we \in Nat
        BY <3>1 DEF CyclesOK, Cal
      <4>5. p[2].ws < s.cycles[p[1]].we
        BY <3>1 DEF RollsUp
      <4>6. p[2].ws < we
        <5>1. p[2].ws \in Int
          BY <3>1 DEF CyclesOK, IdRec
        <5> QED
          BY <1>0, <4>3, <4>4, <4>5, <5>1
      <4> QED
        BY <1>1, <3>1, <4>1, <4>6 DEF RollsUp
    <3> QED
      BY <3>2, <3>3
  <2>2. CASE p \in ids \X PriorCycles(DOMAIN s.cycles \cup ids, ct, ws, we)
    <3>1. p[1] \in ids /\ p[2] \in PriorCycles(DOMAIN s.cycles \cup ids, ct, ws, we)
      BY <2>2
    <3>2. p[1].type = ct /\ p[1].ws = ws /\ r.cycles[p[1]].we = we
      BY <3>1, ExecuteCycle
    <3>3. /\ ct \in DOMAIN PriorType /\ p[2].type = PriorType[ct] /\ ws <= p[2].ws /\ p[2].ws < we
          /\ p[2] \in DOMAIN s.cycles \cup ids
      BY <3>1 DEF PriorCycles
    <3> QED
      BY <1>1, <3>1, <3>2, <3>3 DEF RollsUp
  <2> QED
    BY <1>1, <2>1, <2>2
<1> QED
  BY <1>2, <1>3, <1>4

-----------------------------------------------------------------------------
(* One schedule of a tick.                                                   *)

\* Tuples are sequences.
LEMMA Tuples ==
    ASSUME NEW S
    PROVE  (\A x \in S : <<x>> \in Seq(S)) /\ (\A x, y \in S : <<x, y>> \in Seq(S))
OBVIOUS

\* An agent's identifier is a sequence of strings.
LEMMA AgentSeq ==
    ASSUME NEW a \in Agent
    PROVE  AgentID(a) \in Seq(Part)
<1>1. a \in STRING
  BY ScheduleAssumption DEF Agent
<1>2. <<a>> \in Seq(Part) /\ <<"n", "Agent">> \in Seq(Part)
  <2>1. a \in Part /\ "n" \in Part /\ "Agent" \in Part
    BY <1>1 DEF Part
  <2> QED
    BY <2>1, Tuples
<1>3. <<"n", "Agent">> \o <<a>> \in Seq(Part)
  BY <1>2, ConcatProperties
<1> QED
  BY <1>2, <1>3 DEF AgentID, NodeOf, AgentNodeID

\* What the fault of a tick leaves in the history fl.
Recorded(fault, fl) ==
    /\ fault.type \in CycleType => fault.call \in {"list", "execute"}
    /\ fault.type \in CycleType => [at |-> clock, type |-> fault.type, call |-> fault.call, agent |-> fault.agent] \in fl

\* A schedule that matches and was not run in this minute is due.
LEMMA NotDueMeansDone ==
    ASSUME IInv, NEW s, NEW fl, Good(s, fl, restarts, conf, clock), NEW ct \in CycleType,
           Matches(conf[ct], clock), ~IsDue(conf[ct], clock, s.lastRun[ct])
    PROVE  \A a \in Agent : Done(s.cycles, fl, ct, a, clock)
<1> DEFINE last == s.lastRun[ct]
<1>1. last # Never /\ ~(clock - last >= MinGap(conf[ct]))
  BY DEF IsDue
<1>2. Cal(last) /\ last <= clock /\ Matches(conf[ct], last) /\ \A a \in Agent : Done(s.cycles, fl, ct, a, last)
  BY <1>1 DEF Good, LastOK
<1>3. Cal(clock) /\ clock \in Nat /\ last \in Nat
  BY <1>2 DEF IInv, Cal
<1>4. conf[ct].hour \in Int /\ conf[ct].dow \in Int /\ conf[ct].dom \in Int
  <2>1. conf \in Scenarios
    BY DEF IInv
  <2>2. conf[ct].hour \in 0..23 /\ conf[ct].dow \in Int /\ conf[ct].dom \in Int
    BY <2>1, ScheduleAssumption
  <2> QED
    BY <2>2
<1>5. ~(last < clock)
  BY <1>1, <1>2, <1>3, <1>4, GapIsShort
<1>6. last = clock
  BY <1>2, <1>3, <1>5
<1> QED
  BY <1>2, <1>6

\* A schedule that is run has not been run in this minute.
LEMMA DueMeansNew ==
    ASSUME IInv, NEW ct \in CycleType, NEW last \in Int, IsDue(conf[ct], clock, last)
    PROVE  last # clock
<1>1. clock \in Nat
  BY DEF IInv, Cal
<1>2. MinGap(conf[ct]) \in Nat /\ MinGap(conf[ct]) > 0
  BY GapIsPositive
<1>3. CASE last = Never
  BY <1>1, <1>3 DEF Never
<1>4. CASE last # Never
  <2>1. clock - last >= MinGap(conf[ct])
    BY <1>4 DEF IsDue
  <2> QED
    BY <1>1, <1>2, <2>1
<1> QED
  BY <1>3, <1>4

\* The agents of a schedule that is run, all but the one whose cycle fails.
Able(ct, fault) == {AgentID(a) : a \in Agent} \ (IF fault.type = ct THEN {fault.agent} ELSE {})

\* The execution of a schedule: what it starts from, and what it yields.
Runs(s, fl, ct, fault, r, e) ==
    /\ Good(s, fl, restarts, conf, clock) /\ ct \in CycleType /\ Recorded(fault, fl)
    /\ ct \in DOMAIN PriorType => Ran(s.cycles, fl, conf, PriorType[ct], clock)
    /\ IsDue(conf[ct], clock, s.lastRun[ct]) /\ ~(fault.type = ct /\ fault.call = "list")
    /\ e = Execute(s, ct, Able(ct, fault), WindowStart(ct, clock), clock, "scheduler")
    /\ r.cycles = e.cycles /\ r.signals = e.signals /\ r.rollups = e.rollups
    /\ r.lastRun = [s.lastRun EXCEPT ![ct] = clock]

\* Such an execution is sound.
LEMMA RunsSound ==
    ASSUME IInv, NEW s, NEW fl, NEW ct, NEW fault, NEW r, NEW e, Runs(s, fl, ct, fault, r, e)
    PROVE  /\ Sound(ct, Able(ct, fault), WindowStart(ct, clock), clock, "scheduler")
           /\ CyclesOK(s.cycles, clock) /\ CyclesOK(r.cycles, clock) /\ SignalsOK(r.signals) /\ RollsOK(r.rollups, r.cycles)
           /\ Grows(s.cycles, r.cycles)
<1>1. Able(ct, fault) \subseteq Seq(Part)
  BY AgentSeq DEF Able
<1>2. Cal(clock) /\ clock \in Nat
  BY DEF IInv, Cal
<1>3. Sound(ct, Able(ct, fault), WindowStart(ct, clock), clock, "scheduler")
  BY <1>1, <1>2 DEF Sound, Runs
<1>4. CyclesOK(s.cycles, clock) /\ SignalsOK(s.signals) /\ RollsOK(s.rollups, s.cycles)
  BY DEF Runs, Good
<1>5. e = Execute(s, ct, Able(ct, fault), WindowStart(ct, clock), clock, "scheduler")
  BY DEF Runs
<1>6. CyclesOK(e.cycles, clock) /\ SignalsOK(e.signals) /\ RollsOK(e.rollups, e.cycles)
  BY <1>3, <1>4, <1>5, ExecuteWindows
<1>7. Grows(s.cycles, e.cycles)
  BY <1>3, <1>4, <1>5, ExecuteGrows
<1> QED
  BY <1>3, <1>4, <1>6, <1>7 DEF Runs

\* After it all agents are served.
LEMMA RunsDone ==
    ASSUME IInv, NEW s, NEW fl, NEW ct, NEW fault, NEW r, NEW e, Runs(s, fl, ct, fault, r, e), NEW a \in Agent
    PROVE  Done(r.cycles, fl, ct, a, clock)
<1> DEFINE id == IdOf(a, ct, clock)
<1>1. CASE AgentID(a) \in Able(ct, fault)
  <2>1. id \in Ids(ct, Able(ct, fault), WindowStart(ct, clock))
    BY <1>1 DEF Ids, IdOf
  <2>2. e = Execute(s, ct, Able(ct, fault), WindowStart(ct, clock), clock, "scheduler") /\ r.cycles = e.cycles
    BY DEF Runs
  <2>3. id \in DOMAIN e.cycles /\ e.cycles[id].at # Never
    BY <2>1, <2>2, RunsSound, ExecuteCycle
  <2> QED
    BY <2>2, <2>3 DEF Done, Executed
<1>2. CASE AgentID(a) \notin Able(ct, fault)
  <2>1. fault.type = ct /\ fault.agent = AgentID(a)
    BY <1>2 DEF Able
  <2>2. ct \in CycleType /\ fault.call = "execute"
    BY <2>1 DEF Runs, Recorded
  <2> DEFINE f == [at |-> clock, type |-> fault.type, call |-> fault.call, agent |-> fault.agent]
  <2>3. f \in fl
    BY <2>1, <2>2 DEF Runs, Recorded
  <2>4. f.at = clock /\ f.type = id.type /\ f.call = "execute" /\ f.agent = id.agent
    BY <2>1, <2>2 DEF IdOf, CycleNodeID
  <2>5. Failed(fl, clock, id)
    BY <2>3, <2>4 DEF Failed
  <2> QED
    BY <2>5 DEF Done
<1> QED
  BY <1>1, <1>2

\* It leaves the last run in order.
LEMMA RunsLast ==
    ASSUME IInv, NEW s, NEW fl, NEW ct, NEW fault, NEW r, NEW e, Runs(s, fl, ct, fault, r, e)
    PROVE  LastOK(r.lastRun, r.cycles, fl, conf, clock)
<1>0. Cal(clock) /\ clock \in Nat /\ clock \in Int /\ clock <= clock
  BY DEF IInv, Cal
<1>1. LastOK(s.lastRun, s.cycles, fl, conf, clock) /\ s.lastRun \in [CycleType -> Int] /\ ct \in CycleType
  BY DEF Runs, Good, LastOK
<1>2. r.lastRun = [s.lastRun EXCEPT ![ct] = clock]
  BY DEF Runs
<1>3. r.lastRun \in [CycleType -> Int]
  BY <1>0, <1>1, <1>2
<1>4. ASSUME NEW x \in CycleType, r.lastRun[x] # Never
      PROVE  /\ Cal(r.lastRun[x]) /\ r.lastRun[x] <= clock /\ Matches(conf[x], r.lastRun[x])
             /\ \A a \in Agent : Done(r.cycles, fl, x, a, r.lastRun[x])
  <2>1. CASE x = ct
    <3>1. r.lastRun[x] = clock
      BY <1>1, <1>2, <2>1
    <3>2. Matches(conf[ct], clock)
      BY DEF Runs, IsDue
    <3> QED
      BY <1>0, <2>1, <3>1, <3>2, RunsDone
  <2>2. CASE x # ct
    <3>1. r.lastRun[x] = s.lastRun[x]
      BY <1>1, <1>2, <2>2
    <3>2. /\ Cal(s.lastRun[x]) /\ s.lastRun[x] <= clock /\ Matches(conf[x], s.lastRun[x])
          /\ \A a \in Agent : Done(s.cycles, fl, x, a, s.lastRun[x])
      BY <1>1, <1>4, <3>1 DEF LastOK
    <3>3. Grows(s.cycles, r.cycles)
      BY RunsSound
    <3>4. \A a \in Agent : Done(r.cycles, fl, x, a, s.lastRun[x])
      BY <3>2, <3>3, DoneGrows
    <3> QED
      BY <3>1, <3>2, <3>4
  <2> QED
    BY <2>1, <2>2
<1> QED
  BY <1>3, <1>4 DEF LastOK

\* A cycle of a longer schedule is first executed after the shorter schedule was run.
LEMMA RunsCovered ==
    ASSUME IInv, NEW s, NEW fl, NEW ct, NEW fault, NEW r, NEW e, Runs(s, fl, ct, fault, r, e)
    PROVE  Covered(r.cycles, fl, conf, clock)
<1> DEFINE ids == Ids(ct, Able(ct, fault), WindowStart(ct, clock))
<1>1. e = Execute(s, ct, Able(ct, fault), WindowStart(ct, clock), clock, "scheduler") /\ r.cycles = e.cycles
  BY DEF Runs
<1>2. Grows(s.cycles, r.cycles) /\ CyclesOK(s.cycles, clock)
      /\ Sound(ct, Able(ct, fault), WindowStart(ct, clock), clock, "scheduler")
  BY RunsSound
<1>3. Effect(s, ct, Able(ct, fault), WindowStart(ct, clock), clock, "scheduler", e)
  BY <1>1, ExecuteFacts
<1> SUFFICES ASSUME NEW i \in DOMAIN r.cycles, i.type \in DOMAIN PriorType, r.cycles[i].at = clock
             PROVE  Ran(r.cycles, fl, conf, PriorType[i.type], clock)
  BY DEF Covered
<1>4. CASE i \in ids
  <2>1. i.type = ct
    BY <1>1, <1>2, <1>4, ExecuteCycle
  <2>2. Ran(s.cycles, fl, conf, PriorType[ct], clock)
    BY <2>1 DEF Runs
  <2> QED
    BY <1>2, <2>1, <2>2, RanGrows
<1>5. CASE i \notin ids
  <2>1. i \in DOMAIN s.cycles /\ s.cycles[i] = e.cycles[i]
    BY <1>1, <1>3, <1>5 DEF Effect
  <2>2. Covered(s.cycles, fl, conf, clock)
    BY DEF Runs, Good
  <2>3. Ran(s.cycles, fl, conf, PriorType[i.type], clock)
    BY <1>1, <2>1, <2>2 DEF Covered
  <2> QED
    BY <1>2, <2>3, RanGrows
<1> QED
  BY <1>4, <1>5

\* Roll-ups stay complete.
LEMMA RunsComplete ==
    ASSUME IInv, NEW s, NEW fl, NEW ct, NEW fault, NEW r, NEW e, Runs(s, fl, ct, fault, r, e)
    PROVE  Complete(r.rollups, r.cycles, fl)
<1> DEFINE ws == WindowStart(ct, clock)
           able == Able(ct, fault)
           ids == Ids(ct, able, ws)
<1>1. e = Execute(s, ct, able, ws, clock, "scheduler") /\ r.cycles = e.cycles /\ r.rollups = e.rollups
  BY DEF Runs
<1>2. CyclesOK(s.cycles, clock) /\ Sound(ct, able, ws, clock, "scheduler") /\ clock \in Nat
  BY RunsSound DEF IInv, Cal
<1>3. Effect(s, ct, able, ws, clock, "scheduler", e)
  BY <1>1, ExecuteFacts
<1>4. /\ DOMAIN r.cycles = DOMAIN s.cycles \cup ids
      /\ \A id \in DOMAIN s.cycles \ ids : r.cycles[id] = s.cycles[id]
      /\ r.rollups = s.rollups \cup (ids \X PriorCycles(DOMAIN s.cycles \cup ids, ct, ws, clock))
  BY <1>1, <1>3 DEF Effect
<1>5. Complete(s.rollups, s.cycles, fl) /\ Covered(s.cycles, fl, conf, clock)
  BY DEF Runs, Good
<1> SUFFICES ASSUME NEW i \in DOMAIN r.cycles, NEW j \in DOMAIN r.cycles, RollsUp(i, j, r.cycles),
                    r.cycles[j].at # Never, r.cycles[j].at <= r.cycles[i].at,
                    ~NotListed(fl, r.cycles[i].at, j.type), ~Failed(fl, r.cycles[i].at, j)
             PROVE  <<i, j>> \in r.rollups
  BY DEF Complete
<1> HIDE DEF ids, able, ws
<1>6. CASE i \in ids
  <2>1. i.type = ct /\ i.ws = ws /\ r.cycles[i].we = clock
    BY <1>1, <1>2, <1>6, ExecuteCycle DEF ids
  <2>2. ct \in DOMAIN PriorType /\ j.type = PriorType[ct] /\ ws <= j.ws /\ j.ws < clock
    BY <2>1 DEF RollsUp
  <2>3. j \in PriorCycles(DOMAIN s.cycles \cup ids, ct, ws, clock)
    BY <1>4, <2>2 DEF PriorCycles
  <2> QED
    BY <1>4, <1>6, <2>3
<1>7. CASE i \notin ids
  <2>1. i \in DOMAIN s.cycles /\ r.cycles[i] = s.cycles[i]
    BY <1>4, <1>7
  <2>2. CASE Executed(s.cycles, j) /\ r.cycles[j].at = s.cycles[j].at
    <3>1. j \in DOMAIN s.cycles
      BY <2>2 DEF Executed
    <3>2. RollsUp(i, j, s.cycles)
      BY <2>1 DEF RollsUp
    <3> QED
      BY <1>4, <1>5, <2>1, <2>2, <3>1, <3>2 DEF Complete
  <2>3. CASE j \notin ids
    <3>1. j \in DOMAIN s.cycles /\ r.cycles[j] = s.cycles[j]
      BY <1>4, <2>3
    <3>2. Executed(s.cycles, j) /\ r.cycles[j].at = s.cycles[j].at
      BY <3>1 DEF Executed
    <3> QED
      BY <2>2, <3>2
  <2>4. CASE j \in ids
    <3>1. /\ j.type = ct
          /\ Executed(s.cycles, j) => r.cycles[j].at = s.cycles[j].at
          /\ ~Executed(s.cycles, j) => r.cycles[j].at = clock
      BY <1>1, <1>2, <2>4, ExecuteCycle DEF ids
    <3>2. CASE ~Executed(s.cycles, j)
      <4>1. clock <= s.cycles[i].at
        BY <2>1, <3>1, <3>2
      <4>2. i \in IdRec /\ s.cycles[i] \in CycRec /\ (s.cycles[i].at # Never => s.cycles[i].at <= clock)
        BY <1>2, <2>1 DEF CyclesOK
      <4>3. s.cycles[i].at = clock
        <5>1. s.cycles[i].at \in Int
          BY <4>2 DEF CycRec
        <5>2. s.cycles[i].at # Never
          BY <1>2, <4>1, <5>1 DEF Never
        <5> QED
          BY <1>2, <4>1, <4>2, <5>1, <5>2
      <4>4. i.type \in DOMAIN PriorType /\ PriorType[i.type] = ct
        BY <3>1 DEF RollsUp
      <4>5. Ran(s.cycles, fl, conf, ct, clock)
        BY <1>5, <2>1, <4>3, <4>4 DEF Covered
      <4>6. Matches(conf[ct], clock)
        BY DEF Runs, IsDue
      <4>7. ~NotListed(fl, clock, ct) /\ ~Failed(fl, clock, j)
        BY <2>1, <3>1, <4>3
      <4>8. \A a \in Agent : Done(s.cycles, fl, ct, a, clock)
        BY <4>5, <4>6, <4>7 DEF Ran
      <4>9. PICK a \in Agent : j = IdOf(a, ct, clock)
        BY <2>4 DEF ids, Ids, able, Able, IdOf, ws
      <4>10. Done(s.cycles, fl, ct, a, clock)
        BY <4>8
      <4> QED
        BY <3>2, <4>7, <4>9, <4>10 DEF Done
    <3> QED
      BY <2>2, <3>1, <3>2
  <2> QED
    BY <2>3, <2>4
<1> QED
  BY <1>6, <1>7

\* It is counted: the schedule has one more due time behind it.
LEMMA RunsCounted ==
    ASSUME IInv, NEW s, NEW fl, NEW ct, NEW fault, NEW r, NEW e, Runs(s, fl, ct, fault, r, e)
    PROVE  Counted(r.cycles, r.lastRun, restarts, conf, clock)
<1> DEFINE ws == WindowStart(ct, clock)
           able == Able(ct, fault)
           ids == Ids(ct, able, ws)
           P(id) == Past(s.lastRun, conf, id, clock)
           Q(id) == Past(r.lastRun, conf, id, clock)
<1>1. e = Execute(s, ct, able, ws, clock, "scheduler") /\ r.cycles = e.cycles
  BY DEF Runs
<1>2. /\ CyclesOK(s.cycles, clock) /\ CyclesOK(r.cycles, clock) /\ Sound(ct, able, ws, clock, "scheduler")
      /\ ct \in CycleType /\ Cal(clock) /\ clock \in Nat /\ restarts \in Nat /\ conf \in Scenarios
  BY RunsSound DEF IInv, Cal, Runs
<1>3. Effect(s, ct, able, ws, clock, "scheduler", e)
  BY <1>1, ExecuteFacts
<1>4. s.lastRun \in [CycleType -> Int] /\ Counted(s.cycles, s.lastRun, restarts, conf, clock)
  BY DEF Runs, Good, LastOK
<1>5. /\ r.lastRun = [s.lastRun EXCEPT ![ct] = clock] /\ IsDue(conf[ct], clock, s.lastRun[ct])
      /\ s.lastRun[ct] # clock
  <2>1. r.lastRun = [s.lastRun EXCEPT ![ct] = clock] /\ IsDue(conf[ct], clock, s.lastRun[ct])
    BY DEF Runs
  <2> QED
    BY <1>2, <1>4, <2>1, DueMeansNew
<1>6. clock \in Due(conf, ct, clock)
  <2>1. Matches(conf[ct], clock) /\ conf.first <= Day(clock)
    BY <1>5 DEF IsDue, IInv
  <2> QED
    BY <1>2, <2>1, DueFacts
<1> SUFFICES ASSUME NEW id \in DOMAIN r.cycles
             PROVE  r.cycles[id].runs <= restarts + Cardinality(Q(id))
  BY DEF Counted
<1>7. id.type \in CycleType /\ r.cycles[id].runs \in Nat
  BY <1>2 DEF CyclesOK, IdRec, CycRec
<1>8. /\ IsFiniteSet(P(id)) /\ Cardinality(P(id)) \in Nat
      /\ IsFiniteSet(Q(id)) /\ Cardinality(Q(id)) \in Nat
  BY <1>2, <1>7, PastFacts
<1>9. P(id) \subseteq Q(id)
  <2>1. \A x \in CycleType : s.lastRun[x] = clock => r.lastRun[x] = clock
    BY <1>2, <1>4, <1>5
  <2> QED
    BY <1>7, <2>1 DEF Past
<1> HIDE DEF ids, able, ws
<1>10. CASE id \notin ids
  <2>1. id \in DOMAIN s.cycles /\ r.cycles[id] = s.cycles[id]
    BY <1>1, <1>3, <1>10 DEF Effect, ids
  <2>2. r.cycles[id].runs <= restarts + Cardinality(P(id))
    BY <1>4, <2>1 DEF Counted
  <2>3. Cardinality(P(id)) <= Cardinality(Q(id))
    BY <1>8, <1>9, FS_Subset
  <2> HIDE DEF P, Q
  <2> QED
    BY <1>2, <1>7, <1>8, <2>2, <2>3
<1>11. CASE id \in ids
  <2>1. id.type = ct /\ id.ws = ws
    BY <1>1, <1>2, <1>11, ExecuteCycle DEF ids
  <2>2. clock \notin P(id)
    BY <1>2, <1>5, <2>1 DEF Past
  <2>3. clock \in Q(id)
    <3>1. r.lastRun[ct] = clock
      BY <1>2, <1>4, <1>5
    <3> QED
      BY <1>6, <2>1, <3>1 DEF Past, ws
  <2>4. P(id) \cup {clock} \in SUBSET Q(id)
    BY <1>9, <2>3
  <2>5. Cardinality(P(id) \cup {clock}) = Cardinality(P(id)) + 1
    BY <1>8, <2>2, FS_AddElement
  <2>6. Cardinality(P(id) \cup {clock}) <= Cardinality(Q(id))
    BY <1>8, <2>4, FS_Subset
  <2>7. r.cycles[id].runs <= restarts + Cardinality(P(id)) + 1
    <3>1. CASE id \in DOMAIN s.cycles
      <4> DEFINE o == s.cycles[id]
      <4>0. r.cycles[id] = [we   |-> clock,
                            at   |-> IF "scheduler" = "scheduler" /\ o.at = Never THEN clock ELSE o.at,
                            runs |-> IF "scheduler" = "scheduler" THEN o.runs + 1 ELSE o.runs]
        BY <1>1, <1>3, <1>11, <3>1 DEF Effect, ids
      <4>1. r.cycles[id].runs = s.cycles[id].runs + 1
        BY <4>0
      <4>2. s.cycles[id].runs <= restarts + Cardinality(P(id)) /\ s.cycles[id].runs \in Nat
        BY <1>2, <1>4, <3>1 DEF Counted, CyclesOK, CycRec
      <4> HIDE DEF P, Q
      <4> QED
        BY <1>2, <1>8, <4>1, <4>2
    <3>2. CASE id \notin DOMAIN s.cycles
      <4>1. r.cycles[id].runs = 1
        BY <1>1, <1>3, <1>11, <3>2 DEF Effect, ids
      <4> HIDE DEF P, Q
      <4> QED
        BY <1>2, <1>8, <4>1
    <3> QED
      BY <3>1, <3>2
  <2> HIDE DEF P, Q
  <2> QED
    BY <1>2, <1>7, <1>8, <2>5, <2>6, <2>7
<1> QED
  BY <1>10, <1>11

\* What a schedule yields: the invariant, and the schedule was run.
Served(s, fl, ct, fault, r) ==
    /\ Good(r, fl, restarts, conf, clock)
    /\ Grows(s.cycles, r.cycles)
    /\ Ran(r.cycles, fl, conf, ct, clock)
    /\ Matches(conf[ct], clock) /\ fault.type # ct => \A a \in Agent : Done(r.cycles, fl, ct, a, clock)

\* One schedule of a tick, after the shorter one.
LEMMA ScheduleStep ==
    ASSUME IInv, NEW s, NEW fl, Good(s, fl, restarts, conf, clock), NEW ct \in CycleType, NEW fault, Recorded(fault, fl),
           ct \in DOMAIN PriorType => Ran(s.cycles, fl, conf, PriorType[ct], clock),
           DOMAIN s = {"cycles", "rollups", "signals", "lastRun"}, NEW r, r = RunSchedule(s, ct, fault)
    PROVE  Served(s, fl, ct, fault, r) /\ DOMAIN r = {"cycles", "rollups", "signals", "lastRun"}
<1> DEFINE e == Execute(s, ct, Able(ct, fault), WindowStart(ct, clock), clock, "scheduler")
<1>1. CASE ~IsDue(conf[ct], clock, s.lastRun[ct])
  <2>1. r = s
    BY <1>1 DEF RunSchedule
  <2>2. Matches(conf[ct], clock) => \A a \in Agent : Done(s.cycles, fl, ct, a, clock)
    BY <1>1, NotDueMeansDone
  <2> QED
    BY <2>1, <2>2 DEF Served, Ran, Grows
<1>2. CASE fault.type = ct /\ fault.call = "list"
  <2>1. r = s
    BY <1>2 DEF RunSchedule
  <2> DEFINE f == [at |-> clock, type |-> fault.type, call |-> fault.call, agent |-> fault.agent]
  <2>2. f \in fl
    BY <1>2 DEF Recorded
  <2>3. f.at = clock /\ f.type = ct /\ f.call = "list"
    BY <1>2
  <2>4. NotListed(fl, clock, ct)
    BY <2>2, <2>3 DEF NotListed
  <2> QED
    BY <1>2, <2>1, <2>4 DEF Served, Ran, Grows
<1>3. CASE IsDue(conf[ct], clock, s.lastRun[ct]) /\ ~(fault.type = ct /\ fault.call = "list")
  <2>1. r = [e EXCEPT !.lastRun = [s.lastRun EXCEPT ![ct] = clock]]
    BY <1>3 DEF RunSchedule, Able
  <2>2. DOMAIN e = {"cycles", "rollups", "signals", "lastRun"}
    BY DEF Execute
  <2> HIDE DEF e
  <2>3. /\ r.cycles = e.cycles /\ r.signals = e.signals /\ r.rollups = e.rollups
        /\ r.lastRun = [s.lastRun EXCEPT ![ct] = clock]
        /\ DOMAIN r = {"cycles", "rollups", "signals", "lastRun"}
    BY <2>1, <2>2
  <2>4. Runs(s, fl, ct, fault, r, e)
    BY <1>3, <2>3 DEF Runs, e
  <2>5. /\ CyclesOK(r.cycles, clock) /\ SignalsOK(r.signals) /\ RollsOK(r.rollups, r.cycles)
        /\ Grows(s.cycles, r.cycles)
    BY <2>4, RunsSound
  <2>6. \A a \in Agent : Done(r.cycles, fl, ct, a, clock)
    BY <2>4, RunsDone
  <2>7. LastOK(r.lastRun, r.cycles, fl, conf, clock) /\ Complete(r.rollups, r.cycles, fl)
    BY <2>4, RunsLast, RunsComplete
  <2>8. Covered(r.cycles, fl, conf, clock) /\ Counted(r.cycles, r.lastRun, restarts, conf, clock)
    BY <2>4, RunsCovered, RunsCounted
  <2> QED
    BY <2>3, <2>5, <2>6, <2>7, <2>8 DEF Served, Good, Ran
<1> QED
  BY <1>1, <1>2, <1>3

-----------------------------------------------------------------------------
(* The actions.                                                              *)

\* The schedules of a tick, the shortest first.
LEMMA TickSchedules ==
    ASSUME IInv, NEW fl, Good(Current, fl, restarts, conf, clock), NEW fault, Recorded(fault, fl),
           NEW r1, r1 = RunSchedule(Current, Schedules[1], fault),
           NEW r2, r2 = RunSchedule(r1, Schedules[2], fault),
           NEW r3, r3 = RunSchedule(r2, Schedules[3], fault)
    PROVE  /\ Good(r3, fl, restarts, conf, clock)
           /\ Grows(cycles, r3.cycles)
           /\ \A ct \in CycleType :
                 Matches(conf[ct], clock) /\ fault.type # ct => \A a \in Agent : Done(r3.cycles, fl, ct, a, clock)
<1> DEFINE F == {"cycles", "rollups", "signals", "lastRun"}
<1>1. /\ Schedules[1] = "daily" /\ Schedules[2] = "weekly" /\ Schedules[3] = "monthly"
      /\ "daily" \in CycleType /\ "weekly" \in CycleType /\ "monthly" \in CycleType
  BY DEF Schedules, CycleType
<1>2. /\ "daily" \notin DOMAIN PriorType
      /\ PriorType["weekly"] = "daily" /\ PriorType["monthly"] = "weekly"
  BY DEF PriorType
<1>3. DOMAIN Current = F /\ Current.cycles = cycles
  BY DEF Current
<1>4. Served(Current, fl, "daily", fault, r1) /\ DOMAIN r1 = F
  BY <1>1, <1>2, <1>3, ScheduleStep
<1>5. Good(r1, fl, restarts, conf, clock) /\ Ran(r1.cycles, fl, conf, "daily", clock)
  BY <1>4 DEF Served
<1>6. Served(r1, fl, "weekly", fault, r2) /\ DOMAIN r2 = F
  BY <1>1, <1>2, <1>4, <1>5, ScheduleStep
<1>7. Good(r2, fl, restarts, conf, clock) /\ Ran(r2.cycles, fl, conf, "weekly", clock)
  BY <1>6 DEF Served
<1>8. Served(r2, fl, "monthly", fault, r3)
  BY <1>1, <1>2, <1>6, <1>7, ScheduleStep
<1>9. Grows(cycles, r1.cycles) /\ Grows(r1.cycles, r2.cycles) /\ Grows(r2.cycles, r3.cycles)
  BY <1>3, <1>4, <1>6, <1>8 DEF Served
<1>10. Grows(cycles, r3.cycles) /\ Grows(r1.cycles, r3.cycles)
  BY <1>9 DEF Grows
<1>11. ASSUME NEW ct \in CycleType, Matches(conf[ct], clock), fault.type # ct, NEW a \in Agent
       PROVE  Done(r3.cycles, fl, ct, a, clock)
  <2>1. CASE ct = "daily"
    <3>1. Done(r1.cycles, fl, ct, a, clock)
      BY <1>4, <1>11, <2>1 DEF Served
    <3> QED
      BY <1>10, <3>1, DoneGrows
  <2>2. CASE ct = "weekly"
    <3>1. Done(r2.cycles, fl, ct, a, clock)
      BY <1>6, <1>11, <2>2 DEF Served
    <3> QED
      BY <1>9, <3>1, DoneGrows
  <2>3. CASE ct = "monthly"
    BY <1>8, <1>11, <2>3 DEF Served
  <2> QED
    BY <2>1, <2>2, <2>3 DEF CycleType
<1>12. Good(r3, fl, restarts, conf, clock)
  BY <1>8 DEF Served
<1> QED
  BY <1>10, <1>11, <1>12

\* A tick.
LEMMA TickStep ==
    ASSUME IInv, NEW fault \in Faults \cup {NoFault}, Tick(fault)
    PROVE  IInv'
<1> DEFINE r1 == RunSchedule(Current, Schedules[1], fault)
           r2 == RunSchedule(r1, Schedules[2], fault)
           r3 == RunSchedule(r2, Schedules[3], fault)
<1>1. /\ Became(r3)
      /\ UNCHANGED <<clock, conf, work, missed, restarts>>
      /\ failed \subseteq failed'
      /\ ticked' = ticked \/ (fault = NoFault)
  BY DEF Tick
<1>2. Recorded(fault, failed')
  <2>1. CASE fault = NoFault
    <3>1. fault.type = "none"
      BY <2>1 DEF NoFault
    <3> QED
      BY <3>1 DEF Recorded, CycleType
  <2>2. CASE fault # NoFault
    <3>1. fault \in Faults /\ failed' = failed \cup {[at |-> clock, type |-> fault.type, call |-> fault.call, agent |-> fault.agent]}
      BY <2>2 DEF Tick
    <3>2. fault.call \in {"list", "execute"}
      BY <3>1 DEF Faults
    <3> QED
      BY <3>1, <3>2 DEF Recorded
  <2> QED
    BY <2>1, <2>2
<1>3. Good(Current, failed', restarts, conf, clock)
  BY <1>1, GoodGrows DEF IInv
<1> HIDE DEF r1, r2, r3
<1>4. /\ Good(r3, failed', restarts, conf, clock)
      /\ Grows(cycles, r3.cycles)
      /\ \A ct \in CycleType :
            Matches(conf[ct], clock) /\ fault.type # ct => \A a \in Agent : Done(r3.cycles, failed', ct, a, clock)
  BY <1>2, <1>3, TickSchedules DEF r1, r2, r3
<1>5. cycles' = r3.cycles /\ rollups' = r3.rollups /\ signals' = r3.signals /\ lastRun' = r3.lastRun
  BY <1>1 DEF Became
<1>6. Good(Current, failed, restarts, conf, clock)'
  BY <1>1, <1>4, <1>5 DEF Good, Current
<1>7. Timely(cycles', failed', conf', clock', ticked', missed')
  <2> SUFFICES ASSUME NEW ct \in CycleType, NEW t \in Due(conf, ct, clock) \ missed, t < clock \/ ticked',
                      NEW a \in Agent
               PROVE  Done(cycles', failed', ct, a, t)
    BY <1>1 DEF Timely
  <2>1. CASE t < clock \/ ticked
    <3>1. Done(cycles, failed, ct, a, t)
      BY <2>1 DEF IInv, Timely
    <3> QED
      BY <1>1, <1>4, <1>5, <3>1, DoneGrows
  <2>2. CASE ~(t < clock) /\ ~ticked
    <3>1. fault = NoFault
      BY <1>1, <2>2
    <3>2. fault.type = "none"
      BY <3>1 DEF NoFault
    <3>3. conf \in Scenarios /\ Cal(clock) /\ clock \in Nat
      BY DEF IInv, Cal
    <3>4. Cal(t) /\ t <= clock /\ Matches(conf[ct], t)
      BY <3>3, DueFacts
    <3>5. t = clock
      BY <2>2, <3>3, <3>4 DEF Cal
    <3>6. fault.type # ct
      BY <3>2 DEF CycleType
    <3> QED
      BY <1>4, <1>5, <3>4, <3>5, <3>6
  <2> QED
    BY <2>1, <2>2
<1> QED
  BY <1>1, <1>6, <1>7 DEF IInv

\* The agents brain_reflect is called with.
LEMMA BrainSeq ==
    ASSUME NEW agent \in BrainAgents
    PROVE  agent \in Seq(Part)
<1>1. agent \in Seq(STRING)
  BY ScheduleAssumption
<1>2. STRING \subseteq Part
  BY DEF Part
<1>3. Len(agent) \in Nat /\ agent \in [1..Len(agent) -> STRING]
  BY <1>1, SeqDef, LenProperties
<1>4. agent \in [1..Len(agent) -> Part]
  BY <1>2, <1>3
<1> QED
  BY <1>3, <1>4, SeqDef

\* brain_reflect.
LEMMA BrainStep ==
    ASSUME IInv, NEW agent \in BrainAgents, NEW h \in BrainHours, ExecuteForBrain(agent, h)
    PROVE  IInv'
<1> DEFINE ws == WindowStart("daily", clock)
           we == IF ws + h > clock THEN clock ELSE ws + h
           r == Execute(Current, "daily", {agent}, ws, we, "brain")
           ids == Ids("daily", {agent}, ws)
<1>1. Became(r) /\ UNCHANGED <<clock, conf, work, ticked, missed, failed, restarts>>
  BY DEF ExecuteForBrain
<1>2. Cal(clock) /\ clock \in Nat /\ h \in Nat /\ "daily" \in CycleType /\ restarts \in Nat /\ conf \in Scenarios
  BY ScheduleAssumption DEF IInv, Cal, CycleType
<1>3. ws \in Nat /\ ws <= clock
  <2>1. ws \in Int /\ ws <= clock
    BY <1>2, Period
  <2>2. ws = 24 * Day(clock) /\ Day(clock) \in Nat
    BY <1>2, DayAndHour DEF WindowStart, Midnight
  <2> QED
    BY <2>1, <2>2
<1>4. Sound("daily", {agent}, ws, we, "brain")
  <2> HIDE DEF ws
  <2>1. we \in Nat /\ we <= clock /\ ws <= we
    BY <1>2, <1>3
  <2> HIDE DEF we
  <2>2. Cal(we)
    <3>1. Day(we) <= Day(clock) /\ Day(we) \in Nat /\ Day(clock) \in Nat
      BY <1>2, <2>1, DayGrows, DayAndHour
    <3>2. MonthStart[Len(MonthStart)] \in Nat /\ Day(clock) < MonthStart[Len(MonthStart)]
      BY ScheduleAssumption DEF IInv, Cal
    <3> QED
      BY <2>1, <3>1, <3>2 DEF Cal
  <2>3. WindowStart("daily", we) = ws
    BY <1>2, <2>1, <2>2, SameWindow DEF ws
  <2>4. {agent} \subseteq Seq(Part)
    BY BrainSeq
  <2> QED
    BY <1>2, <2>1, <2>2, <2>3, <2>4 DEF Sound
<1>5. Current.cycles = cycles /\ Current.rollups = rollups /\ Current.signals = signals /\ Current.lastRun = lastRun
  BY DEF Current
<1>6. /\ CyclesOK(cycles, clock) /\ LastOK(lastRun, cycles, failed, conf, clock) /\ SignalsOK(signals)
      /\ RollsOK(rollups, cycles) /\ Complete(rollups, cycles, failed) /\ Covered(cycles, failed, conf, clock)
      /\ Counted(cycles, lastRun, restarts, conf, clock)
  BY <1>5 DEF IInv, Good
<1> HIDE DEF ws, we, r, ids
<1>7. cycles' = r.cycles /\ rollups' = r.rollups /\ signals' = r.signals /\ lastRun' = r.lastRun
  BY <1>1 DEF Became
<1>8. Effect(Current, "daily", {agent}, ws, we, "brain", r)
  BY ExecuteFacts DEF r
<1>9. /\ DOMAIN cycles' = DOMAIN cycles \cup ids
      /\ \A id \in DOMAIN cycles \ ids : cycles'[id] = cycles[id]
      /\ rollups \subseteq rollups' /\ lastRun' = lastRun
  BY <1>5, <1>7, <1>8 DEF Effect, ids
<1>10. CyclesOK(cycles', clock) /\ SignalsOK(signals') /\ RollsOK(rollups', cycles')
  BY <1>4, <1>5, <1>6, <1>7, ExecuteWindows DEF r
<1>11. Grows(cycles, cycles')
  BY <1>4, <1>5, <1>6, <1>7, ExecuteGrows DEF r
<1>12. \A id \in ids : /\ id.type = "daily"
                       /\ Executed(cycles, id) => cycles'[id].at = cycles[id].at
                       /\ ~Executed(cycles, id) => cycles'[id].at = Never
  BY <1>4, <1>5, <1>6, <1>7, ExecuteCycle DEF r, ids
<1>13. "daily" \notin DOMAIN PriorType
  BY DEF PriorType
<1>14. LastOK(lastRun', cycles', failed, conf, clock)
  <2>1. \A ct \in CycleType, a \in Agent :
          Done(cycles, failed, ct, a, lastRun[ct]) => Done(cycles', failed, ct, a, lastRun[ct])
    BY <1>11, DoneGrows
  <2> QED
    BY <1>6, <1>9, <2>1 DEF LastOK
<1>15. Complete(rollups', cycles', failed)
  <2> SUFFICES ASSUME NEW i \in DOMAIN cycles', NEW j \in DOMAIN cycles', RollsUp(i, j, cycles'),
                      cycles'[j].at # Never, cycles'[j].at <= cycles'[i].at,
                      ~NotListed(failed, cycles'[i].at, j.type), ~Failed(failed, cycles'[i].at, j)
               PROVE  <<i, j>> \in rollups'
    BY DEF Complete
  <2>1. i \in DOMAIN cycles /\ cycles'[i] = cycles[i]
    <3>1. i.type \in DOMAIN PriorType
      BY DEF RollsUp
    <3>2. i \notin ids
      BY <1>12, <1>13, <3>1
    <3> QED
      BY <1>9, <3>2
  <2>2. j \in DOMAIN cycles /\ cycles'[j].at = cycles[j].at
    <3>1. CASE j \in ids
      BY <1>12, <3>1 DEF Executed
    <3>2. CASE j \notin ids
      BY <1>9, <3>2
    <3> QED
      BY <3>1, <3>2
  <2>3. RollsUp(i, j, cycles)
    BY <2>1 DEF RollsUp
  <2>4. <<i, j>> \in rollups
    BY <1>6, <2>1, <2>2, <2>3 DEF Complete
  <2> QED
    BY <1>9, <2>4
<1>16. Covered(cycles', failed, conf, clock)
  <2> SUFFICES ASSUME NEW i \in DOMAIN cycles', i.type \in DOMAIN PriorType, cycles'[i].at = clock
               PROVE  Ran(cycles', failed, conf, PriorType[i.type], clock)
    BY DEF Covered
  <2>1. i \in DOMAIN cycles /\ cycles'[i] = cycles[i]
    BY <1>9, <1>12, <1>13
  <2>2. Ran(cycles, failed, conf, PriorType[i.type], clock)
    BY <1>6, <2>1 DEF Covered
  <2> QED
    BY <1>11, <2>2, RanGrows
<1>17. Counted(cycles', lastRun', restarts, conf, clock)
  <2> SUFFICES ASSUME NEW id \in DOMAIN cycles'
               PROVE  cycles'[id].runs <= restarts + Cardinality(Past(lastRun, conf, id, clock))
    BY <1>9 DEF Counted
  <2>1. CASE id \in DOMAIN cycles
    <3>1. cycles'[id].runs = cycles[id].runs
      <4>1. CASE id \in ids
        <5> DEFINE o == cycles[id]
        <5>1. cycles'[id] = [we   |-> we,
                             at   |-> IF "brain" = "scheduler" /\ o.at = Never THEN clock ELSE o.at,
                             runs |-> IF "brain" = "scheduler" THEN o.runs + 1 ELSE o.runs]
          BY <1>5, <1>7, <1>8, <2>1, <4>1 DEF Effect, ids
        <5> QED
          BY <5>1
      <4>2. CASE id \notin ids
        BY <1>9, <2>1, <4>2
      <4> QED
        BY <4>1, <4>2
    <3> QED
      BY <1>6, <2>1, <3>1 DEF Counted
  <2>2. CASE id \notin DOMAIN cycles
    <3>1. id \in ids
      BY <1>9, <2>2
    <3>2. cycles'[id] = [we   |-> we,
                         at   |-> IF "brain" = "scheduler" THEN clock ELSE Never,
                         runs |-> IF "brain" = "scheduler" THEN 1 ELSE 0]
      BY <1>5, <1>7, <1>8, <2>2, <3>1 DEF Effect, ids
    <3>3. cycles'[id].runs = 0
      BY <3>2
    <3>4. id.type \in CycleType
      BY <1>2, <1>12, <3>1
    <3>5. Cardinality(Past(lastRun, conf, id, clock)) \in Nat
      BY <1>2, <3>4, PastFacts
    <3> QED
      BY <1>2, <3>3, <3>5
  <2> QED
    BY <2>1, <2>2
<1>18. Timely(cycles', failed, conf, clock, ticked, missed)
  <2>1. Timely(cycles, failed, conf, clock, ticked, missed)
    BY DEF IInv
  <2>2. \A ct, a, t : Done(cycles, failed, ct, a, t) => Done(cycles', failed, ct, a, t)
    BY <1>11, DoneGrows
  <2> QED
    BY <2>1, <2>2 DEF Timely
<1>19. Good(Current, failed, restarts, conf, clock)'
  BY <1>1, <1>10, <1>14, <1>15, <1>16, <1>17 DEF Good, Current
<1> QED
  BY <1>1, <1>18, <1>19 DEF IInv

\* The due times up to now are among those up to a later time, and those of them
\* that are not later are among them.
LEMMA DueGrows ==
    ASSUME NEW cf \in Scenarios, NEW ct \in CycleType, NEW now, Cal(now), NEW later, Cal(later), now <= later
    PROVE  /\ Due(cf, ct, now) \subseteq Due(cf, ct, later)
           /\ \A t \in Due(cf, ct, later) : t <= now => t \in Due(cf, ct, now)
<1>1. cf.first \in Nat /\ cf[ct].hour \in 0..23 /\ now \in Nat /\ later \in Nat /\ now \in Int /\ later \in Int
  BY ScheduleAssumption DEF Cal
<1>2. Day(now) \in Nat /\ Day(later) \in Nat /\ Day(now) <= Day(later)
  BY <1>1, DayAndHour, DayGrows
<1>3. ASSUME NEW t \in Due(cf, ct, now) PROVE t \in Due(cf, ct, later)
  <2>1. PICK d \in cf.first..Day(now) : t = Midnight(d) + cf[ct].hour
    BY DEF Due
  <2>2. d \in cf.first..Day(later)
    BY <1>1, <1>2
  <2>3. t \in Nat /\ t <= now /\ Matches(cf[ct], t)
    BY <1>1, <1>2, <2>1 DEF Due, Midnight
  <2>4. t <= later
    BY <1>1, <2>3
  <2> QED
    BY <2>1, <2>2, <2>3, <2>4 DEF Due
<1>4. ASSUME NEW t \in Due(cf, ct, later), t <= now PROVE t \in Due(cf, ct, now)
  <2>1. PICK d \in cf.first..Day(later) : t = Midnight(d) + cf[ct].hour
    BY DEF Due
  <2>2. Matches(cf[ct], t) /\ d \in Int /\ cf.first <= d
    BY <1>1, <1>2 DEF Due
  <2>3. now = 24 * Day(now) + Hour(now) /\ Hour(now) \in 0..23
    BY <1>1, DayAndHour
  <2>4. d <= Day(now)
    BY <1>1, <1>2, <1>4, <2>1, <2>2, <2>3 DEF Midnight
  <2>5. d \in cf.first..Day(now)
    BY <1>1, <1>2, <2>2, <2>4
  <2> QED
    BY <1>4, <2>1, <2>2, <2>5 DEF Due
<1> QED
  BY <1>3, <1>4

\* The clock stops at the next hour of a schedule at the latest.
LEMMA NextStop ==
    ASSUME IInv, Later # {}, clock' = CHOOSE t \in Later : \A u \in Later : t <= u
    PROVE  /\ Cal(clock') /\ clock < clock' /\ Day(clock') <= conf.last /\ conf.first <= Day(clock')
           /\ \A ct \in CycleType, t \in Nat :
                 Hour(t) = conf[ct].hour /\ t < clock' => t <= clock
<1>1. clock \in Nat /\ Cal(clock) /\ conf \in Scenarios /\ conf.first <= Day(clock)
  BY DEF IInv, Cal
<1>2. Later \subseteq Nat
  BY <1>1 DEF Later
<1>3. \E t \in Later : \A u \in Later : t <= u
  BY <1>2, LeastNat
<1>4. clock' \in Later /\ \A u \in Later : clock' <= u
  BY <1>3
<1>5. clock' \in (clock + 1)..(clock + 24) /\ clock' < End
  BY <1>4 DEF Later
<1>6. clock' \in Nat /\ clock < clock' /\ clock' <= clock + 24
  BY <1>1, <1>5
<1>7. conf.last \in Nat /\ conf.first \in Nat /\ conf.last < MonthStart[Len(MonthStart)] /\ MonthStart[Len(MonthStart)] \in Nat
  BY <1>1, ScheduleAssumption
<1>8. Day(clock') <= conf.last /\ Day(clock') \in Nat
  <2>1. clock' < 24 * (conf.last + 1)
    BY <1>5 DEF End, Midnight
  <2> QED
    BY <1>6, <1>7, <2>1, DayBelow
<1>9. Cal(clock')
  BY <1>6, <1>7, <1>8 DEF Cal
<1>10. conf.first <= Day(clock')
  <2>1. Day(clock) <= Day(clock') /\ Day(clock) \in Nat
    BY <1>1, <1>6, DayGrows, DayAndHour
  <2> QED
    BY <1>1, <1>7, <1>8, <2>1
<1>11. ASSUME NEW ct \in CycleType, NEW t \in Nat, Hour(t) = conf[ct].hour, t < clock', ~(t <= clock)
       PROVE  FALSE
  <2>1. t \in (clock + 1)..(clock + 24)
    BY <1>1, <1>6, <1>11
  <2>2. Hour(t) \in Hours
    BY <1>11 DEF Hours
  <2>3. t < End
    <3>1. End \in Nat
      BY <1>7 DEF End, Midnight
    <3> QED
      BY <1>5, <1>6, <1>11, <3>1
  <2>4. t \in Later
    BY <2>1, <2>2, <2>3 DEF Later
  <2>5. clock' <= t
    BY <1>4, <2>4
  <2> QED
    BY <1>6, <1>11, <2>5
<1> QED
  BY <1>6, <1>8, <1>9, <1>10, <1>11

\* Time passes.
LEMMA AdvanceStep ==
    ASSUME IInv, Advance
    PROVE  IInv'
<1>1. /\ UNCHANGED <<conf, lastRun, graph, failed, restarts>> /\ ticked' = FALSE /\ missed \subseteq missed'
      /\ ~ticked => clock \in missed'
  BY DEF Advance
<1>2. UNCHANGED <<cycles, rollups, signals, work>>
  BY <1>1 DEF graph
<1>3. /\ Cal(clock') /\ clock < clock' /\ Day(clock') <= conf.last /\ conf.first <= Day(clock')
      /\ \A ct \in CycleType, t \in Nat :
            Hour(t) = conf[ct].hour /\ t < clock' => t <= clock
  BY NextStop DEF Advance
<1>4. /\ CyclesOK(cycles, clock) /\ LastOK(lastRun, cycles, failed, conf, clock) /\ SignalsOK(signals)
      /\ RollsOK(rollups, cycles) /\ Complete(rollups, cycles, failed)
      /\ Counted(cycles, lastRun, restarts, conf, clock)
  BY DEF IInv, Good, Current
<1>5. clock \in Nat /\ clock' \in Nat /\ Cal(clock) /\ conf \in Scenarios /\ restarts \in Nat
  BY <1>3 DEF IInv, Cal
<1>6. \A t : Cal(t) /\ t <= clock => t <= clock'
  BY <1>3, <1>5 DEF Cal
<1>7. CyclesOK(cycles, clock')
  BY <1>4, <1>6 DEF CyclesOK
<1>8. LastOK(lastRun, cycles, failed, conf, clock')
  BY <1>4, <1>6 DEF LastOK
<1>9. Covered(cycles, failed, conf, clock')
  <2> SUFFICES ASSUME NEW i \in DOMAIN cycles PROVE cycles[i].at # clock'
    BY DEF Covered
  <2>1. CASE cycles[i].at = Never
    BY <1>5, <2>1 DEF Never
  <2>2. CASE cycles[i].at # Never
    <3>1. Cal(cycles[i].at) /\ cycles[i].at <= clock
      BY <1>4, <2>2 DEF CyclesOK
    <3> QED
      BY <1>3, <1>5, <3>1 DEF Cal
  <2> QED
    BY <2>1, <2>2
<1>10. Counted(cycles, lastRun, restarts, conf, clock')
  <2> SUFFICES ASSUME NEW id \in DOMAIN cycles
               PROVE  cycles[id].runs <= restarts + Cardinality(Past(lastRun, conf, id, clock'))
    BY DEF Counted
  <2> DEFINE P == Past(lastRun, conf, id, clock)
             Q == Past(lastRun, conf, id, clock')
  <2>1. id.type \in CycleType /\ cycles[id].runs \in Nat
    BY <1>4 DEF CyclesOK, IdRec, CycRec
  <2>2. Cardinality(P) \in Nat /\ IsFiniteSet(Q) /\ Cardinality(Q) \in Nat
    BY <1>3, <1>5, <2>1, PastFacts
  <2>3. ASSUME NEW t \in P PROVE t \in Q
    <3>1. t \in Due(conf, id.type, clock) /\ WindowStart(id.type, t) = id.ws
      BY DEF Past
    <3>2. t \in Due(conf, id.type, clock')
      <4>1. clock <= clock'
        BY <1>3, <1>5
      <4> QED
        BY <1>3, <1>5, <2>1, <3>1, <4>1, DueGrows
    <3>3. t < clock'
      <4>1. Cal(t) /\ t <= clock
        BY <1>5, <2>1, <3>1, DueFacts
      <4> QED
        BY <1>3, <1>5, <4>1 DEF Cal
    <3> QED
      BY <3>1, <3>2, <3>3 DEF Past
  <2>4. Cardinality(P) <= Cardinality(Q)
    <3>1. P \in SUBSET Q
      BY <2>3
    <3> QED
      BY <2>2, <3>1, FS_Subset
  <2>5. cycles[id].runs <= restarts + Cardinality(P)
    BY <1>4 DEF Counted
  <2> HIDE DEF P, Q
  <2>6. cycles[id].runs <= restarts + Cardinality(Q)
    BY <1>5, <2>1, <2>2, <2>4, <2>5
  <2> QED
    BY <2>6 DEF Q
<1>11. Timely(cycles, failed, conf, clock', FALSE, missed')
  <2> SUFFICES ASSUME NEW ct \in CycleType, NEW t \in Due(conf, ct, clock') \ missed', t < clock', NEW a \in Agent
               PROVE  Done(cycles, failed, ct, a, t)
    BY DEF Timely
  <2>1. Cal(t) /\ Matches(conf[ct], t)
    BY <1>3, <1>5, DueFacts
  <2>2. t \in Nat /\ t <= clock
    BY <1>3, <2>1 DEF Cal, Matches
  <2>3. t \in Due(conf, ct, clock) \ missed
    <3>1. clock <= clock'
      BY <1>3, <1>5
    <3> QED
      BY <1>1, <1>3, <1>5, <2>2, <3>1, DueGrows
  <2>4. t < clock \/ ticked
    BY <1>1, <1>5, <2>2
  <2> QED
    BY <2>3, <2>4 DEF IInv, Timely
<1>12. Good(Current, failed, restarts, conf, clock)'
  BY <1>1, <1>2, <1>4, <1>7, <1>8, <1>9, <1>10 DEF Good, Current
<1> QED
  BY <1>1, <1>2, <1>3, <1>11, <1>12 DEF IInv

\* A restart forgets the last runs: what was executed in this minute may be executed again.
LEMMA RestartStep ==
    ASSUME IInv, Restart
    PROVE  IInv'
<1>1. /\ UNCHANGED <<clock, conf, ticked, missed, failed, cycles, rollups, signals, work>>
      /\ lastRun' = [ct \in CycleType |-> Never] /\ restarts' = restarts + 1
  BY DEF Restart, graph
<1>2. Cal(clock) /\ clock \in Nat /\ restarts \in Nat /\ conf \in Scenarios
  BY DEF IInv, Cal
<1>3. Good(Current, failed, restarts, conf, clock)
  BY DEF IInv
<1>4. LastOK(lastRun', cycles, failed, conf, clock)
  BY <1>1 DEF LastOK, Never
<1>5. Counted(cycles, lastRun', restarts', conf, clock)
  <2> SUFFICES ASSUME NEW id \in DOMAIN cycles
               PROVE  cycles[id].runs <= restarts' + Cardinality(Past(lastRun', conf, id, clock))
    BY DEF Counted
  <2> DEFINE P == Past(lastRun, conf, id, clock)
             Q == Past(lastRun', conf, id, clock)
  <2>1. id.type \in CycleType /\ cycles[id].runs \in Nat /\ cycles[id].runs <= restarts + Cardinality(P)
    BY <1>3 DEF Good, Current, CyclesOK, IdRec, CycRec, Counted
  <2>2. Cardinality(P) \in Nat /\ IsFiniteSet(Q) /\ Cardinality(Q) \in Nat
    BY <1>2, <2>1, PastFacts
  <2>3. P \in SUBSET (Q \cup {clock})
    <3>1. ASSUME NEW t \in P, t # clock PROVE t \in Q
      <4>1. t \in Due(conf, id.type, clock) /\ WindowStart(id.type, t) = id.ws
        BY DEF Past
      <4>2. Cal(t) /\ t <= clock
        BY <1>2, <2>1, <4>1, DueFacts
      <4>3. t < clock
        BY <1>2, <3>1, <4>2 DEF Cal
      <4> QED
        BY <4>1, <4>3 DEF Past
    <3> QED
      BY <3>1
  <2> HIDE DEF P, Q
  <2>4. /\ IsFiniteSet(Q \cup {clock})
        /\ Cardinality(Q \cup {clock}) = IF clock \in Q THEN Cardinality(Q) ELSE Cardinality(Q) + 1
    BY <2>2, FS_AddElement
  <2>5. Cardinality(P) <= Cardinality(Q \cup {clock})
    BY <2>3, <2>4, FS_Subset
  <2>6. cycles[id].runs <= restarts + 1 + Cardinality(Q)
    BY <1>2, <2>1, <2>2, <2>4, <2>5
  <2> QED
    BY <1>1, <2>6 DEF Q
<1>6. Good(Current, failed, restarts, conf, clock)'
  BY <1>1, <1>3, <1>4, <1>5 DEF Good, Current
<1> QED
  BY <1>1, <1>2, <1>6 DEF IInv

\* Work is created in the calendar.
LEMMA WorkStep ==
    ASSUME IInv, NEW a \in Agent, Work(a)
    PROVE  IInv'
<1>1. /\ UNCHANGED <<clock, conf, lastRun, cycles, rollups, signals, ticked, missed, failed, restarts>>
      /\ work' = work \cup {[at |-> clock, agent |-> NodeOf(a)]}
  BY DEF Work
<1>2. \A n \in work' : Cal(n.at)
  BY <1>1 DEF IInv
<1>3. Good(Current, failed, restarts, conf, clock)'
  BY <1>1 DEF Good, Current, IInv
<1> QED
  BY <1>1, <1>2, <1>3 DEF IInv

\* At first there is nothing, and nothing is due before.
LEMMA InitInv == Init => IInv
<1> SUFFICES ASSUME Init PROVE IInv
  OBVIOUS
<1>1. /\ conf \in Scenarios /\ clock = Midnight(conf.first) /\ lastRun = [ct \in CycleType |-> Never]
      /\ DOMAIN cycles = {} /\ rollups = {} /\ signals = {} /\ work = {} /\ ticked = FALSE /\ restarts = 0
  BY DEF Init, Start
<1>2. /\ conf.first \in Nat /\ conf.last \in Nat /\ conf.first <= conf.last
      /\ conf.last < MonthStart[Len(MonthStart)] /\ MonthStart[Len(MonthStart)] \in Nat
  BY <1>1, ScheduleAssumption
<1>3. clock \in Nat /\ Day(clock) = conf.first
  <2>1. clock = 24 * conf.first /\ clock \in Nat
    BY <1>1, <1>2 DEF Midnight
  <2> QED
    BY <1>2, <2>1, DayBelow
<1>4. Cal(clock)
  BY <1>2, <1>3 DEF Cal
<1>5. Good(Current, failed, restarts, conf, clock)
  BY <1>1 DEF Good, Current, CyclesOK, LastOK, SignalsOK, RollsOK, Complete, Covered, Counted, Never
<1>6. Timely(cycles, failed, conf, clock, ticked, missed)
  <2> SUFFICES ASSUME NEW ct \in CycleType, NEW t \in Due(conf, ct, clock) PROVE ~(t < clock)
    BY <1>1 DEF Timely
  <2>1. PICK d \in conf.first..Day(clock) : t = Midnight(d) + conf[ct].hour
    BY DEF Due
  <2>2. conf[ct].hour \in 0..23
    BY <1>1, ScheduleAssumption
  <2>3. d \in Nat /\ conf.first <= d
    BY <1>2, <1>3
  <2> DEFINE hour == conf[ct].hour
             first == conf.first
  <2>4. t = 24 * d + hour /\ clock = 24 * first
    BY <1>1, <2>1 DEF Midnight
  <2>5. hour \in 0..23 /\ d \in Nat /\ first \in Nat /\ first <= d
    BY <1>2, <2>2, <2>3
  <2> HIDE DEF hour, first
  <2> QED
    BY <2>4, <2>5
<1> QED
  BY <1>1, <1>2, <1>3, <1>4, <1>5, <1>6 DEF IInv

\* A stuttering step changes nothing.
LEMMA StutterStep == IInv /\ UNCHANGED vars => IInv'
BY DEF vars, graph, IInv, Good, Current

\* The inductive invariant of the scheduler: windows, last runs, signals, roll-ups and
\* counts agree with the calendar in every reachable state.
THEOREM Invariance == Spec => []IInv
<1>1. ASSUME IInv, Next PROVE IInv'
  <2>1. CASE Advance
    BY <1>1, <2>1, AdvanceStep
  <2>2. CASE \E fault \in Faults \cup {NoFault} : Tick(fault)
    BY <1>1, <2>2, TickStep
  <2>3. CASE \E agent \in BrainAgents, h \in BrainHours : ExecuteForBrain(agent, h)
    BY <1>1, <2>3, BrainStep
  <2>4. CASE Restart
    BY <1>1, <2>4, RestartStep
  <2>5. CASE \E a \in Agent : Work(a)
    BY <1>1, <2>5, WorkStep
  <2> QED
    BY <1>1, <2>1, <2>2, <2>3, <2>4, <2>5 DEF Next
<1>2. IInv /\ [Next]_vars => IInv'
  BY <1>1, StutterStep
<1> QED
  BY <1>2, InitInv, PTL DEF Spec

-----------------------------------------------------------------------------
(* What follows.                                                             *)

\* Different agents have different nodes.
LEMMA NodesDiffer ==
    ASSUME NEW s \in Seq(Part), NEW t \in Seq(Part), AgentNodeID(s) = AgentNodeID(t)
    PROVE  s = t
<1> DEFINE u == <<"n", "Agent">>
<1>1. "n" \in Part /\ "Agent" \in Part
  BY DEF Part
<1>2. u \in Seq(Part) /\ Len(u) = 2
  BY <1>1, Tuples
<1>3. u \o s = u \o t
  BY DEF AgentNodeID
<1> HIDE DEF u
<1>4. Len(s) \in Nat /\ Len(t) \in Nat /\ Len(u \o s) = 2 + Len(s) /\ Len(u \o t) = 2 + Len(t)
  <2>1. Len(s) \in Nat /\ Len(t) \in Nat
    BY LenProperties
  <2>2. Len(u \o s) = Len(u) + Len(s) /\ Len(u \o t) = Len(u) + Len(t)
    BY <1>2, ConcatProperties
  <2> QED
    BY <1>2, <2>1, <2>2
<1>5. Len(s) = Len(t)
  <2>1. 2 + Len(s) = 2 + Len(t)
    BY <1>3, <1>4
  <2> QED
    BY <1>4, <2>1
<1>6. ASSUME NEW i \in 1..Len(s) PROVE s[i] = t[i]
  <2>1. i + 2 \in 1..(2 + Len(s)) /\ ~(i + 2 <= 2) /\ (i + 2) - 2 = i
    BY <1>4
  <2>2. (u \o s)[i + 2] = s[i] /\ (u \o t)[i + 2] = t[i]
    BY <1>2, <1>4, <1>5, <2>1, ConcatProperties
  <2> QED
    BY <1>3, <2>2
<1> QED
  BY <1>5, <1>6, SeqEqual

\* The windows of an agent's cycles of one type never overlap, whoever executed them.
THEOREM WindowsNeverOverlap == Spec => []WindowsDisjoint
<1>1. IInv => WindowsDisjoint
  <2> SUFFICES ASSUME IInv, NEW i \in DOMAIN cycles
               PROVE  /\ i.ws <= cycles[i].we /\ cycles[i].we <= clock
                      /\ \A j \in DOMAIN cycles :
                            i.ws < j.ws /\ j.ws < cycles[i].we => i.type # j.type \/ i.agent # j.agent
    BY DEF WindowsDisjoint
  <2>1. CyclesOK(cycles, clock)
    BY DEF IInv, Good, Current
  <2>2. /\ i.type \in CycleType /\ i.ws \in Int /\ Cal(cycles[i].we) /\ cycles[i].we <= clock
        /\ i.ws = WindowStart(i.type, cycles[i].we)
    BY <2>1 DEF CyclesOK, IdRec
  <2>3. i.ws <= cycles[i].we
    BY <2>2, Period
  <2>4. ASSUME NEW j \in DOMAIN cycles, i.ws < j.ws, j.ws < cycles[i].we, i.type = j.type PROVE FALSE
    <3>1. j.ws \in Int /\ Cal(cycles[j].we) /\ j.ws = WindowStart(i.type, cycles[j].we)
      BY <2>1, <2>4 DEF CyclesOK, IdRec
    <3>2. j.ws <= cycles[i].we
      BY <2>2, <2>4, <3>1 DEF Cal
    <3>3. j.ws <= i.ws
      BY <2>2, <3>1, <3>2, Period
    <3> QED
      BY <2>2, <2>4, <3>1, <3>3
  <2> QED
    BY <2>2, <2>3, <2>4
<1> QED
  BY <1>1, Invariance, PTL

\* A message is scored by one cycle of each type at most.
THEOREM ScoredOnce == Spec => []CountedOnce
<1>1. IInv => CountedOnce
  <2> SUFFICES ASSUME IInv, NEW p \in signals, NEW q \in signals, p[2] = q[2], p[1].type = q[1].type
               PROVE  p[1] = q[1]
    BY DEF CountedOnce
  <2>1. SignalsOK(signals)
    BY DEF IInv, Good, Current
  <2>2. /\ p[1] \in IdRec /\ p[2].agent = AgentNodeID(p[1].agent) /\ p[1].ws = WindowStart(p[1].type, p[2].at)
        /\ q[1] \in IdRec /\ q[2].agent = AgentNodeID(q[1].agent) /\ q[1].ws = WindowStart(q[1].type, q[2].at)
    BY <2>1 DEF SignalsOK
  <2>3. p[1].ws = q[1].ws
    BY <2>2
  <2>4. p[1].agent \in Seq(Part) /\ q[1].agent \in Seq(Part)
    BY <2>2 DEF IdRec
  <2>5. p[1].agent = q[1].agent
    BY <2>2, <2>4, NodesDiffer
  <2> QED
    BY <2>2, <2>3, <2>5 DEF IdRec
<1> QED
  BY <1>1, Invariance, PTL

\* Weekly and monthly cycles roll up exactly the cycles below that they should.
THEOREM RollsUpAll == Spec => []RollupsRight
<1>1. IInv => RollupsRight
  <2> SUFFICES ASSUME IInv PROVE RollupsRight
    OBVIOUS
  <2>1. RollsOK(rollups, cycles) /\ Complete(rollups, cycles, failed)
    BY DEF IInv, Good, Current
  <2>2. \A p \in rollups :
          /\ p[1].type \in DOMAIN PriorType /\ p[2].type = PriorType[p[1].type]
          /\ p[1].ws <= p[2].ws /\ p[2].ws < cycles[p[1]].we
    BY <2>1 DEF RollsOK, RollsUp
  <2>3. \A t, x : (ListFailed(t, x) <=> NotListed(failed, t, x)) /\ (CycleFailed(t, x) <=> Failed(failed, t, x))
    BY DEF ListFailed, NotListed, CycleFailed, Failed
  <2>4. ASSUME NEW i \in DOMAIN cycles, i.type \in DOMAIN PriorType,
               NEW j \in DOMAIN cycles, i.ws <= j.ws, j.ws < cycles[i].we, j.type = PriorType[i.type],
               cycles[j].at # Never, cycles[j].at <= cycles[i].at,
               ~ListFailed(cycles[i].at, j.type), ~CycleFailed(cycles[i].at, j)
        PROVE  <<i, j>> \in rollups
    <3>1. RollsUp(i, j, cycles)
      BY <2>4 DEF RollsUp
    <3>2. ~NotListed(failed, cycles[i].at, j.type) /\ ~Failed(failed, cycles[i].at, j)
      BY <2>3, <2>4
    <3> QED
      BY <2>1, <2>4, <3>1, <3>2 DEF Complete
  <2> QED
    BY <2>2, <2>4 DEF RollupsRight
<1> QED
  BY <1>1, Invariance, PTL

\* The scheduler executes a cycle once per due time, and once more per restart at most.
THEOREM ExecutedOncePerDueTime == Spec => []OncePerDueTime
<1>1. IInv => OncePerDueTime
  <2> SUFFICES ASSUME IInv, NEW id \in DOMAIN cycles
               PROVE  cycles[id].runs <=
                        restarts + Cardinality({t \in DueTimes(id.type) : WindowStart(id.type, t) = id.ws})
    BY DEF OncePerDueTime
  <2> DEFINE D == {t \in DueTimes(id.type) : WindowStart(id.type, t) = id.ws}
             P == Past(lastRun, conf, id, clock)
  <2>1. /\ id.type \in CycleType /\ cycles[id].runs \in Nat /\ cycles[id].runs <= restarts + Cardinality(P)
        /\ Cal(clock) /\ conf \in Scenarios /\ restarts \in Nat
    BY DEF IInv, Good, Current, CyclesOK, IdRec, CycRec, Counted
  <2>2. DueTimes(id.type) = Due(conf, id.type, clock)
    BY DEF DueTimes, Due
  <2>3. IsFiniteSet(DueTimes(id.type))
    BY <2>1, <2>2, DueFacts
  <2>4. IsFiniteSet(D) /\ Cardinality(D) \in Nat
    <3>1. D \in SUBSET DueTimes(id.type)
      OBVIOUS
    <3> QED
      BY <2>3, <3>1, FS_Subset, FS_CardinalityType
  <2>5. Cardinality(P) \in Nat
    BY <2>1, PastFacts
  <2>6. Cardinality(P) <= Cardinality(D)
    <3>1. P \in SUBSET D
      BY <2>2 DEF Past
    <3> QED
      BY <2>4, <3>1, FS_Subset
  <2> HIDE DEF D, P
  <2>7. cycles[id].runs <= restarts + Cardinality(D)
    BY <2>1, <2>4, <2>5, <2>6
  <2> QED
    BY <2>7 DEF D
<1> QED
  BY <1>1, Invariance, PTL

\* The minimum gap never suppresses a due cycle.
THEOREM NoCycleIsMissed == Spec => []NothingMissed
<1>1. IInv => NothingMissed
  <2> SUFFICES ASSUME IInv, NEW ct \in CycleType, NEW t \in DueTimes(ct) \ missed, NEW a \in Agent,
                      t < clock \/ ticked, ~CycleFailed(t, IdOf(a, ct, t))
               PROVE  IdOf(a, ct, t) \in DOMAIN cycles /\ cycles[IdOf(a, ct, t)].at # Never
    BY DEF NothingMissed, IdOf
  <2>1. t \in Due(conf, ct, clock) \ missed
    BY DEF DueTimes, Due
  <2>2. Done(cycles, failed, ct, a, t)
    BY <2>1 DEF IInv, Timely
  <2>3. ~Failed(failed, t, IdOf(a, ct, t))
    BY DEF Failed, CycleFailed
  <2> QED
    BY <2>2, <2>3 DEF Done, Executed
<1> QED
  BY <1>1, Invariance, PTL
=============================================================================
