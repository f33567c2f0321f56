------------------------------ MODULE MCSchedule ------------------------------
(* Instances of Schedule for TLC.                                            *)
EXTENDS Schedule

\* January, February and March of 2026; February 1 is a Sunday.
MCMonths == <<0, 31, 59, 90>>

\* The defaults of package config, in the first days of February.
Default == [daily   |-> ParseSchedule(2, AnyWeekday, 0),
            weekly  |-> ParseSchedule(3, 1, 0),
            monthly |-> ParseSchedule(4, AnyWeekday, 1),
            first |-> 31, last |-> 33, maxEvents |-> 2]

\* All at the end of a day, the weekly one on Sunday: the three fall together
\* on February 8, after a whole week.
EndOfWeek == [daily   |-> ParseSchedule(23, AnyWeekday, 0),
              weekly  |-> ParseSchedule(23, 0, 0),
              monthly |-> ParseSchedule(23, AnyWeekday, 8),
              first |-> 32, last |-> 38, maxEvents |-> 2]

\* From February 1 to March 1.
WholeMonth == [EndOfWeek EXCEPT !.monthly = ParseSchedule(23, AnyWeekday, 1),
                                !.first = 31, !.last = 59, !.maxEvents = 1]

\* reflect.monthly_day is not set.
NoDay == [EndOfWeek EXCEPT !.monthly = ParseSchedule(23, AnyWeekday, 0), !.last = 34]

\* The day the three fall together, with a failure, a restart and another failure.
Together == [EndOfWeek EXCEPT !.first = 38, !.maxEvents = 3]

\* All at midnight of February 1, when the process starts.
AtMidnight == [daily   |-> ParseSchedule(0, AnyWeekday, 0),
               weekly  |-> ParseSchedule(0, 0, 0),
               monthly |-> ParseSchedule(0, AnyWeekday, 1),
               first |-> 31, last |-> 32, maxEvents |-> 2]

MCScenarios == {Default, EndOfWeek, WholeMonth, NoDay, Together, AtMidnight}
MCBrainAgents == {<<"a1">>, <<"a2">>}
=============================================================================
