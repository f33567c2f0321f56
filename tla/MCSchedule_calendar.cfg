SPECIFICATION Spec
CONSTANTS
    Named = {"a1"}
    Ingested = {"a2"}
    BrainAgents <- MCBrainAgents
    BrainHours = {1, 24}
    Scenarios <- MCScenarios
    MonthStart <- MCMonths
    FirstWeekday = 4
    OtherHours = {12}
INVARIANTS NothingMissed OncePerDueTime WindowsDisjoint CountedOnce RollupsRight
