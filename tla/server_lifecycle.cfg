\* Two calls at a time, and three signals, kills or failures.
SPECIFICATION FairSpec
CONSTANTS
    MaxCalls = 2
    MaxTrouble = 3
INVARIANTS StopCutsNothing StopLeavesNothing
PROPERTIES SignalStops ComesBack
