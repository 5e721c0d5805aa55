SPECIFICATION FairSpec
CONSTANTS
    serviceFlags = {"CanBeSuspended"}
    Code = {"stop", "pause", "continue", "interrogate", "shutdown", "user"}
    MaxControls = 6
    Nobody = Nobody
INVARIANTS StatusIsTrue OneWaits
PROPERTIES StartEnds StopEnds
CHECK_DEADLOCK FALSE
