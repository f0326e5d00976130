SPECIFICATION FairSpec
CONSTANTS
    Rows = 3
    Airing = {1, 2}
    Slots = 1
    Caller = {c1}
    Batch = 2
    MaxRuns = 2
    MaxFaults = 1
    MaxCrashes = 1
    MaxStops = 1
CHECK_DEADLOCK FALSE
INVARIANTS JobsExclusive MigrationComplete
PROPERTIES FetchedInTheEnd StatusCatchesUp StopIsHeard
