SPECIFICATION FairSpec
CONSTANTS
    r1 = r1  r2 = r2
    Requests = {r1, r2}
    NoReading = NoReading
    MaxToolCalls = 2
    MaxCrashes = 1
    Mixes = {{"Agent", "Reject", "Crash"}, {"Agent", "Customer"}, {"Customer", "Console"}}
INVARIANTS
    TypeOK
    CustomerIsHeard
    NothingUnconfirmed
    DecisionHolds
    RunStatusIsTrue
PROPERTIES
    RunEnds
CHECK_DEADLOCK FALSE
