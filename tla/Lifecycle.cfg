CONSTANTS
    Send = {a, b}
    MaxDeltas = 1
    Grace = 2
    StopTimeout = 1
    MaxStarts = 2
SPECIFICATION FairSpec
INVARIANTS
    TypeOK
    EventsEndOnce
    OutcomeIsTrue
PROPERTIES
    RefusalIsFinal
    CleanExitCutsNothing
    SignalEndsProcess
CHECK_DEADLOCK FALSE
