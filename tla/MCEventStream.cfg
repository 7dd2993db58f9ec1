\* One segment of two characters, two events beside those that end an Attempt, one
\* fault; a queue of two frames, a replay of one event and a history page of two.
CONSTANTS
    Segment = {g1}
    NoSegment = NoSegment
    QueueSize = 2
    ReplayLimit = 1
    PageSize = 2
    MaxEvents = 2
    MaxText = 2
    MaxDelta = 1
    MaxFaults = 1
SPECIFICATION FairSpec
INVARIANTS
    CursorSkipsNothing
    QuietStreamIsComplete
    LiveSegmentsAreOpen
PROPERTIES
    EventsReachTheClient
CHECK_DEADLOCK FALSE
