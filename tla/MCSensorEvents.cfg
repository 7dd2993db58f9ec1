\* Two events of Zeek, one loop of each kind, an incident of the past that is closed, and
\* one upset: a bundle switch, a pass that breaks off, a refusal or a change by hand.
CONSTANTS
    zeek = zeek low = low
    Zeek = zeek
    Box = box
    Collector = {n1}
    Monitor = {m1}
    MaxIncidents = 3
    Past = {1}
    Nothing = Nothing
    Rule = {low}
    Threshold <- Once
    Seen <- Watched
    Urgent = {}
    MaxEvents <- TwoOfZeek
    MaxPolicy = 1
    MaxSignals = 2
    MaxUpsets = 1
SPECIFICATION FairSpec
CHECK_DEADLOCK FALSE
INVARIANTS
    ChainUnbroken
    NotifiedSignalIsComplete
PROPERTIES
    ClosedGainsOnlyItsSignals
    EventsAreDecided
    SignalsAreNotified
