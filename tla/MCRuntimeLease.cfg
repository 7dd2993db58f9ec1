\* Two acquisitions, enough clock for a takeover, a renewal and a second expiry.
CONSTANTS
    Owner = {o1, o2}
    NoOwner = NoOwner
    TTL = 2
    MaxClock = 5
SYMMETRY Symmetry
SPECIFICATION Spec
INVARIANTS
    LiveHandleOwnsRow
    OverlapOnlyPastExpiry
PROPERTIES
    ImplementsFencedResource
CHECK_DEADLOCK FALSE
