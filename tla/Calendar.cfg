\* Every view reachable with 4-bit years (192 months), in both modes.
CONSTANTS
    YearBits = 4
    Nows <- MCNows
SPECIFICATION Spec
INVARIANT TypeOK ActionMatchesMode Sandboxed
PROPERTY ImplementsCalendarCursor
CHECK_DEADLOCK FALSE
