\* Two cameras under two selectors, one with a set too long to keep, with
\* moves, renegotiations and crashes.
SPECIFICATION Spec
CONSTANTS
    Indexes <- AllIndexes
    Buses <- AllBuses
    Modes <- AllModes
    BuiltIn = BuiltIn
    Oversized <- LongSps
    Deliveries <- SomeOrAll
    NoMode = NoMode
    NoCamera = NoCamera
    NoEntry = NoEntry
    NoPrefix = NoPrefix
    NoKey = NoKey
    MaxSessions = 2
    MaxDisturbances = 1
INVARIANTS
    EntryMatchesKey
    PrefixIsOwn
