\* What a cache entry or a prefix may hold or miss after a renegotiation, an
\* index change or a refused set.
\* Each property fails: keep one to see its counterexample.
SPECIFICATION Spec
CONSTANTS
    Indexes <- AllIndexes
    Buses <- AllBuses
    Modes <- AllModes
    BuiltIn = BuiltIn
    Oversized <- LongSps
    Deliveries <- SomeOrAll
    NoMode = NoMode
    NoCamera = NoCamera
    NoEntry = NoEntry
    NoPrefix = NoPrefix
    NoKey = NoKey
    MaxSessions = 2
    MaxDisturbances = 1
INVARIANTS
    ResolutionKeyed
    SelectorsKeptApart
    WholeDeliveryIsPrefixed
PROPERTY
    NewKeyStored
