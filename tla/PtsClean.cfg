\* Pauses, resumes and clock changes against the callback.
SPECIFICATION Spec
CONSTANTS
    c1 = c1
    c2 = c2
    NoClock = NoClock
    Clocks <- TwoClocks
    ClockOffset <- Offsets
    MaxTick = 4
    MaxUnits = 2
    Width = 24
INVARIANTS
    HonestStamp
