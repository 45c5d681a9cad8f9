\* A delivery commits the base time of before the resume.
SPECIFICATION Spec
CONSTANTS
    c1 = c1
    c2 = c2
    NoClock = NoClock
    Clocks <- TwoClocks
    ClockOffset <- Offsets
    MaxTick = 5
    MaxUnits = 1
    Width = 24
INVARIANT
    ResumeRelatches
