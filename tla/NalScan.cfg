\* Every short delivery against the Annex-B reference.
SPECIFICATION ScanSpec
CHECK_DEADLOCK FALSE
CONSTANTS
    Byte <- ThreeBytes
    MaxLen = 10
    Max = 2
INVARIANTS
    UnitsTile
    NoUnitMissed
    HeaderAgrees
