\* Two of: a row lost, a run killed, the file restored, with a backfill of one row; or two rows, two days and a kill.
\* Parts hold up to two events.
CONSTANTS
    NumTables = 1
    MaxId = 2
    Values = {a}
    NoRow = NoRow
    Emitters = {}
    Importers = {}
    MaxTime = 2
    MaxSeq = 2
    MaxRuns = 1
    ClockMayStepBack = FALSE
    DatesMayLead = FALSE
    MaxRows = 2
    Faults = {"loss", "kill", "restore"}
    MaxFaults = 2
SPECIFICATION MCSpec
CHECK_DEADLOCK FALSE
INVARIANTS
    LedgerIsTrue
    PassedIsShipped
    ReconciledInPlace
    ZoneIsACut
PROPERTIES
    Delivered
