\* Two tables of one row over two instants, two emitters; a wall clock that never steps back, dates that
\* never lead it.
CONSTANTS
    NumTables = 2
    MaxId = 1
    Values = {a, b}
    NoRow = NoRow
    Emitters = {p, q}
    Importers = {i}
    MaxTime = 2
    MaxSeq = 3
    MaxRuns = 2
    ClockMayStepBack = FALSE
    DatesMayLead = FALSE
SPECIFICATION Spec
SYMMETRY Symmetry
CHECK_DEADLOCK FALSE
INVARIANTS
    ProjectionExact
    LiveMutationWins
    BackfillCompletes
    LedgerExact
PROPERTIES
    ImplementsReplica
