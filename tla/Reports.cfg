\* Pages of one and two rows of lists of up to three, two restaurants.
CONSTANTS
    v1 = v1  v2 = v2
    Venues = {v1, v2}
    Times <- Instants
    Samples <- RowSamples
    Queries <- ReaderQueries
    MaxRows <- RowBound
    DayLen = 48
    Offset = 11
    Null = Null
SPECIFICATION Spec
CHECK_DEADLOCK FALSE
INVARIANTS TypeOK WalkMissesNothing ExportAgrees LedgerDays PaidIsActive PeriodHonoured ListedIsFound
