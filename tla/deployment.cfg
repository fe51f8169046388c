SPECIFICATION Persistent
CONSTANTS
    Releases = {v1, v2, v3}
    NoRelease = NoRelease
    Rows = {w1}
    FaultSets = {{"docker", "crash"}, {"docker", "disk", "crash"}, {"docker", "crash", "late"}}
INVARIANTS
    TypeOK
    Settled
    RecoverFindsPort
    RunningIsNamed
    FailureChangesNothing
PROPERTIES
    RowsMove
    RecoveredAtLast
CHECK_DEADLOCK FALSE
