SPECIFICATION Spec
CONSTANTS
    MaxHead = 2
    MaxLate = 2
INVARIANTS
    OnlyPassedRuns
PROPERTIES
    AutomaticGoesForward
