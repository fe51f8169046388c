SPECIFICATION Restarted
CONSTANTS
    Requests = {s1, s2, m1, m2}
    Services = {s1, s2}
    NoOne = NoOne
    Found = {"missing", "empty", "legacy", "unknown", "first", "second", "head"}
    Rows = {"new"}
    MaxFaults = 1
INVARIANTS
    TypeOK
    SchemaFitsRevision
    ServesAtHead
PROPERTIES
    ForwardOnly
    StrangersUntouched
    FirstStartServes
