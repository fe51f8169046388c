SPECIFICATION Spec
CONSTANTS
    Tools = {t1, t2}
    Names = {n1, n2}
    None = None
    Torn = Torn
    Damaged = Damaged
    MaxWritten = 4
SYMMETRY FilesSymmetry
INVARIANTS
    TypeOK
PROPERTIES
    SoundStaysSound
    RefinesSnapshots
