SPECIFICATION FairSpec
CONSTANTS
    Tokens = {1, 2}
    NoToken = 0
    MaxFaults = 2
PROPERTIES
    SignsIn
    Mended
