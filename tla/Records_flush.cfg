CONSTANTS
    Keys = {k1, k2}
    NoKey = NoKey
    MaxVersion = 2
SPECIFICATION FlushSpec
PROPERTIES
    EventuallySaved
