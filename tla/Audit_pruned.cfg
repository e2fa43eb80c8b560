CONSTANTS
    Writers = {w1}
    Contents = {c1}
    Retention = 1
    MaxEntries = 2
    MaxTime = 2
SPECIFICATION Spec
PROPERTIES
    PruningKeepsVerifiable
