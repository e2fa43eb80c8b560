CONSTANTS
    Keys = {k1, k2}
    NoKey = NoKey
    MaxVersion = 4
SPECIFICATION Spec
SYMMETRY KeySymmetry
PROPERTIES
    PruneSparesActive
    ExitKeepsAll
    IsDurable
