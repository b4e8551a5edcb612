\* A slot can be returned while its engine request is still closing.
SPECIFICATION Spec
CONSTANTS
    Sessions = {s1, s2}
    Limit = 1
    MaxText = 1
    MaxPcm = 1
INVARIANT EngineLoadWithinLimit
