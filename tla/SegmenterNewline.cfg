\* A number, its point and a newline.
SPECIFICATION Spec
CONSTANTS
    Alphabet = {"1", ".", "newline"}
    OfficialTags <- MCOfficialTags
    MaxChunk = 2
    DeadlineMin = 2
    SoftMin = 4
    Target = 5
    Hard = 6
INVARIANTS NumberPointDecided
