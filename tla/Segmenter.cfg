\* Tags, decimals, endings and spaces in chunks of up to two characters.
SPECIFICATION Spec
CONSTANTS
    Alphabet = {"g", "1", ".", "!", " ", "[", "]"}
    OfficialTags <- MCOfficialTags
    MaxChunk = 2
    DeadlineMin = 2
    SoftMin = 3
    Target = 4
    Hard = 5
INVARIANTS
    OfficialTagsWhole
    ExpiredMeansStuck
    WithinHardLimit
    DecimalPointKept
    EndingsCommitted
