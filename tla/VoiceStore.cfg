\* Two voices, two deleters, one lister, two requests, crashes.
SPECIFICATION Spec
CONSTANTS
    Voices = {v1, v2}
    Deleters = {d1, d2}
    Listers = {l1}
    Requests = {r1, r2}
    Free = Free
INVARIANTS
    TypeOK
    VisibleVoiceComplete
    CacheOnlyLive
    ListedVoicesReadable
    WorkDirsAccounted
PROPERTY
    RefinesRegistry
