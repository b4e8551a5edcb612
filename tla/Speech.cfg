\* Three segments of up to two chunks, every voice, mode and style.
SPECIFICATION Spec
CONSTANTS
    MaxSegments = 3
    MaxChunks = 2
INVARIANTS
    TypeOK
    Conditioning
    StreamsClosed
PROPERTY RefinesUtterance
