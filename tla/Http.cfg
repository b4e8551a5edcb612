\* Two requests that compete for one slot; cancellations, failures, encoder
\* threads.  The server is fair, the engine need not be.
SPECIFICATION ServerSpec
CONSTANTS
    Requests = {r1, r2}
    Limit = 1
    MaxSegments = 2
INVARIANTS
    TypeOK
    LiveStreamHoldsSlot
    ResponseFileWhole
    DirectoryReclaimed
PROPERTY HandlerReturnsSlot
