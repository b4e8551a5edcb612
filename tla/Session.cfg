\* One session, with every interleaving of its tasks, the client and the
\* engine, next to a second one that only competes for the slot.
\* The server is fair, the engine may hang.
SPECIFICATION MCSpec
CONSTANTS
    Sessions = {s1, s2}
    Guests = {s2}
    Limit = 1
    MaxText = 3
    MaxPcm = 1
INVARIANTS
    TypeOK
    SlotAccounting
    LiveRequestHoldsSlot
    SpokenInOrder
    DoneMeansAllSpoken
    PendingTextIsTimed
    TerminalIsLast
    EngineErrorIsReal
PROPERTY SessionEnds
