\* Two assistant turns, any number of user messages, an orderly host.
SPECIFICATION Spec
CONSTANTS
    Turns = 2
    MaxBacklog = 3
INVARIANTS
    TypeOK
    OnePlayer
    NothingOldSpoken
PROPERTY InterruptStops
