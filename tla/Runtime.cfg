\* One process, two outside cancellations, any signals; HTTP and engine may hang.
SPECIFICATION Spec
CONSTANT MaxCancels = 2
INVARIANTS
    TypeOK
    ReadyMeansServing
    PoolIsStopped
    HttpStopsFirst
    FatalDecidesOutcome
PROPERTY ServeEnds
