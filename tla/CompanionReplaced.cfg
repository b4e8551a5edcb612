\* As Companion.cfg, for the claim of the test.
SPECIFICATION Spec
CONSTANTS
    Turns = 2
    MaxBacklog = 3
INVARIANT AssemblerNeverFails
