\* A cancelled request whose encoder thread goes on leaves its directory.
SPECIFICATION Spec
CONSTANTS
    Requests = {r1}
    Limit = 1
    MaxSegments = 1
INVARIANT NoDirectoryLeft
