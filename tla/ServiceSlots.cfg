\* A session and two requests that compete for one slot.
SPECIFICATION Spec
CONSTANTS
    Sessions = {s1}
    Requests = {r1, r2}
    Limit = 1
    MaxText = 1
    MaxPcm = 1
    MaxSegments = 1
SYMMETRY ClientSymmetry
PROPERTY RefinesAdmission
