SPECIFICATION Spec
CONSTANTS
    Requests = {r1}
    Scopes = {s1}
    Inputs = {i1}
    MaxJobs = 1
    SharedSession = TRUE
INVARIANTS
    NewRequestIsAccepted
