SPECIFICATION Spec
CONSTANTS
    Requests = {r1, r2}
    Scopes = {s1}
    Inputs = {i1, i2}
    MaxJobs = 2
    SharedSession = FALSE
INVARIANTS
    OneJobPerScope
    AnswersAreJustified
PROPERTIES
    RetriesNameTheOriginal
