SPECIFICATION Spec
CONSTANTS
    Jobs = {j1}
    Workers = {w1}
    NoJob = none
    Dispatchers = {d1}
    Handlers = {h1}
    BatchSize = 1
    MaxCopies = 1
    NoEvent = none
INVARIANTS
    ResultNeverLost
    
