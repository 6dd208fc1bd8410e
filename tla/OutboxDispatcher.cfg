SPECIFICATION Spec
CONSTANTS
    Jobs = {j1}
    Dispatchers = {d1, d2}
    Handlers = {h1, h2}
    BatchSize = 2
    MaxCopies = 1
    NoEvent = none
SYMMETRY InterchangeableProcesses
INVARIANTS
    DispatchedMeansHandedOver
    ClaimsAreRecoverable
    ProcessClaimsAreExclusive
PROPERTIES
    DispatchedJobStaysDispatched
