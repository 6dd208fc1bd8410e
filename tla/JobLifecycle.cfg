SPECIFICATION FairSpec
CONSTANTS
    Jobs = {j1, j2}
    Workers = {w1, w2}
    NoJob = none
INVARIANTS
    TypeOK
    OneOwner
    OwnerMissesOnlyEndings
    RowsMoveTogether
PROPERTIES
    CompletedIsFinal
    EndingsOverwrittenOnlyByStaleOwner
    AbandonedOnlyByFault
    TakenUpJobSettlesUnlessAbandoned
    ImplementsPromise
