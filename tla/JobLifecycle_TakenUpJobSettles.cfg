SPECIFICATION FairSpec
CONSTANTS
    Jobs = {j1}
    Workers = {w1}
    NoJob = none
PROPERTY TakenUpJobSettles
