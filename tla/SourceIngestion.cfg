SPECIFICATION Spec
CONSTANTS
  book = book
  notes = notes
  scan = scan
  Workers = {w1, w2}
  Sources = {book, notes, scan}
  Requests <- EveryKind
  Readable <- AllButTheScan
  Indexes = {1, 2}
  TopK = 1
  Edited = {notes}
  MaxVersion = 2
  MaxJobs = 2
  MaxFaults = 1
INVARIANT VersionIsWhole
INVARIANT EnsuredStaysRetrievable
INVARIANT EvidenceIsFrozen
PROPERTY JobEnds
CHECK_DEADLOCK FALSE
