SPECIFICATION Spec
CONSTANTS
  Workspaces = {ws1}
  Contents = {notes, lecture, script, blank}
  Audio = {lecture}
  Unusable = {blank}
  Transcript = script
  Jobs = {j1, j2}
  Tasks = {"fahes", "khota", "rasheed", "sada"}
  Plans <- ThreePlans
  Sections <- FourSections
  MaxUploads = 2
  MaxFaults = 1
INVARIANT UnsettledHasTask
INVARIANT FilesMatchRows
INVARIANT RowsHaveWorkspace
INVARIANT PlansKeepConstraints
PROPERTY JobSettles
CHECK_DEADLOCK FALSE
