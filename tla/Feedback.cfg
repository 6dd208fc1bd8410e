SPECIFICATION Spec
CONSTANTS
  Outputs = {o1}
  Handlers = {h1, h2}
  Exporters = {e1, e2}
  Names = {n1, n2}
  Paths = {p1}
  MaxPosts = 3
  MaxExports = 2
  MaxLines = 2
  MaxFaults = 1
SYMMETRY Alike
INVARIANT FeedbackIsLastPost
INVARIANT ExportedOnce
INVARIANT ManifestMatchesFile
CHECK_DEADLOCK FALSE
