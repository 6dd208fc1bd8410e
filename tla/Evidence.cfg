SPECIFICATION EvidenceSpec
CONSTANTS
  Characters <- FewCharacters
  Space = Space
  Files <- AllFiles
  ChunkSize = 6
  Overlaps = {0, 2, 3}
  Searched <- TitledFiles
  Queries <- FewQueries
  ClaimTerms <- FewClaims
  Similarities = {40, 60}
  SearchLimit = 3
  RerankLimit = 2
  MaxContext = 9
  HeaderSize = 1
  ExcerptSize = 4
  MinSupport = 50
  MaxReferences = 2
  MaxClaims = 1
INVARIANT ChunksKeepText
INVARIANT ChunksAreLocal
INVARIANT AcceptedClaimsAreQuoted
INVARIANT BetterEvidenceFirst
CHECK_DEADLOCK FALSE
