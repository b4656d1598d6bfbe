\* Every function on every input within the bounds.
SPECIFICATION Spec
CONSTANTS
  MaxBodyBytes = 2
  U8Bits = 3
  U64Bits = 4
  U64 = {"7"}
  MaxPieces = 5
  ExtractorRules <- MCRules
  ContentTypes <- MCTypes
  MaxChars = 3
  Places <- MCPlaces
  Attributes <- MCAttributes
  Pairs <- MCPairs
  Conditions <- MCConditions
  MaxLines = 5
  MaxLine = 3
  BufferSizes <- MCBuffers
  SampleSizes <- MCSamples
  Heads = {0, 1, 2, 5, 40}
INVARIANTS VisibleTextOnly TextIsIndexed LogsAreExact BadLogFailsFetch FiltersSeeAnnotations
  AttributesAreKept BatchesAreRight SampleCoversBuffer FiltersAreAsWritten AcceptedConfigProgresses
