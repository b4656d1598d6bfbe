\* Two operations in a block; the node may fail any hydration; no reorg.
SPECIFICATION Spec
CONSTANTS
  k1 = k1
  k2 = k2
  k3 = k3
  Key <- OneKey
  OpKinds <- AllOps
  FilterOutcomes = {TRUE, FALSE}
  MinOpsPerBlock = 0
  MaxOpsPerBlock = 2
  MaxHeight = 3
  MaxReorgs = 0
  MaxReorgDepth = 0
  ConfirmationDepth = 1
  FetchBatchSize = 2
  StartNumber = 0
  TailOnly = TRUE
  Historical = TRUE
  IngestBatchDocs = 1
  MaxDeleteTerms = 1
  DedupWindow = 1
  BufferSize = 1
  RetractMaxDepth = 1
  RecheckSampleSize = 2
  Crashes = FALSE
  Faults = TRUE
  HydrationErrors = TRUE
INVARIANTS NoGapsButDead NoStaleButDead
