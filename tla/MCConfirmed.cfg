\* Reorgs stay above the confirmed blocks; every call may fail, the process may die.
SPECIFICATION Spec
CONSTANTS
  k1 = k1
  k2 = k2
  k3 = k3
  Key <- OneKey
  OpKinds <- AllOps
  FilterOutcomes = {TRUE, FALSE}
  MinOpsPerBlock = 0
  MaxOpsPerBlock = 1
  MaxHeight = 4
  MaxReorgs = 1
  MaxReorgDepth = 1
  ConfirmationDepth = 1
  FetchBatchSize = 2
  StartNumber = 0
  TailOnly = FALSE
  Historical = TRUE
  IngestBatchDocs = 1
  MaxDeleteTerms = 1
  DedupWindow = 1
  BufferSize = 1
  RetractMaxDepth = 1
  RecheckSampleSize = 2
  Crashes = TRUE
  Faults = TRUE
  HydrationErrors = FALSE
INVARIANTS TypeOK NoGaps NoStale CrawlInv
PROPERTY CrawlIsAtLeastOnce
