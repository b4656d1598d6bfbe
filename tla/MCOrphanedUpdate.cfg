\* Updates, and nothing fails; everything else as in MCRecrawl.cfg, with one reorg.
SPECIFICATION Spec
CONSTANTS
  k1 = k1
  k2 = k2
  k3 = k3
  Key <- TwoKeys
  OpKinds = {"create", "update"}
  FilterOutcomes <- AllSelected
  MinOpsPerBlock = 1
  MaxOpsPerBlock = 1
  MaxHeight = 3
  MaxReorgs = 1
  MaxReorgDepth = 2
  ConfirmationDepth = 0
  FetchBatchSize = 1
  StartNumber = 0
  TailOnly = FALSE
  Historical = TRUE
  IngestBatchDocs = 1
  MaxDeleteTerms = 2
  DedupWindow = 3
  BufferSize = 4
  RetractMaxDepth = 4
  RecheckSampleSize = 2
  Crashes = FALSE
  Faults = FALSE
  HydrationErrors = FALSE
INVARIANT NoGapsAfterReorg
