\* Reorgs of confirmed blocks that change no existing document; the process is
\* not killed; blocks are crawled one by one; the window of emitted rows is as
\* short as the depth of the reorgs allows.
SPECIFICATION FairSpec
CONSTANTS
  k1 = k1
  k2 = k2
  k3 = k3
  Key <- ThreeKeys
  OpKinds <- CreateOnly
  FilterOutcomes <- AllSelected
  MinOpsPerBlock = 1
  MaxOpsPerBlock = 1
  MaxHeight = 3
  MaxReorgs = 2
  MaxReorgDepth = 2
  ConfirmationDepth = 0
  FetchBatchSize = 1
  StartNumber = 0
  TailOnly = FALSE
  Historical = TRUE
  IngestBatchDocs = 1
  MaxDeleteTerms = 1
  DedupWindow = 1
  BufferSize = 4
  RetractMaxDepth = 4
  RecheckSampleSize = 2
  Crashes = FALSE
  Faults = TRUE
  HydrationErrors = FALSE
INVARIANTS NoGapsAfterReorg RecrawlInv RetractedOrHalted
PROPERTY CatchesUp
