\* The node ignores atBlock, in tail-only mode; everything else as in MCConfirmed.cfg, with nothing failing.
SPECIFICATION Spec
CONSTANTS
  k1 = k1
  k2 = k2
  k3 = k3
  Key <- OneKey
  OpKinds <- AllOps
  FilterOutcomes = {TRUE, FALSE}
  MinOpsPerBlock = 0
  MaxOpsPerBlock = 1
  MaxHeight = 4
  MaxReorgs = 1
  MaxReorgDepth = 1
  ConfirmationDepth = 1
  FetchBatchSize = 2
  StartNumber = 0
  TailOnly = TRUE
  Historical = FALSE
  IngestBatchDocs = 1
  MaxDeleteTerms = 1
  DedupWindow = 1
  BufferSize = 1
  RetractMaxDepth = 1
  RecheckSampleSize = 2
  Crashes = FALSE
  Faults = FALSE
  HydrationErrors = FALSE
INVARIANT NoGapsButDead
