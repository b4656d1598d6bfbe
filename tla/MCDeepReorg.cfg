\* The buffer is shorter than the depth a retraction may have, as in the defaults.
SPECIFICATION Spec
CONSTANTS
  k1 = k1
  k2 = k2
  k3 = k3
  Key <- TwoKeys
  OpKinds = {"create", "update"}
  FilterOutcomes <- AllSelected
  MinOpsPerBlock = 1
  MaxOpsPerBlock = 1
  MaxHeight = 4
  MaxReorgs = 1
  MaxReorgDepth = 3
  ConfirmationDepth = 0
  FetchBatchSize = 1
  StartNumber = 0
  TailOnly = FALSE
  Historical = TRUE
  IngestBatchDocs = 1
  MaxDeleteTerms = 2
  DedupWindow = 3
  BufferSize = 2
  RetractMaxDepth = 4
  RecheckSampleSize = 3
  Crashes = FALSE
  Faults = FALSE
  HydrationErrors = FALSE
INVARIANT RetractedOrHalted
