\* As MCAudit: a mismatch must end the loop.
SPECIFICATION Spec
CONSTANTS
  k1 = k1
  Key <- OneKey
  OpKinds <- AllOps
  FilterOutcomes <- AllSelected
  MinOpsPerBlock = 0
  MaxOpsPerBlock = 2
  MaxHeight = 3
  MaxReorgs = 1
  MaxReorgDepth = 1
  ConfirmationDepth = 1
  FetchBatchSize = 2
  DedupWindow = 1
  SampleEveryNBlocks = 1
  SampleSize = 4
  MismatchHaltThreshold = 2
  Paranoid = TRUE
  Liars <- Both
PROPERTY DiscrepancyHalts
