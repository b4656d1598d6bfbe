\* Reorgs as deep as the windows, which are as short as they may be; the sample is
\* larger than any buffer (blocks 0..MaxHeight); every call may fail, the process
\* may die.
SPECIFICATION Spec
CONSTANTS
  k1 = k1
  k2 = k2
  k3 = k3
  Key <- OneKey
  OpKinds = {"create", "update"}
  FilterOutcomes <- AllSelected
  MinOpsPerBlock = 0
  MaxOpsPerBlock = 1
  MaxHeight = 4
  MaxReorgs = 1
  MaxReorgDepth = 2
  ConfirmationDepth = 0
  FetchBatchSize = 2
  StartNumber = 0
  TailOnly = FALSE
  Historical = TRUE
  IngestBatchDocs = 1
  MaxDeleteTerms = 1
  DedupWindow = 1
  BufferSize = 2
  RetractMaxDepth = 3
  RecheckSampleSize = 6
  Crashes = TRUE
  Faults = TRUE
  HydrationErrors = FALSE
INVARIANTS IInv OrphanWitness NoOrphans NoticedInTime NoticedInv SettledInv RetractedOrHalted
