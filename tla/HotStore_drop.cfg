SPECIFICATION HotSpec
CONSTANTS
  Stores = {s1}
  Facts <- MCFacts
  Legacy <- MCLegacy
  Batches <- MCBatches
  Ranges <- MCRanges
  MaxBatchRows = 2
  MaxCalls = 1
  MaxResends = 1
  MaxDropped = 1
INVARIANTS
  ReceiptMeansStored
CHECK_DEADLOCK FALSE
