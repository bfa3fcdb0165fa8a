SPECIFICATION HotSpec
CONSTANTS
  Stores = {s1, s2}
  Facts <- MCFacts
  Legacy <- MCLegacy
  Batches <- MCBatches
  Ranges <- MCRanges
  MaxBatchRows = 2
  MaxCalls = 2
  MaxResends = 1
  MaxDropped = 0
INVARIANTS
  ReceiptMeansStored
  RefusedCallSendsNothing
  OneRowPerCapture
PROPERTIES
  OnceReadAlwaysRead
SYMMETRY Symmetry
CHECK_DEADLOCK FALSE
