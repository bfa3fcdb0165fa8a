SPECIFICATION ReaderSpec
CONSTANTS
  HotStores = {h1, h2}
  Writers = {w1}
  Sources = {s1}
  HotTable = "hot_capture_facts"
  TableOf <- MCTableOf
  Addable <- MCAddable
  InitialTables <- MCInitialTables
  MaxTroubles = 1
  FactRows <- MCFactRows
  DecisionRows <- MCDecisionRows
  MarkerRows <- MCMarkerRows
  AssetIds = {"BTC"}
  Categories = {"accepted"}
  Reasons = {"unsupported_trade_schema"}
  Kinds = {"evidence", "authority"}
  StringLists = {"[]"}
  EventColumns = {"event_provider", "event_trade_id"}
  Proof = "proof/v1"
  Identity <- MCIdentity
SYMMETRY Symmetry
INVARIANTS
  ReadyIsServable
  RefusalNeedsMigration
  ReadersAgree
  WrittenIsRead
PROPERTIES
  SourceTablesAreFinal
