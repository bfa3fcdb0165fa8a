SPECIFICATION Spec
CONSTANTS
    Assets <- MCAssets
    SeriesOf <- MCSeriesOf
    Markets <- MCMarkets
    Listings <- MCListings
    Missing <- MCMissing
    Requests <- MCRequests
    Quarter = 3
    Resolvers = {r1}
    MaxObjects = 2
    MaxChanges = 1
    MaxUses = 1
    None = None
INVARIANTS
    IssuedFromTheOnlyMarket
    RefusalsReflectTheListing
    UsesWereVerified
    FactsNameTheirMarket
CHECK_DEADLOCK FALSE
