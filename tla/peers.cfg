SPECIFICATION Spec
CONSTANTS
  None = None
  Venues <- MCVenues
  Corrections <- MCCorrections
  Dropped <- MCDropped
  Fallback <- MCFallback
  StoxxMinComplete = 3
  ISharesMinRows = 2
  Sources <- MCSources
  FirstUniverse <- MCFirstUniverse
  MaxBuilds = 1
  Outages <- MCOutages
  RateOutages <- MCRateOutages
  Live <- MCLive
  Cached <- MCCached
  SymbolOrder <- MCSymbolOrder
  Rates <- MCRates
  QueryLimit = 4
  SuggestLimit = 3
  Checks <- MCChecks
  Entries <- MCEntries
  Rationales <- MCRationales
  FirstPeers <- MCFirstPeers
  MaxAttempts = 2
  MaxRefreshes = 1
INVARIANTS
  UniverseIsVerified
  SuggestionsAreHonest
  PeersAreEstablished
