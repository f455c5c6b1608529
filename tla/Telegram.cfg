SPECIFICATION FairSpec
CONSTANTS
  RouteCount = 3
  Handlers = {h1}
  Main = main
  Cooldown = 2
  MaxTroubles = 2
INVARIANTS
  ActiveIsBest
PROPERTIES
  MessagesAreNotDoubled
  SafeRequestsPersist
  NothingBeginsAfterShutdown
  HealthComesBack
