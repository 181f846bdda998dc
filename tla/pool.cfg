SPECIFICATION MCSpec
CONSTANTS
  NumAccounts = 2
  Request = {r1, r2}
  Offers <- Plans
  Wanted <- Asked
  Conversing = {r1, r2}
  Backoff <- Doubling
  Resets = {2, 5}
  MaxReported = 4
  HoldFor = 1
  AffinityTTL = 0
  MaxAttempts = 2
  MaxFailures = 3
  MaxTime = 2
  Acts <- Upkeep
  r1 = r1
  r2 = r2
  old = old
  new = new
INVARIANTS InFlightTrue NotAskedAgain RetryIsHonest WaitsAreBounded
PROPERTY HealthyFirst
SYMMETRY Requests
VIEW PoolView
