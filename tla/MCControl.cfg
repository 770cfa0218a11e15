SPECIFICATION ControlSpec
CONSTANTS
  Clusters = {c1, c2}
  DefaultRoute = default
  NoRoute = noroute
  Backends = {incumbent, candidate}
  Incumbent = incumbent
  Candidate = candidate
  NoBackend = nobackend
  k1 = k1
  k2 = k2
  Keys = {k1, k2}
  Bucket <- BucketDef
  Handlers = {h1, h2}
  Percents = {50, 200}
  Changes <- ChangesDef
  StartPercents = {5, 100, 200}
  TokenConfigured = TRUE
  Unlocked = unlocked
INVARIANTS CandidateShareApproved HistoryComplete
PROPERTIES ChangeSettles
CHECK_DEADLOCK FALSE
