SPECIFICATION Spec
CONSTANTS
  c1 = c1
  Clusters = {c1}
  DefaultRoute = default
  NoRoute = noroute
  Backends = {incumbent, candidate}
  Incumbent = incumbent
  Candidate = candidate
  NoBackend = nobackend
  k1 = k1
  k2 = k2
  Keys = {k1, k2}
  Bucket <- BucketDef
  Handlers = {h1}
  Changes <- ChangesDef
  StartPercents = {100}
  TokenConfigured = TRUE
  Unlocked = unlocked
  Requests = {r1, r2}
  Asks <- AsksDef
  MaxRecords = 1
  Capturing = TRUE
SYMMETRY RequestSym
INVARIANTS CandidateServesOnlyApproved RecordsComplete
PROPERTIES AnswersMetered
CHECK_DEADLOCK FALSE
