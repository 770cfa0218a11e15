SPECIFICATION MCSpec
CONSTANTS
  Names = {"extract", "classify"}
  Bar <- BarDef
  Evidence <- EvidenceDef
  HealthSignals <- HealthDef
  Rounds = {r1, r2, r3}
  Candidates = {m1, m2}
  Suites <- SuitesDef
  History = 2
SYMMETRY RoundSym
INVARIANTS RollbackSound HistorySound QuietEditsStand ProposesOnlyFromShadow
PROPERTIES AdvanceIsProven
CHECK_DEADLOCK FALSE
