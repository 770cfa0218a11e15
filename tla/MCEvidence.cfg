SPECIFICATION MCSpec
CONSTANTS
    Clusters = {"code", "chat", "rest"}
    MaxProjectedSamples = 30
    MinWindowDays = 7
    MaxReceiptAgeDays = 90
    Works <- MCWorks
    Reruns <- MCReruns
    Worlds <- MCWorlds
    MaxEdits = 1
    Runs <- MCRuns
    MaxRuns = 3
    MaxKills = 2
INVARIANTS CollectionHonest AcceptedFollowsFromCounts IssuedSaysTheReport ReproductionVerifies HoldingMeansSameMix
PROPERTIES OnlyMissingBought LedgerKeepsAnswers RunsEnd
CHECK_DEADLOCK FALSE
