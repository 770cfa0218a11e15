SPECIFICATION MCSpec
CONSTANTS
    Catalogue <- MCCatalogue
    Profiles <- MCProfiles
    Local <- MCLocal
    Texts <- MCTexts
    Answers <- MCAnswers
    MaxTurns = 3
    MaxPhrases = 7
    Wire <- MCWire
    FileNames <- MCFiles
    Contents = {"receipt", "altered receipt", "other json"}
    Homes <- MCHomes
    Models = {"m"}
    LIST_LIMIT = 1
    MaxItems = 3
    MaxFileEdits = 2
    Shipped <- MCShipped
    EnvFiles <- MCEnv
    DropInFiles <- MCDropIns
    Documents <- MCDocuments
    Index <- MCIndex
    Configs <- MCConfigs
    AddArgs <- MCAddArgs
    MAX_PER_RUN = 1
    CacheLimit = 2
    MaxWrites = 3
    MaxFaults = 1
INVARIANTS ConversationKept RepliesMatchRequests CacheIsCurrent
PROPERTIES AskedOnce AppliedIsConfirmed EveryListedModelStaged
CHECK_DEADLOCK FALSE
