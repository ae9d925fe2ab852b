SPECIFICATION FairSpec
CONSTANTS
    StringSize = 2
    MaxLength = 99
    Requests <- MCRequests
    Configs <- MCConfigs
INVARIANTS
    TypeOK
    StoresWhatWasSent
    AnswersDelivered
PROPERTIES
    RejectsOnlyInvalid
    Ends
