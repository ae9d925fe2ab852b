SPECIFICATION Spec
CONSTANTS
    StringSize = 2
    MaxLength = 99
    Requests <- MCRequests
    Configs <- MCConfigs
INVARIANTS
    ParsesWholeBody
