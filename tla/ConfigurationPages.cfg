SPECIFICATION ConfSpec
CONSTANTS
    ConfAccounts <- MCConfAccounts
    Requests <- MCRequests
    MaxSaves = 1
    MaxPageSaves = 1
    MaxConfFaults = 0
INVARIANTS
    PageSavesKept
CHECK_DEADLOCK FALSE
