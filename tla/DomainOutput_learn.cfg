SPECIFICATION OutputFairSpec
CONSTANTS
    d1 = d1
    d2 = d2
    r1 = r1
    Domains <- TwoDomains
    Requests <- OneServer
    BufferLimit = 1
    MaxEntries = 2
    MaxRecords = 2
    MaxRequests = 2
    MaxCrashes = 1
INVARIANTS OutputTypeOK NoLostRecord
PROPERTIES KeepsItsPromise RecordsReachFile CloseReturns
