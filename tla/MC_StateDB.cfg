CONSTANTS
    a1 = a1
    k1 = k1
    V1 = V1
    C1 = C1
    EmptyCode = EmptyCode
    NoVal = NoVal
    NoObj = NoObj
    NoTrie = NoTrie
    Zero = 0
    MaxBalance = 1
    MaxNonce = 1
    MaxJournal = 2
    Amounts = {0, 1}
    Addrs <- MCAddrs
    Keys <- MCKeys
    Vals <- MCVals
    Codes <- MCCodes
    InitTries <- MCInitTries
    DeleteModes = {TRUE, FALSE}

SPECIFICATION Spec
INVARIANT TypeOK
INVARIANT JournalRoundTrip
PROPERTY RootMatchesView
