CONSTANTS
    BlockSize = 2
    MaxDirEntries = 2
    DirBufferSize = 4
    Name = {"", "a", "bb", "c"}
    NameLen <- MCNameLen
    Owners = {1, 2}
    Requests <- MCRequests
    MaxClients = 1
    MaxCrashes = 1
    MaxFileSize = 5
SPECIFICATION Spec
CONSTRAINT SmallFiles
INVARIANT TreeShape RetriedWriteCompletes
PROPERTY FailureChangesNothing WriteIsExact ListingIsExact
CHECK_DEADLOCK FALSE
