SPECIFICATION Spec
CONSTANTS
    Threads = {t1}
    n1 = n1
    n2 = n2
    f1 = f1
    f2 = f2
    Names = {n1}
    Files = {f1}
    FileOf <- OnePath
    Remotes = {r1}
    MaxVersion = 3
    SizeOf <- Shrinking
    MaxRetries = 1
    Faults = {}
    ErrorByte = ErrorByte
    UserFile = UserFile
    NoFile = NoFile
    NoRecord = NoRecord
    NoRequest = NoRequest
INVARIANTS IInv NoTornFile RecordDescribesPartial
PROPERTIES DeliversWholeFiles ResumeKeepsPrefix
