SPECIFICATION Spec
CONSTANTS
    Threads = {t1}
    n1 = n1
    n2 = n2
    f1 = f1
    f2 = f2
    Names = {n1, n2}
    Files = {f1}
    FileOf <- TwoSpellings
    Remotes = {r1, r2}
    MaxVersion = 1
    SizeOf <- SameSizes
    MaxRetries = 0
    Faults = {}
    ErrorByte = ErrorByte
    UserFile = UserFile
    NoFile = NoFile
    NoRecord = NoRecord
    NoRequest = NoRequest
INVARIANTS NoTornFile
SYMMETRY Symmetry
