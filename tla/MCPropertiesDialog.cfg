SPECIFICATION FairSpec
CONSTANTS
    MaxLogins = 2
    PkceLifetime = 2
    DeviceLifetime = 7
    Intervals = {1, 4}
    SlowDown = 1
    MaxInterval = 3
    NoCallback = NoCallback
    CallbackError = CallbackError
    Expirations = {quarter, hour}
    DefaultExpiry = hour
    NoLink = NoLink
INVARIANTS
    IInv
    CodeIsThere
    ReleasedOnce
    WorkersKeepWhatTheyUse
    LinkHasChosenExpiry
PROPERTIES
    CancelIsFinal
    EndsAsPromised
    EndsIdle
    LoginEnds
    ClosingEnds
