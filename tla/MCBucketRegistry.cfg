CONSTANTS
    t1 = t1
    t2 = t2
    p1 = p1
    p2 = p2
    b1 = b1
    b2 = b2
    Threads <- BothThreads
    Profiles <- OneProfile
    Buckets <- OneBucket
    Settings = {"pkce", "device"}
    DefaultSetting = "pkce"
    UserSettings = {"device"}
    Faults = {"refused", "torn", "unread"}
    NotLoaded = NotLoaded
    NoBucket = NoBucket
    NoCall = NoCall

SPECIFICATION Spec
SYMMETRY Symmetry
INVARIANT IInv
INVARIANT ConfigMirrored
INVARIANT HintOncePerProfile
PROPERTY RegistrationsLast
