CONSTANTS
    t1 = t1
    t2 = t2
    p1 = p1
    p2 = p2
    b1 = b1
    b2 = b2
    Threads <- OneThread
    Profiles <- OneProfile
    Buckets <- BothBuckets
    Settings = {"pkce", "device"}
    DefaultSetting = "pkce"
    UserSettings = {}
    Faults = {}
    NotLoaded = NotLoaded
    NoBucket = NoBucket
    NoCall = NoCall

SPECIFICATION Spec
SYMMETRY Symmetry
PROPERTY FailedListingOffersRegistration
