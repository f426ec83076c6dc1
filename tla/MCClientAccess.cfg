CONSTANTS
    t1 = t1
    t2 = t2
    sso = sso
    other = other
    r1 = r1
    Threads <- TwoThreads
    Profiles = {sso, other}
    SsoProfiles = {sso, other}
    Regions = {r1}
    MaxLogins = 2
    MaxLives = 2
    NoThread = NoThread
    NoEntry = NoEntry

SPECIFICATION FairSpec
INVARIANT IInv
INVARIANT LoginsAreTried
INVARIANT ClientsAreAlive
PROPERTY CallsEnd
CHECK_DEADLOCK FALSE
