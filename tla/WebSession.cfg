\* Two tabs of one browser: sessions, refreshes, events, queries and faults.
SPECIFICATION FairSpec
CONSTANTS
    t1 = t1
    t2 = t2
    s1 = s1
    s2 = s2
    Tabs = {t1, t2}
    Sids = {s1, s2}
    NoSid = NoSid
    NoTab = NoTab
    Setups <- MCSetups
    MaxRot = 3
    MaxVer = 3
    MaxEvents = 1
INVARIANTS
    CookieKnown
    CacheIsolated
PROPERTIES
    NoDirectSwitch
    TokenNeverOlder
    RefreshSettles
    EndedSessionLeaves
CHECK_DEADLOCK FALSE
