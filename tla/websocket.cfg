SPECIFICATION Spec
CONSTANTS
    u1 = u1
    u2 = u2
    Urls <- MCUrls
    NoUrl = NoUrl
    MaxConn = 3
INVARIANTS TypeOK OpenIsBacked StatusExplained HandleKept CloseFlagRight UrlRemembered
PROPERTIES DestructorWaitsForOpen
