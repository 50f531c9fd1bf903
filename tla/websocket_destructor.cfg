SPECIFICATION Safety
CONSTANTS
    u1 = u1
    u2 = u2
    Urls <- MCUrls
    NoUrl = NoUrl
    MaxConn = 1
PROPERTY DestructorCloses
