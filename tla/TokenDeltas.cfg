CONSTANTS
    d1 = d1
    d2 = d2
    t1 = t1
    t2 = t2
    none = none
    Documents <- TwoDocuments
    Texts <- TwoTexts
    TokensOf <- Tokens
    NoStream = none
    MaxRequests = 3
    MaxEdits = 2
    MaxRestarts = 1
SPECIFICATION FairSpec
CHECK_DEADLOCK FALSE
INVARIANTS
    StreamIsServers
    IdNamesStream
PROPERTIES
    EventuallyCurrent
