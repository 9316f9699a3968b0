SPECIFICATION FairHub
CONSTANTS
    c1 = c1
    c2 = c2
    c3 = c3
    a = a
    b = b
    Unset = Unset
    Clients <- MCClients
    Channels <- MCChannels
    Requests <- MCRequests
    Quota <- MCQuota
INVARIANTS
    HubTypeOK
    GoneAreSwept
PROPERTIES
    ImplementsADT
    EveryMessageArrives
CHECK_DEADLOCK FALSE
