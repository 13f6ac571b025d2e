SPECIFICATION FairSpec
CONSTANTS
    k1 = k1
    k2 = k2
    k3 = k3
    Key <- MCKey
    NoKey = NoKey
    d1 = d1
    d2 = d2
    Draft <- MCDraft
    NoDraft = NoDraft
    Threshold = 2
    MaxLoads = 4
CHECK_DEADLOCK FALSE
INVARIANTS
    ClaimsAreTrue
    IdlePageIsReady
    SharedLinkWorks
PROPERTIES
    FinalityStays
    ReceiptStands
    NeverSubmitsAgain
    AttemptsEnd
