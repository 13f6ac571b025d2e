SPECIFICATION FairSpec
CONSTANTS
    Half <- MCHalf
    ZeroHalf = 0
    Digest <- MCDigest
    Key <- MCKey
    Stamp = {t1}
    MaxU8 = 2
    LegacyContracts = {}
    LegacyRecords = {}
    LegacyCount <- NoLegacyCount
    LegacyTotal = 0
    Request <- ThreeRequests
    Body <- MCBody
    Outside <- MCOutside
    Flaky <- OneFlaky
    k1 = k1
    k2 = k2
    t1 = t1
    r1 = r1
    r2 = r2
    r3 = r3
CHECK_DEADLOCK FALSE
INVARIANTS
    SuccessIsOnChain
    SignedIsCounted
    LeftoversAreExplained
PROPERTIES
    FailuresAreJustified
    ImplementsAgreement
    RequestsAnswered
