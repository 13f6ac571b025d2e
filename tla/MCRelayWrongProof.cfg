SPECIFICATION Spec
CONSTANTS
    Half <- MCHalf
    ZeroHalf = 0
    Digest <- MCDigest
    Key <- MCKey
    Stamp = {t1}
    MaxU8 = 2
    LegacyContracts <- MCLegacyContracts
    LegacyRecords = {}
    LegacyCount <- MCLegacyCount
    LegacyTotal = 0
    Request <- TwoRequests
    Body <- WrongProof
    Outside = {}
    Flaky = {}
    k1 = k1
    k2 = k2
    t1 = t1
    r1 = r1
    r2 = r2
    r3 = r3
CHECK_DEADLOCK FALSE
INVARIANTS
    FailedSignRecordsNothing
