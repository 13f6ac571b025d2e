SPECIFICATION Spec
CONSTANTS
    Half <- MCHalf
    ZeroHalf = 0
    Digest <- MCDigest
    Key <- MCKey
    Stamp <- MCStamp
    MaxU8 = 2
    LegacyContracts <- MCLegacyContracts
    LegacyRecords <- MCLegacyRecords
    LegacyCount <- MCLegacyCount
    LegacyTotal = 1
    k1 = k1
    k2 = k2
    t1 = t1
    t2 = t2
INVARIANTS
    TypeOK
    ReceiptsProved
    MembersVerified
    TallyIsMembership
    FinalizedExactlyAtThreshold
    CountersMatchReceipts
    ReceiptsStayVerifiable
PROPERTIES
    ImplementsAgreement
