SPECIFICATION Spec
CONSTANTS
    Half <- MCHalf
    ZeroHalf = 0
    Digest <- OneDigest
    Key <- MCKey
    Stamp <- TwoStamps
    MaxU8 = 3
    LegacyContracts = {}
    LegacyRecords = {}
    LegacyCount <- NoLegacyCount
    LegacyTotal = 0
    k1 = k1
    k2 = k2
    t1 = t1
    t2 = t2
SYMMETRY KeySymmetry
INVARIANTS
    OneReceiptPerKey
    FinalizedByQuorum
    FinalizeNeverNeeded
PROPERTIES
    FinalityIsTerminal
