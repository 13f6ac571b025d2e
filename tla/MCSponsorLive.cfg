SPECIFICATION FairSpec
CONSTANTS
    r1 = r1
    r2 = r2
    Slot <- TwoSlots
    TxCost = 1
    Reserve = 2
    Floor = 0
    Daily = 2
    StartBalance = 12
    TopUpAmount = {2}
    MayDisconnect = FALSE
    MayGiveUp = TRUE
    MayFail = TRUE
    MaxQueue = 2
    MaxDay = 2
    MaxTopped = 2
    MaxRestarts = 0
INVARIANTS
    DailyOvershootBounded
    NothingReservedWhenIdle
PROPERTIES
    RequestsDecided
