SPECIFICATION Spec
CONSTANTS
    r1 = r1
    r2 = r2
    Slot <- TwoSlots
    TxCost = 1
    Reserve = 2
    Floor = 1
    Daily = 4
    StartBalance = 12
    TopUpAmount = {}
    MayDisconnect = TRUE
    MayGiveUp = TRUE
    MayFail = TRUE
    MaxQueue = 2
    MaxDay = 2
    MaxTopped = 0
    MaxRestarts = 1
SYMMETRY SlotSymmetry
INVARIANTS
    FloorKeptUnlessOvertaken
    FloorOvershootBounded
