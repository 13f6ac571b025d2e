SPECIFICATION Spec
CONSTANTS
    r1 = r1
    r2 = r2
    Slot <- TwoSlots
    TxCost = 1
    Reserve = 2
    Floor = 3
    Daily = 20
    StartBalance = 7
    TopUpAmount = {}
    MayDisconnect = FALSE
    MayGiveUp = FALSE
    MayFail = FALSE
    MaxQueue = 2
    MaxDay = 1
    MaxTopped = 0
    MaxRestarts = 0
SYMMETRY SlotSymmetry
INVARIANTS
    FloorKept
