SPECIFICATION FairSpec
INVARIANTS
    TypeOK
    ConnectedHasSlot
    ConnectedHasId
    CountExact
    TargetsExact
    BagTargetsExact
    Withdrawn
PROPERTY EventuallyRemoved
CONSTANTS
    c1 = c1
    c2 = c2
    g1 = g1
    g2 = g2
    Client = {c1, c2}
    Guid = {g1, g2}
    Settings <- SettingsTwo
    Erring = {c1}
    Net = Net
    Main = Main
    None = None
    Slot = {0, 1, 7}
    ReservedSlot = 7
    MaxNetId = 2
    FirstId = 2
    CountMod = 8
CHECK_DEADLOCK FALSE
