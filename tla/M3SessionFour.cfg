SPECIFICATION Spec
CONSTANTS
    Player <- FourIds
    Preference <- FourOrder
    FirstAuthority = 4
    FragmentCount = 2
    FixtureTick = 1
    Lossy = TRUE
    NoPlayer = NoPlayer
    MaxHeartbeats = 0
    MaxEpoch = 2
    MaxDown = 0
    MaxTick = 0
INVARIANTS SingleReign WholeCheckpoint
CHECK_DEADLOCK FALSE
