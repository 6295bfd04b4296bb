SPECIFICATION FairSpec
CONSTANTS
    Player <- Ids
    Preference <- Order
    FirstAuthority = 1
    FragmentCount = 2
    FixtureTick = 0
    Lossy = FALSE
    NoPlayer = NoPlayer
    MaxHeartbeats = 1
    MaxEpoch = 4
    MaxDown = 1
    MaxTick = 2
PROPERTY AuthorityLossIsSurvived
CHECK_DEADLOCK FALSE
