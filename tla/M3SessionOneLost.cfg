SPECIFICATION FairSpec
CONSTANTS
    Player <- Ids
    Preference <- Order
    FirstAuthority = 1
    FragmentCount = 2
    FixtureTick = 1
    Lossy = FALSE
    NoPlayer = NoPlayer
    MaxHeartbeats = 1
    MaxEpoch = 4
    MaxDown = 1
    MaxTick = 2
INVARIANTS TypeOK BankFitsReign NextEnvelopeIsFresh
PROPERTY AuthorityLossIsSurvived
CHECK_DEADLOCK FALSE
