SPECIFICATION FairSpec
CONSTANTS
    Player <- Ids
    Preference <- NoOrder
    FirstAuthority = 3
    Shot <- ShotOfTwo
    NoShot = NoShot
    Lossy = FALSE
    MaxHeartbeats = 1
    MaxEpoch = 5
    MaxDown = 1
PROPERTY Convergence
CHECK_DEADLOCK FALSE
