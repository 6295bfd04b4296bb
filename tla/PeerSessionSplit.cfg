SPECIFICATION Spec
CONSTANTS
    Player <- Ids
    Preference <- NoOrder
    FirstAuthority = 3
    Shot <- ShotOfTwo
    NoShot = NoShot
    Lossy = TRUE
    MaxHeartbeats = 1
    MaxEpoch = 3
    MaxDown = 1
INVARIANT OneAuthorityPerEpoch
CHECK_DEADLOCK FALSE
