SPECIFICATION Spec
CONSTANTS
    Player <- Ids
    Preference <- NoOrder
    FirstAuthority = 3
    Shot <- ShotOfTwo
    NoShot = NoShot
    Lossy = TRUE
    MaxHeartbeats = 1
    MaxEpoch = 3
    MaxDown = 1
INVARIANTS TypeOK SingleReign NoDoubleHit NextEnvelopeIsFresh
PROPERTIES LiveAuthorityIsNotDeposed OrderlySuccession ImplementsLineage
CHECK_DEADLOCK FALSE
