SPECIFICATION LiveSpec
CONSTANTS
    Lobby = {a, b}
    NoLobby = none
    Deployment = {"direct", "fresh"}
    MaxFaults = 2
INVARIANT NothingIsStranded
PROPERTIES NetworkCleanupEnds ProtectedCleanupEnds
CHECK_DEADLOCK FALSE
