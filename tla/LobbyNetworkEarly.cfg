SPECIFICATION LiveSpec
CONSTANTS
    Lobby = {a}
    NoLobby = none
    Deployment = {"fresh"}
    MaxFaults = 0
PROPERTY LeaseIsReleased
CHECK_DEADLOCK FALSE
