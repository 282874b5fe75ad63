CONSTANTS
    MaxEdits = 1
    MaxSetups = 3
    MaxFaults = 1
    ZkeyPaths = {"zkey"}
SPECIFICATION Spec
INVARIANTS FilesFit HandedOutIsAccepted
PROPERTY KeysKept
CHECK_DEADLOCK FALSE
