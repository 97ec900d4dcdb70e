SPECIFICATION FairSpec
CONSTANTS
    Devices = {mmc}
    Remote = {mmc}
    Uses = {{"SUSPEND", "RESUME"}, {"SELECT", "TRANSFER"}, {"RPMB", "UNKNOWN"}}
    Lengths = {2, 3, 4}
    DataSize = 2
    LengthMod = 4
    ValueMod = 2
    MaxDepth = 2
INVARIANTS LastRequestIsDone
PROPERTIES RequestIsAnswered MonitorRestarts
CHECK_DEADLOCK FALSE
