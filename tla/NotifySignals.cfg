SPECIFICATION Spec
CONSTANTS
    NSlots = 2
    Bits <- OneBit
    MaxRing = 1
    MaxResets = 0
    MESSAGE = MESSAGE
    RESET = RESET
    Worker = Worker
    Remover = Remover
    Calls = {"send", "wait"}
    SecureCalls = {"signal", "message"}
INVARIANTS SignalIsAnnounced SignalReachesSecure
