SPECIFICATION LifeSpec
CONSTANTS
    NSlots = 1
    Bits <- OneBit
    MaxRing = 1
    MaxResets = 1
    MESSAGE = MESSAGE
    RESET = RESET
    Worker = Worker
    Remover = Remover
    Calls = {"get", "wait", "close"}
    SecureCalls = {"signal", "term"}
INVARIANTS NoSessionAcrossReset PendingIsAnnounced NothingLeaks 
PROPERTIES SignalWakesUser ResetInvalidates HandshakeEnds
CHECK_DEADLOCK FALSE
