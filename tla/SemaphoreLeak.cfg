SPECIFICATION FairSpec
CONSTANTS
    Slots = {0}
    Threads = {t1}
    NoSlot = NoSlot
    Requests = {2}
    RingCapacity = 8
    Calls = {"alloc", "config_by_name", "close"}
    Sharing = FALSE
    Interrupts = FALSE
    Timeouts = FALSE
    SecureCalls = {}
PROPERTIES
    MessagesAreHandled
CHECK_DEADLOCK FALSE
