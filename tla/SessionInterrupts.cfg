SPECIFICATION Spec
CONSTANTS
    Slots = {0}
    Threads = {t1}
    NoSlot = NoSlot
    Requests = {2}
    RingCapacity = 2
    Calls = {"alloc", "config_by_name", "send_and_wait", "close"}
    Sharing = FALSE
    Interrupts = TRUE
    Timeouts = FALSE
    SecureCalls = {"refuse"}
INVARIANTS
    NotifiedHasMessage
