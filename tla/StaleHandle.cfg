SPECIFICATION Spec
CONSTANTS
    Slots = {0}
    Threads = {t1, t2}
    NoSlot = NoSlot
    Requests = {2}
    RingCapacity = 8
    Calls = {"config", "close"}
    Sharing = FALSE
    Interrupts = FALSE
    Timeouts = FALSE
    SecureCalls = {"refuse"}
INVARIANTS
    TerminatesOwnSession
