SPECIFICATION Spec
CONSTANTS
    Slots = {0}
    Threads = {t1, t2}
    NoSlot = NoSlot
    Requests = {2, 3}
    RingCapacity = 8
    Calls = {"config", "send_request", "wait_response", "cancel"}
    Sharing = TRUE
    Interrupts = FALSE
    Timeouts = FALSE
    SecureCalls = {}
SYMMETRY Symmetry
INVARIANTS
    ClientAgreement
CHECK_DEADLOCK FALSE
