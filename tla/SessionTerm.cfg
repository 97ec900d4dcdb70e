SPECIFICATION FairSpec
CONSTANTS
    Slots = {0}
    Threads = {t1}
    NoSlot = NoSlot
    Requests = {2}
    RingCapacity = 4
    Calls = {"config", "send_and_wait", "wait_request", "send_response", "wait_event", "poll"}
    Sharing = FALSE
    Interrupts = FALSE
    Timeouts = FALSE
    SecureCalls = {"term", "request"}
PROPERTIES
    WaitEnds
    ConfigEnds
