SPECIFICATION FairSpec
CONSTANTS
    Slots = {0}
    Threads = {t1}
    NoSlot = NoSlot
    Requests = {2, 3}
    RingCapacity = 8
    Calls = {"config", "send_request", "get_response", "wait_response", "cancel", "send_response", "get_request", "wait_request", "close"}
    Sharing = FALSE
    Interrupts = FALSE
    Timeouts = TRUE
    SecureCalls = {"request", "cancel", "refuse"}
INVARIANTS
    TypeOK
    ClientAgreement
    ServerAgreement
    ResponseAnswersRequest
    NotifiedIsAnnounced
PROPERTIES
    CloseEnds
