SPECIFICATION FairSpec
CONSTANTS
    Msg = {m1, m2}
    NoMsg = NoMsg
    Capacity = 2
    IndexMod = 4
INVARIANTS
    TypeOK
    IndicesInOrder
    NoLostMessageWakeup
    NoLostRoomWakeup
PROPERTIES FifoSpec PublishedIsConsumed SleepingProducerWakes
