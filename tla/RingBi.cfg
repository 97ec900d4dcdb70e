SPECIFICATION FairSpec
CONSTANTS
    Request = {q1, q2}
    Response = {r1}
    NoMsg = NoMsg
    Capacity = 2
    IndexMod = 4
INVARIANTS
    IndicesInOrder
    NoLostWakeup
PROPERTIES
    ExchangeSpec
    RequestsAreAnswered
