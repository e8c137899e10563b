CONSTANTS
    w1 = w1
    w2 = w2
    k1 = k1
    k2 = k2
    Writer = {w1, w2}
    Nobody = Nobody
    Conversation = {k1, k2}
    Base = 2
    Digits = 2
    Limits = {1, 5}
    ZeroTime = ZeroTime
    Instant <- MCInstant
    Given <- MCGiven
    MaxRows = 2
SYMMETRY MCSymmetry
SPECIFICATION Spec
INVARIANTS TypeOK NewestFirst TimesSurvive SequenceIsTime ConversationFirst
