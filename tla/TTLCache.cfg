SPECIFICATION MCSpec
CONSTANTS
    c1 = c1
    k1 = k1
    k2 = k2
    i1 = i1
    Callers = {c1, c2}
    Keys = {k1, k2, k3}
    Payloads = {p1}
    TTLs = {0, 1, 2}
    Capacity = 2
    Calls = {i1, i2}
    MaxTime = 2
    None = None
    Zero = Zero
INVARIANTS
    TypeOK
    SingleFlight
    AnswersFaithful
    CapacityRespected
PROPERTIES
    EvictsSoonestLive
    WaitersReleased
    ImplementsSingleFlightMap
