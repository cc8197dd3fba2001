SPECIFICATION FairSpec
CONSTANTS
    EventIds = {id1}
    NoId = NoId
    Tenants = {t1}
    Bodies = {b1}
    Outcome = {"approve", "block"}
    Workers = {w1, w2, w3}
INVARIANTS
    TypeOK
    ExclusiveUnlessDegraded
    HeldKeysExist
PROPERTY
    InFlightKeysGoAway
