SPECIFICATION Spec
CONSTANTS
    Tenants = {t1, t2}
    IdempotencyKeys = {k1}
    Amounts = {m1}
    NoId = NoId
    Callers = {c1}
    SchemaAccepts = TRUE
    EventIds = {NoId}
    Outcome = {"approve", "block"}
    Workers = {w1, w2}
    Consumers = {d1}
    Analysts = {a1}
    MaxOverrides = 1
    CaseConsumers = {e1}
    Agents = {g1}
    Requested = {"low"}
    MaxActions = 0
    MaxTime = 0
SYMMETRY MCSymmetry
CONSTRAINT Bounded
INVARIANTS
    DecisionsHavePayments
    CasesFollowDecisions
PROPERTY
    ServicesImplemented
