SPECIFICATION Spec
CONSTANTS
    Tenants = {t1, t2}
    IdempotencyKeys = {k1}
    Amounts = {m1}
    NoId = NoId
    Callers = {c1}
    SchemaAccepts = TRUE
    EventIds = {NoId}
    Outcome = {"approve"}
    Workers = {w1, w2}
    Consumers = {}
    Analysts = {}
    MaxOverrides = 0
    CaseConsumers = {}
    Agents = {}
    Requested = {}
    MaxActions = 0
    MaxTime = 0
SYMMETRY MCSymmetry
INVARIANT InFlightKeysTenantScoped
