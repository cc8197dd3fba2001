SPECIFICATION Spec
CONSTANTS
    Tenants = {t1}
    IdempotencyKeys = {k1, k2}
    Amounts = {m1, m2}
    NoId = NoId
    Callers = {c1, c2}
    SchemaAccepts = TRUE
SYMMETRY MCSymmetry
INVARIANT FirstSubmissionReceived
