SPECIFICATION Spec
CONSTANTS
    Keys = {k1}
    Outcome = {"approve", "block"}
    Consumers = {c1, c2}
    Analysts = {a1, a2}
    MaxOverrides = 2
SYMMETRY MCSymmetry
INVARIANTS
    TypeOK
    OverrideTrailUnbroken
    PublishedOutcomesAreReal
    FailOpenStartsAsApprove
PROPERTIES
    FirstEvaluationWins
    ImplementsLedger
