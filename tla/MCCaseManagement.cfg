SPECIFICATION Spec
CONSTANTS
    Keys = {k1}
    Outcome = {"approve", "block"}
    Consumers = {c1}
    Agents = {a1, a2}
    Requested = {"low"}
    MaxActions = 2
    MaxTime = 1
SYMMETRY MCSymmetry
CONSTRAINT Bounded
INVARIANTS
    TypeOK
    CaseTrailUnbroken
    AnnouncedCasesAreReal
PROPERTY
    FirstOpeningWins
